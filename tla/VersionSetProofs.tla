-------------------------- MODULE VersionSetProofs --------------------------
(***************************************************************************)
(* Proofs about the levels of tables, for any number of levels, keys,      *)
(* writes, snapshots and manual compactions, and any limits and sizes.     *)
(***************************************************************************)
EXTENDS VersionSet, TLAPS, FiniteSetTheorems, SequenceTheorems,
        WellFoundedInduction

-----------------------------------------------------------------------------
(* Least elements, orders and sorting.                                     *)

(* A set of naturals that is not empty has a least element.                *)
LEMMA LeastOf ==
  ASSUME NEW T \in SUBSET Nat, T # {}
  PROVE  \E n \in T : \A m \in T : n <= m
<1> DEFINE R == {ss \in Nat \X Nat : ss[1] < ss[2]}
<1>1. IsWellFoundedOn(R, Nat)
  BY NatLessThanWellFounded, Zenon DEF OpToRel
<1>2. \A a, b \in Nat : a < b => <<a, b>> \in R
  OBVIOUS
<1> HIDE DEF R
<1>3. PICK f \in T : \A m \in T : ~(<<m, f>> \in R)
  BY <1>1, WFMin
<1>4. ASSUME NEW m \in T PROVE f <= m
  <2>1. m \in Nat /\ f \in Nat /\ ~(<<m, f>> \in R)
    BY <1>3
  <2>2. ~(m < f)
    BY <1>2, <2>1
  <2> QED
    BY <2>1, <2>2
<1> QED
  BY <1>4

(* Min and Max of a set of naturals, the latter if it has a bound.         *)
LEMMA MinIs ==
  ASSUME NEW T \in SUBSET Nat, T # {}
  PROVE  Min(T) \in T /\ \A m \in T : Min(T) <= m
BY LeastOf DEF Min

LEMMA MaxIs ==
  ASSUME NEW T \in SUBSET Nat, T # {}, NEW b \in Nat, \A m \in T : m <= b
  PROVE  Max(T) \in T /\ \A m \in T : m <= Max(T)
<1> DEFINE U == {b - m : m \in T}
<1>1. U \in SUBSET Nat /\ U # {}
  <2>1. PICK m \in T : TRUE
    OBVIOUS
  <2>2. b - m \in U
    OBVIOUS
  <2>3. \A n \in T : b - n \in Nat
    OBVIOUS
  <2> QED
    BY <2>2, <2>3
<1>2. PICK u \in U : \A x \in U : u <= x
  BY <1>1, LeastOf
<1>3. PICK z \in T : u = b - z
  BY <1>2
<1>4. ASSUME NEW m \in T PROVE z >= m
  <2>1. z \in Nat /\ m \in Nat /\ b - m \in U /\ u \in Nat
    BY <1>1
  <2>2. u <= b - m
    BY <1>2, <2>1
  <2> QED
    BY <1>3, <2>1, <2>2
<1>5. PICK y \in T : Max(T) = y /\ \A m \in T : y >= m
  BY <1>4 DEF Max
<1>6. \A m \in T : m \in Nat
  OBVIOUS
<1> QED
  BY <1>5, <1>6

(* What precedes each element of a finite set in a total order, counted,   *)
(* gives each element a place of its own, and every place an element.      *)
LEMMA Places ==
  ASSUME NEW S, IsFiniteSet(S), NEW B \in [S -> SUBSET S],
         \A x \in S : x \notin B[x],
         \A x, y \in S : x # y => x \in B[y] \/ y \in B[x],
         \A x, y \in S : x \in B[y] => B[x] \subseteq B[y]
  PROVE  /\ Cardinality(S) \in Nat
         /\ \A x \in S : Cardinality(B[x]) \in 0 .. (Cardinality(S) - 1)
         /\ \A i \in 0 .. (Cardinality(S) - 1) :
              \E x \in S : Cardinality(B[x]) = i
         /\ \A x, y \in S : Cardinality(B[x]) < Cardinality(B[y]) <=> x \in B[y]
         /\ \A x, y \in S : Cardinality(B[x]) = Cardinality(B[y]) => x = y
<1> DEFINE n == Cardinality(S)
<1>1. n \in Nat
  BY FS_CardinalityType
<1>2. \A x \in S : IsFiniteSet(B[x]) /\ Cardinality(B[x]) \in Nat
  BY FS_Subset, FS_CardinalityType
<1>3. ASSUME NEW x \in S PROVE Cardinality(B[x]) \in 0 .. (n - 1)
  <2>1. B[x] \in SUBSET S /\ B[x] # S
    OBVIOUS
  <2>2. Cardinality(B[x]) <= n /\ Cardinality(B[x]) # n
    BY <2>1, FS_Subset
  <2> QED
    BY <1>1, <1>2, <2>2
<1>4. ASSUME NEW x \in S, NEW y \in S, x \in B[y]
      PROVE  Cardinality(B[x]) < Cardinality(B[y])
  <2>1. B[x] \in SUBSET B[y] /\ B[x] # B[y] /\ IsFiniteSet(B[y])
    BY <1>2, <1>4
  <2>2. Cardinality(B[x]) <= Cardinality(B[y])
        /\ Cardinality(B[y]) # Cardinality(B[x])
    BY <2>1, FS_Subset
  <2> QED
    BY <1>2, <2>2
<1>5. ASSUME NEW x \in S, NEW y \in S
      PROVE  /\ Cardinality(B[x]) < Cardinality(B[y]) <=> x \in B[y]
             /\ Cardinality(B[x]) = Cardinality(B[y]) => x = y
  <2>1. x = y \/ x \in B[y] \/ y \in B[x]
    OBVIOUS
  <2>2. Cardinality(B[x]) \in Nat /\ Cardinality(B[y]) \in Nat
    BY <1>2
  <2>3. x \in B[y] => Cardinality(B[x]) < Cardinality(B[y])
    BY <1>4
  <2>4. y \in B[x] => Cardinality(B[y]) < Cardinality(B[x])
    BY <1>4
  <2> QED
    BY <2>1, <2>2, <2>3, <2>4
<1>6. \A i \in 0 .. (n - 1) : \E x \in S : Cardinality(B[x]) = i
  <2> DEFINE T == 0 .. (n - 1)
             f == [x \in S |-> Cardinality(B[x])]
  <2>1. IsFiniteSet(T) /\ Cardinality(T) = n
    <3>1. PICK m \in Int : m = n - 1
      BY <1>1
    <3>2. /\ IsFiniteSet(0 .. m)
          /\ Cardinality(0 .. m) = IF 0 > m THEN 0 ELSE m - 0 + 1
      BY FS_Interval
    <3> QED
      BY <1>1, <3>1, <3>2
  <2>2. f \in [S -> T]
    BY <1>3
  <2>3. \A x, y \in S : f[x] = f[y] => x = y
    BY <1>5
  <2>4. f \in Injection(S, T)
    BY <2>2, <2>3 DEF Injection, IsInjective
  <2>5. f \in Surjection(S, T)
    BY <2>1, <2>4, FS_Injection
  <2>6. \A i \in T : \E x \in S : f[x] = i
    BY <2>5 DEF Surjection
  <2> QED
    BY <2>6
<1> QED
  BY <1>1, <1>3, <1>5, <1>6

(* The internal keys are totally ordered.                                  *)
LEMMA LessOrder ==
  /\ \A a \in AnEntry : ~Less(a, a)
  /\ \A a, b \in AnEntry : a = b \/ Less(a, b) \/ Less(b, a)
  /\ \A a, b, c \in AnEntry : Less(a, b) /\ Less(b, c) => Less(a, c)
  /\ \A a, b \in AnEntry : Less(a, b) => a.k <= b.k
  /\ \A a, b \in AnEntry : a.k < b.k => Less(a, b)
<1>1. \A a \in AnEntry : a.k \in Nat /\ a.s \in Nat /\ a.t \in {0, 1}
  <2>1. MaxSeq \in Nat
    BY SizesAssumption
  <2> QED
    <3>1. \A a \in AnEntry : a.k \in Keys /\ a.s \in 1 .. MaxSeq /\ a.t \in {0, 1}
      BY DEF AnEntry, Value, Deletion
    <3>2. \A n \in 1 .. MaxSeq : n \in Nat
      BY <2>1
    <3> QED
      BY <3>1, <3>2, KeysAssumption
<1>2. \A a, b \in AnEntry : a.k = b.k /\ a.s = b.s /\ a.t = b.t => a = b
  BY DEF AnEntry
<1>3. ASSUME NEW a \in AnEntry, NEW b \in AnEntry
      PROVE  a = b \/ Less(a, b) \/ Less(b, a)
  <2>1. a.k = b.k /\ 2 * a.s + a.t = 2 * b.s + b.t => a.s = b.s /\ a.t = b.t
    BY <1>1
  <2> QED
    BY <1>1, <1>2, <2>1 DEF Less
<1> QED
  BY <1>1, <1>3 DEF Less

(* A sequence that has at each place the element of that place.            *)
LEMMA InPlace ==
  ASSUME NEW S, IsFiniteSet(S), NEW B \in [S -> SUBSET S],
         \A x \in S : x \notin B[x],
         \A x, y \in S : x # y => x \in B[y] \/ y \in B[x],
         \A x, y \in S : x \in B[y] => B[x] \subseteq B[y],
         NEW s \in [1 .. Cardinality(S) -> S],
         \A i \in 1 .. Cardinality(S) : Cardinality(B[s[i]]) = i - 1
  PROVE  /\ s \in Seq(S) /\ Len(s) = Cardinality(S) /\ Range(s) = S
         /\ \A i, j \in DOMAIN s : i < j => s[i] \in B[s[j]]
<1>0. Cardinality(S) \in Nat
  BY FS_CardinalityType
<1>1. s \in Seq(S) /\ DOMAIN s = 1 .. Cardinality(S)
  BY <1>0, SeqDef
<1>2. Len(s) = Cardinality(S)
  <2>1. DOMAIN s = 1 .. Len(s) /\ Len(s) \in Nat
    BY <1>1, LenProperties
  <2> QED
    BY <1>0, <1>1, <2>1
<1>3. /\ \A x \in S : Cardinality(B[x]) \in 0 .. (Cardinality(S) - 1)
      /\ \A x, y \in S : Cardinality(B[x]) < Cardinality(B[y]) <=> x \in B[y]
      /\ \A x, y \in S : Cardinality(B[x]) = Cardinality(B[y]) => x = y
  BY Places
<1>4. ASSUME NEW x \in S PROVE x \in Range(s)
  <2>1. PICK c : c = Cardinality(B[x])
    OBVIOUS
  <2>2. c \in 0 .. (Cardinality(S) - 1)
    BY <1>3, <2>1
  <2>3. PICK d \in 1 .. Cardinality(S) : d - 1 = c
    <3>1. c + 1 \in 1 .. Cardinality(S) /\ c + 1 - 1 = c
      BY <1>0, <2>2
    <3> QED
      BY <1>0, <2>2, <3>1
  <2>4. Cardinality(B[s[d]]) = c /\ s[d] \in S
    BY <2>3
  <2>5. s[d] = x
    BY <1>3, <2>1, <2>4
  <2> QED
    BY <1>1, <2>3, <2>5 DEF Range
<1>5. Range(s) = S
  BY <1>1, <1>4 DEF Range
<1>6. ASSUME NEW i \in DOMAIN s, NEW j \in DOMAIN s, i < j PROVE s[i] \in B[s[j]]
  <2>1. s[i] \in S /\ s[j] \in S /\ i \in Int /\ j \in Int
    BY <1>0, <1>1
  <2>2. Cardinality(B[s[i]]) = i - 1 /\ Cardinality(B[s[j]]) = j - 1
    BY <1>1
  <2>3. i - 1 < j - 1
    BY <1>6, <2>1
  <2> QED
    BY <1>3, <2>1, <2>2, <2>3
<1> QED
  BY <1>1, <1>2, <1>5, <1>6

(* Sorting entries by their internal keys.                                 *)
LEMMA SortedEntries ==
  ASSUME NEW S \in SUBSET AnEntry, IsFiniteSet(S)
  PROVE  /\ Sorted(S, Less) \in Seq(S) /\ Len(Sorted(S, Less)) = Cardinality(S)
         /\ Range(Sorted(S, Less)) = S
         /\ \A i, j \in DOMAIN Sorted(S, Less) :
              i < j => Less(Sorted(S, Less)[i], Sorted(S, Less)[j])
<1> DEFINE B == [e \in S |-> {x \in S : Less(x, e)}]
           s == Sorted(S, Less)
<1>1. /\ B \in [S -> SUBSET S]
      /\ \A x, y \in S : x \in B[y] <=> Less(x, y)
      /\ \A y \in S : B[y] = {x \in S : Less(x, y)}
  OBVIOUS
<1> HIDE DEF B
<1>2. /\ \A x \in S : x \notin B[x]
      /\ \A x, y \in S : x # y => x \in B[y] \/ y \in B[x]
      /\ \A x, y \in S : x \in B[y] => B[x] \subseteq B[y]
  BY <1>1, LessOrder
<1>3. /\ Cardinality(S) \in Nat
      /\ \A i \in 0 .. (Cardinality(S) - 1) : \E x \in S : Cardinality(B[x]) = i
  BY <1>1, <1>2, Places
<1>4. s = [i \in 1 .. Cardinality(S) |->
             CHOOSE e \in S : Cardinality({x \in S : Less(x, e)}) = i - 1]
  BY DEF Sorted
<1> HIDE DEF s
<1>5. ASSUME NEW i \in 1 .. Cardinality(S)
      PROVE  s[i] \in S /\ Cardinality(B[s[i]]) = i - 1
  <2>1. i - 1 \in 0 .. (Cardinality(S) - 1)
    BY <1>3
  <2>2. \E e \in S : Cardinality({x \in S : Less(x, e)}) = i - 1
    BY <1>1, <1>3, <2>1
  <2>3. s[i] = CHOOSE e \in S : Cardinality({x \in S : Less(x, e)}) = i - 1
    BY <1>4
  <2>4. s[i] \in S /\ Cardinality({x \in S : Less(x, s[i])}) = i - 1
    BY <2>2, <2>3
  <2> QED
    BY <1>1, <2>4
<1>6. s \in [1 .. Cardinality(S) -> S]
  BY <1>4, <1>5
<1>7. /\ s \in Seq(S) /\ Len(s) = Cardinality(S) /\ Range(s) = S
      /\ \A i, j \in DOMAIN s : i < j => s[i] \in B[s[j]]
  <2>1. \A i \in 1 .. Cardinality(S) : Cardinality(B[s[i]]) = i - 1
    BY <1>5
  <2>2. B \in [S -> SUBSET S] /\ IsFiniteSet(S)
    BY <1>1
  <2> HIDE DEF B
  <2> QED
    BY <1>2, <1>6, <2>1, <2>2, InPlace
<1>8. \A i \in DOMAIN s : s[i] \in S
  BY <1>6
<1>9. \A i, j \in DOMAIN s : i < j => Less(s[i], s[j])
  BY <1>1, <1>7, <1>8
<1> QED
  BY <1>7, <1>9 DEF s

(* A table has entries, its smallest and largest key among them.           *)
LEMMA TableFacts ==
  ASSUME NEW f \in ATable
  PROVE  /\ f.num \in Nat /\ f.data \in Seq(AnEntry)
         /\ Smallest(f) \in Range(f.data) /\ Largest(f) \in Range(f.data)
         /\ Range(f.data) \subseteq AnEntry /\ IsFiniteSet(Range(f.data))
         /\ Smallest(f) \in AnEntry /\ Largest(f) \in AnEntry
         /\ \A e \in Range(f.data) : e = Smallest(f) \/ Less(Smallest(f), e)
         /\ \A e \in Range(f.data) : e = Largest(f) \/ Less(e, Largest(f))
<1>1. /\ f.num \in Nat /\ f.data \in Seq(AnEntry) /\ f.data # << >>
      /\ \A i, j \in DOMAIN f.data : i < j => Less(f.data[i], f.data[j])
  BY DEF ATable
<1>2. PICK d : d = f.data
  OBVIOUS
<1>3. Len(d) \in Nat /\ DOMAIN d = 1 .. Len(d) /\ Len(d) # 0
  BY <1>1, <1>2, LenProperties, EmptySeq
<1>4. 1 \in DOMAIN d /\ Len(d) \in DOMAIN d
  BY <1>3
<1>5. Smallest(f) = d[1] /\ Largest(f) = d[Len(d)]
  BY <1>2 DEF Smallest, Largest
<1>6. Smallest(f) \in Range(d) /\ Largest(f) \in Range(d)
  BY <1>4, <1>5 DEF Range
<1>7. Range(d) \subseteq AnEntry
  BY <1>1, <1>2, <1>3, ElementOfSeq DEF Range
<1>8. IsFiniteSet(Range(d))
  <2>1. IsFiniteSet(1 .. Len(d))
    BY <1>3, FS_Interval
  <2>2. d \in Surjection(DOMAIN d, Range(d))
    BY <1>1, <1>2, <1>3 DEF Surjection, Range
  <2> QED
    BY <1>3, <2>1, <2>2, FS_Surjection
<1>9. ASSUME NEW e \in Range(d)
      PROVE  /\ e = Smallest(f) \/ Less(Smallest(f), e)
             /\ e = Largest(f) \/ Less(e, Largest(f))
  <2>1. PICK i \in DOMAIN d : e = d[i]
    BY DEF Range
  <2>2. i \in Nat /\ 1 <= i /\ i <= Len(d)
    BY <1>3
  <2>3. i = 1 \/ Less(d[1], d[i])
    BY <1>1, <1>2, <1>3, <1>4, <2>2
  <2>4. i = Len(d) \/ Less(d[i], d[Len(d)])
    BY <1>1, <1>2, <1>3, <1>4, <2>2
  <2> QED
    BY <1>5, <2>1, <2>3, <2>4
<1> QED
  BY <1>1, <1>2, <1>6, <1>7, <1>8, <1>9

(* Tables by their smallest key: a total order if they have numbers of     *)
(* their own.                                                              *)
LEMMA KeyOrder ==
  ASSUME NEW S \in SUBSET ATable, \A f, g \in S : f.num = g.num => f = g
  PROVE  /\ \A f \in S : ~BySmallestKey(f, f)
         /\ \A f, g \in S : f = g \/ BySmallestKey(f, g) \/ BySmallestKey(g, f)
         /\ \A f, g, h \in S :
              BySmallestKey(f, g) /\ BySmallestKey(g, h) => BySmallestKey(f, h)
<1>1. \A f \in S : f.num \in Nat /\ Smallest(f) \in AnEntry
  BY TableFacts
<1>2. ASSUME NEW f \in S, NEW g \in S, f # g
      PROVE  BySmallestKey(f, g) \/ BySmallestKey(g, f)
  <2>1. f.num # g.num /\ f.num \in Nat /\ g.num \in Nat
    BY <1>1, <1>2
  <2>2. \/ Smallest(f) = Smallest(g)
        \/ Less(Smallest(f), Smallest(g)) \/ Less(Smallest(g), Smallest(f))
    BY <1>1, LessOrder
  <2>3. f.num < g.num \/ g.num < f.num
    BY <2>1
  <2> QED
    BY <2>2, <2>3 DEF BySmallestKey
<1>3. ASSUME NEW f \in S, NEW g \in S, NEW h \in S,
             BySmallestKey(f, g), BySmallestKey(g, h)
      PROVE  BySmallestKey(f, h)
  <2>1. /\ Smallest(f) \in AnEntry /\ Smallest(g) \in AnEntry
        /\ Smallest(h) \in AnEntry
        /\ f.num \in Nat /\ g.num \in Nat /\ h.num \in Nat
    BY <1>1
  <2>2. f.num < g.num /\ g.num < h.num => f.num < h.num
    BY <2>1
  <2>3. Less(Smallest(f), Smallest(g)) /\ Less(Smallest(g), Smallest(h))
          => Less(Smallest(f), Smallest(h))
    BY <2>1, LessOrder
  <2> QED
    BY <1>3, <2>2, <2>3 DEF BySmallestKey
<1>4. ASSUME NEW f \in S PROVE ~BySmallestKey(f, f)
  BY <1>1, LessOrder DEF BySmallestKey
<1> QED
  BY <1>2, <1>3, <1>4

LEMMA SortedTables ==
  ASSUME NEW S \in SUBSET ATable, IsFiniteSet(S),
         \A f, g \in S : f.num = g.num => f = g
  PROVE  /\ Sorted(S, BySmallestKey) \in Seq(S)
         /\ Len(Sorted(S, BySmallestKey)) = Cardinality(S)
         /\ Range(Sorted(S, BySmallestKey)) = S
         /\ \A i, j \in DOMAIN Sorted(S, BySmallestKey) :
              i < j => BySmallestKey(Sorted(S, BySmallestKey)[i],
                                     Sorted(S, BySmallestKey)[j])
<1> DEFINE B == [e \in S |-> {x \in S : BySmallestKey(x, e)}]
           s == Sorted(S, BySmallestKey)
<1>1. /\ B \in [S -> SUBSET S]
      /\ \A x, y \in S : x \in B[y] <=> BySmallestKey(x, y)
      /\ \A y \in S : B[y] = {x \in S : BySmallestKey(x, y)}
  OBVIOUS
<1> HIDE DEF B
<1>2. /\ \A x \in S : x \notin B[x]
      /\ \A x, y \in S : x # y => x \in B[y] \/ y \in B[x]
      /\ \A x, y \in S : x \in B[y] => B[x] \subseteq B[y]
  BY <1>1, KeyOrder
<1>3. /\ Cardinality(S) \in Nat
      /\ \A i \in 0 .. (Cardinality(S) - 1) : \E x \in S : Cardinality(B[x]) = i
  BY <1>1, <1>2, Places
<1>4. s = [i \in 1 .. Cardinality(S) |->
             CHOOSE e \in S : Cardinality({x \in S : BySmallestKey(x, e)}) = i - 1]
  BY DEF Sorted
<1> HIDE DEF s
<1>5. ASSUME NEW i \in 1 .. Cardinality(S)
      PROVE  s[i] \in S /\ Cardinality(B[s[i]]) = i - 1
  <2>1. i - 1 \in 0 .. (Cardinality(S) - 1)
    BY <1>3
  <2>2. \E e \in S : Cardinality({x \in S : BySmallestKey(x, e)}) = i - 1
    BY <1>1, <1>3, <2>1
  <2>3. s[i] = CHOOSE e \in S :
                 Cardinality({x \in S : BySmallestKey(x, e)}) = i - 1
    BY <1>4
  <2>4. s[i] \in S /\ Cardinality({x \in S : BySmallestKey(x, s[i])}) = i - 1
    BY <2>2, <2>3
  <2> QED
    BY <1>1, <2>4
<1>6. s \in [1 .. Cardinality(S) -> S]
  BY <1>4, <1>5
<1>7. /\ s \in Seq(S) /\ Len(s) = Cardinality(S) /\ Range(s) = S
      /\ \A i, j \in DOMAIN s : i < j => s[i] \in B[s[j]]
  <2>1. \A i \in 1 .. Cardinality(S) : Cardinality(B[s[i]]) = i - 1
    BY <1>5
  <2>2. B \in [S -> SUBSET S] /\ IsFiniteSet(S)
    BY <1>1
  <2> HIDE DEF B
  <2> QED
    BY <1>2, <1>6, <2>1, <2>2, InPlace
<1>8. \A i \in DOMAIN s : s[i] \in S
  BY <1>6
<1>9. \A i, j \in DOMAIN s : i < j => BySmallestKey(s[i], s[j])
  BY <1>1, <1>7, <1>8
<1> QED
  BY <1>7, <1>9 DEF s

-----------------------------------------------------------------------------
(* Loops. What a loop does is given by the state it begins with and by     *)
(* what each turn makes of the state; such a recursion has a solution.     *)

(* The first n turns.                                                      *)
Turns(n, h, b, g) ==
  h[0] = b /\ \A i \in 1 .. n : h[i] = g[<<i, h[i - 1]>>]

LEMMA FirstTurns ==
  ASSUME NEW T, NEW b \in T, NEW g \in [Nat \X T -> T], NEW n \in Nat
  PROVE  \E h \in [0 .. n -> T] : Turns(n, h, b, g)
<1> DEFINE Bad == {m \in Nat : ~(\E h \in [0 .. m -> T] : Turns(m, h, b, g))}
<1> SUFFICES ASSUME Bad # {} PROVE FALSE
  OBVIOUS
<1>1. PICK m \in Bad : \A j \in Bad : m <= j
  <2>1. Bad \in SUBSET Nat
    OBVIOUS
  <2> HIDE DEF Bad
  <2> QED
    BY <2>1, LeastOf
<1>2. m \in Nat /\ ~(\E h \in [0 .. m -> T] : Turns(m, h, b, g))
  BY <1>1
<1>3. m # 0
  <2> SUFFICES ASSUME m = 0 PROVE FALSE
    OBVIOUS
  <2> DEFINE h == [i \in 0 .. 0 |-> b]
  <2>1. h \in [0 .. 0 -> T] /\ Turns(0, h, b, g)
    BY DEF Turns
  <2> QED
    BY <1>2, <2>1
<1>4. m - 1 \in Nat /\ m - 1 \notin Bad
  BY <1>1, <1>2, <1>3
<1>5. PICK h \in [0 .. (m - 1) -> T] : Turns(m - 1, h, b, g)
  BY <1>4
<1> DEFINE h2 == [i \in 0 .. m |-> IF i = m THEN g[<<m, h[m - 1]>>] ELSE h[i]]
<1>6. h[m - 1] \in T /\ g[<<m, h[m - 1]>>] \in T
  BY <1>2, <1>4, <1>5
<1>7. h2 \in [0 .. m -> T]
  <2>1. \A i \in 0 .. m : i = m \/ i \in 0 .. (m - 1)
    BY <1>2
  <2> QED
    BY <1>5, <1>6, <2>1
<1>8. Turns(m, h2, b, g)
  <2>1. h2[0] = b
    BY <1>2, <1>3, <1>5 DEF Turns
  <2>2. ASSUME NEW i \in 1 .. m PROVE h2[i] = g[<<i, h2[i - 1]>>]
    <3>1. i - 1 \in 0 .. m /\ i - 1 # m /\ i \in 0 .. m /\ h2[i - 1] = h[i - 1]
      BY <1>2
    <3>2. CASE i = m
      BY <1>2, <3>1, <3>2
    <3>3. CASE i # m
      <4>1. i \in 1 .. (m - 1) /\ h2[i] = h[i]
        BY <1>2, <3>1, <3>3
      <4> QED
        BY <1>5, <3>1, <4>1 DEF Turns
    <3> QED
      BY <3>2, <3>3
  <2> QED
    BY <2>1, <2>2 DEF Turns
<1> QED
  BY <1>2, <1>7, <1>8

(* They do not depend on how many follow.                                  *)
LEMMA SameTurns ==
  ASSUME NEW b, NEW g, NEW n \in Nat, NEW m \in Nat, NEW h, NEW k,
         Turns(n, h, b, g), Turns(m, k, b, g), NEW i \in Nat, i <= n, i <= m
  PROVE  h[i] = k[i]
<1> DEFINE Bad == {j \in Nat : j <= n /\ j <= m /\ h[j] # k[j]}
<1> SUFFICES ASSUME Bad # {} PROVE FALSE
  OBVIOUS
<1>1. PICK j \in Bad : \A x \in Bad : j <= x
  <2>1. Bad \in SUBSET Nat
    OBVIOUS
  <2> HIDE DEF Bad
  <2> QED
    BY <2>1, LeastOf
<1>2. j \in Nat /\ j <= n /\ j <= m /\ h[j] # k[j]
  BY <1>1
<1>3. j # 0
  BY <1>2 DEF Turns
<1>4. j - 1 \in Nat /\ j - 1 \notin Bad /\ j - 1 <= n /\ j - 1 <= m
  BY <1>1, <1>2, <1>3
<1>5. h[j - 1] = k[j - 1]
  BY <1>4
<1>6. j \in 1 .. n /\ j \in 1 .. m
  BY <1>2, <1>3
<1> QED
  BY <1>2, <1>5, <1>6 DEF Turns

Turn(T, b, g) == b \in T /\ g \in [Nat \X T -> T]
Runs(h, T, b, g) ==
  /\ h \in [Nat -> T]
  /\ \A n \in Nat : h[n] = IF n = 0 THEN b ELSE g[<<n, h[n - 1]>>]

LEMMA LoopExists ==
  ASSUME NEW T, NEW b, NEW g, Turn(T, b, g)
  PROVE  \E h : Runs(h, T, b, g)
<1> USE DEF Turn
<1> DEFINE H(n) == CHOOSE h \in [0 .. n -> T] : Turns(n, h, b, g)
           h == [n \in Nat |-> H(n)[n]]
<1>1. \A n \in Nat : H(n) \in [0 .. n -> T] /\ Turns(n, H(n), b, g)
  BY FirstTurns
<1> HIDE DEF H
<1>2. \A n \in Nat : H(n)[n] \in T
  BY <1>1
<1>3. h \in [Nat -> T]
  BY <1>2
<1>4. ASSUME NEW n \in Nat
      PROVE  h[n] = IF n = 0 THEN b ELSE g[<<n, h[n - 1]>>]
  <2>1. CASE n = 0
    BY <1>1, <2>1 DEF Turns
  <2>2. CASE n # 0
    <3>1. n - 1 \in Nat /\ n \in 1 .. n /\ n - 1 <= n
      BY <2>2
    <3>2. H(n)[n] = g[<<n, H(n)[n - 1]>>]
      BY <1>1, <3>1 DEF Turns
    <3>3. H(n)[n - 1] = H(n - 1)[n - 1]
      <4>1. Turns(n, H(n), b, g) /\ Turns(n - 1, H(n - 1), b, g)
        BY <1>1, <3>1
      <4> QED
        BY <3>1, <4>1, SameTurns
    <3> QED
      BY <2>2, <3>1, <3>2, <3>3
  <2> QED
    BY <2>1, <2>2
<1> QED
  BY <1>3, <1>4 DEF Runs

(* The limit of a level.                                                   *)
LEMMA LimitsPositive == MaxBytesForLevel \in [Nat -> Nat \ {0}]
<1> DEFINE T == Nat \ {0}
           b == LevelLimit
           g == [x \in Nat \X T |-> IF x[1] <= 1 THEN LevelLimit ELSE 10 * x[2]]
           Is(h) == h = [l \in Nat |-> IF l <= 1 THEN LevelLimit ELSE 10 * h[l - 1]]
<1>1. b \in T
  BY SizesAssumption
<1>2. Turn(T, b, g)
  BY <1>1 DEF Turn
<1>3. \A n \in Nat, v \in T :
        g[<<n, v>>] = IF n <= 1 THEN LevelLimit ELSE 10 * v
  OBVIOUS
<1> HIDE DEF T, b, g
<1>4. PICK h : Runs(h, T, b, g)
  BY <1>2, LoopExists
<1> USE DEF T, b, Runs
<1>5. ASSUME NEW n \in Nat
      PROVE  h[n] = IF n <= 1 THEN LevelLimit ELSE 10 * h[n - 1]
  <2>0. h[n] = IF n = 0 THEN b ELSE g[<<n, h[n - 1]>>]
    BY <1>4
  <2>1. CASE n = 0
    BY <2>0, <2>1
  <2>2. CASE n # 0
    <3>1. n - 1 \in Nat /\ h[n - 1] \in T
      BY <1>4, <2>2
    <3>2. h[n] = g[<<n, h[n - 1]>>]
      BY <1>4, <2>2
    <3> QED
      BY <1>3, <3>1, <3>2
  <2> QED
    BY <2>1, <2>2
<1>6. Is(h)
  BY <1>4, <1>5
<1>7. MaxBytesForLevel = CHOOSE h2 : Is(h2)
  BY DEF MaxBytesForLevel
<1>8. Is(MaxBytesForLevel)
  <2> HIDE DEF Is
  <2> QED
    BY <1>6, <1>7
<1> DEFINE m == MaxBytesForLevel
<1>9. m = [l \in Nat |-> IF l <= 1 THEN LevelLimit ELSE 10 * m[l - 1]]
  BY <1>8
<1> HIDE DEF m, Is
<1> DEFINE Bad == {n \in Nat : m[n] \notin T}
<1>10. Bad = {}
  <2> SUFFICES ASSUME Bad # {} PROVE FALSE
    OBVIOUS
  <2>1. PICK n \in Bad : \A j \in Bad : n <= j
    <3>1. Bad \in SUBSET Nat
      OBVIOUS
    <3> HIDE DEF Bad
    <3> QED
      BY <3>1, LeastOf
  <2>2. n \in Nat /\ m[n] \notin T
    BY <2>1
  <2>3. m[n] = IF n <= 1 THEN LevelLimit ELSE 10 * m[n - 1]
    BY <1>9, <2>2
  <2>4. n > 1
    BY <1>1, <2>2, <2>3
  <2>5. n - 1 \in Nat /\ n - 1 \notin Bad
    BY <2>1, <2>2, <2>4
  <2>6. m[n - 1] \in T
    BY <2>5
  <2> QED
    BY <2>2, <2>3, <2>4, <2>6
<1>11. DOMAIN m = Nat /\ \A n \in Nat : m[n] \in T
  <2>1. DOMAIN m = Nat
    BY <1>9
  <2> QED
    BY <1>10, <2>1
<1>12. m \in [Nat -> T]
  BY <1>9, <1>11
<1> QED
  BY <1>12 DEF m

(* The binary search, on a list where tables with smaller largest keys     *)
(* come first.                                                             *)
Between(fs, key, n, l, r) ==
  /\ l \in Nat /\ r \in Nat /\ l <= r /\ r <= n
  /\ \A i \in 1 .. l : Less(Largest(fs[i]), key)
  /\ \A i \in (r + 1) .. n : ~Less(Largest(fs[i]), key)
Rises(fs, key, n) ==
  \A i, j \in 1 .. n :
    i < j /\ Less(Largest(fs[j]), key) => Less(Largest(fs[i]), key)

LEMMA HalveIs ==
  ASSUME NEW fs, NEW key, NEW n \in Nat, NEW l, NEW r, Rises(fs, key, n),
         Between(fs, key, n, l, r)
  PROVE  \E l2, r2 :
           /\ Halve(fs, key, l, r) = <<l2, r2>> /\ Between(fs, key, n, l2, r2)
           /\ (l < r => r2 - l2 < r - l) /\ (l = r => l2 = r2)
<1> USE DEF Between, Rises
<1>1. CASE l = r
  <2>1. Halve(fs, key, l, r) = <<l, r>>
    BY <1>1 DEF Halve
  <2> QED
    BY <1>1, <2>1
<1>2. CASE l < r
  <2>1. PICK mid \in Nat : mid = (l + r) \div 2
    OBVIOUS
  <2>2. l <= mid /\ mid < r
    BY <1>2, <2>1
  <2>3. CASE Less(Largest(fs[mid + 1]), key)
    <3>1. Halve(fs, key, l, r) = <<mid + 1, r>>
      BY <1>2, <2>1, <2>3 DEF Halve
    <3>2. ASSUME NEW i \in 1 .. (mid + 1) PROVE Less(Largest(fs[i]), key)
      <4>1. i \in 1 .. n /\ mid + 1 \in 1 .. n /\ (i = mid + 1 \/ i < mid + 1)
        BY <2>2
      <4> QED
        BY <2>3, <4>1
    <3>3. mid + 1 \in Nat /\ mid + 1 <= r /\ r - (mid + 1) < r - l
      BY <2>2
    <3> QED
      BY <1>2, <3>1, <3>2, <3>3
  <2>4. CASE ~Less(Largest(fs[mid + 1]), key)
    <3>1. Halve(fs, key, l, r) = <<l, mid>>
      BY <1>2, <2>1, <2>4 DEF Halve
    <3>2. ASSUME NEW i \in (mid + 1) .. n PROVE ~Less(Largest(fs[i]), key)
      <4>1. i \in 1 .. n /\ mid + 1 \in 1 .. n /\ (i = mid + 1 \/ mid + 1 < i)
        BY <2>2
      <4> QED
        BY <2>4, <4>1
    <3>3. mid <= n /\ mid - l < r - l
      BY <2>2
    <3> QED
      BY <1>2, <2>2, <3>1, <3>2, <3>3
  <2> QED
    BY <2>3, <2>4
<1> QED
  BY <1>1, <1>2

LEMMA FindFileIs ==
  ASSUME NEW S, NEW fs \in Seq(S), NEW key,
         \A i, j \in DOMAIN fs :
           i < j /\ Less(Largest(fs[j]), key) => Less(Largest(fs[i]), key)
  PROVE  /\ FindFile(fs, key) \in 1 .. (Len(fs) + 1)
         /\ \A i \in DOMAIN fs :
              Less(Largest(fs[i]), key) <=> i < FindFile(fs, key)
<1>0. Len(fs) \in Nat /\ DOMAIN fs = 1 .. Len(fs)
  BY LenProperties
<1> DEFINE T == Nat \X Nat
           b == <<0, Len(fs)>>
           g == [x \in Nat \X T |-> Halve(fs, key, x[2][1], x[2][2])]
           Is(h) == h = [n \in Nat |->
                           IF n = 0 THEN <<0, Len(fs)>>
                           ELSE Halve(fs, key, h[n - 1][1], h[n - 1][2])]
<1>1. b \in T
  BY <1>0
<1>2. \A v \in T : Halve(fs, key, v[1], v[2]) \in T
  <2>1. ASSUME NEW v \in T PROVE Halve(fs, key, v[1], v[2]) \in T
    <3>1. v[1] \in Nat /\ v[2] \in Nat /\ (v[1] + v[2]) \div 2 \in Nat
      OBVIOUS
    <3> QED
      BY <3>1 DEF Halve
  <2> QED
    BY <2>1
<1>3. \A n \in Nat, v \in T : g[<<n, v>>] = Halve(fs, key, v[1], v[2])
  OBVIOUS
<1>4. Turn(T, b, g)
  <2>1. \A x \in Nat \X T : x[2] \in T
    OBVIOUS
  <2> HIDE DEF T, b
  <2> QED
    BY <1>1, <1>2, <2>1 DEF Turn
<1> HIDE DEF T, b, g
<1>5. PICK h : Runs(h, T, b, g)
  BY <1>4, LoopExists
<1>6. ASSUME NEW n \in Nat
      PROVE  h[n] = IF n = 0 THEN <<0, Len(fs)>>
                    ELSE Halve(fs, key, h[n - 1][1], h[n - 1][2])
  <2>1. h[n] = IF n = 0 THEN b ELSE g[<<n, h[n - 1]>>]
    BY <1>5 DEF Runs
  <2>2. CASE n = 0
    BY <2>1, <2>2 DEF b
  <2>3. CASE n # 0
    <3>1. n - 1 \in Nat
      BY <2>3
    <3>2. h[n - 1] \in T
      BY <1>5, <3>1 DEF Runs
    <3> QED
      BY <1>3, <2>1, <2>3, <3>2
  <2> QED
    BY <2>2, <2>3
<1>7. Is(h)
  <2>1. DOMAIN h = Nat /\ h = [n \in Nat |-> h[n]]
    BY <1>5 DEF Runs
  <2> QED
    BY <1>6, <2>1
<1>8. PICK s : s = CHOOSE h2 : Is(h2)
  OBVIOUS
<1>9. FindFile(fs, key) = s[Len(fs)][2] + 1
  BY <1>8 DEF FindFile
<1>10. Is(s)
  <2> HIDE DEF Is
  <2> QED
    BY <1>7, <1>8
<1>11. \A n \in Nat : s[n] = IF n = 0 THEN <<0, Len(fs)>>
                             ELSE Halve(fs, key, s[n - 1][1], s[n - 1][2])
  BY <1>10
<1> HIDE DEF Is
<1> DEFINE OK(n) == \E l, r :
             /\ s[n] = <<l, r>> /\ Between(fs, key, Len(fs), l, r)
             /\ l = r \/ r - l <= Len(fs) - n
           Bad == {n \in Nat : ~OK(n)}
<1>12. OK(0)
  <2>1. s[0] = <<0, Len(fs)>>
    BY <1>11
  <2>2. Len(fs) - 0 <= Len(fs) - 0
    BY <1>0
  <2>3. Between(fs, key, Len(fs), 0, Len(fs))
    BY <1>0 DEF Between
  <2> QED
    BY <2>1, <2>2, <2>3
<1>13. ASSUME NEW n \in Nat, OK(n) PROVE OK(n + 1)
  <2>1. PICK l, r :
          /\ s[n] = <<l, r>> /\ Between(fs, key, Len(fs), l, r)
          /\ l = r \/ r - l <= Len(fs) - n
    BY <1>13
  <2>2. s[n + 1] = Halve(fs, key, l, r)
    <3>1. n + 1 \in Nat /\ n + 1 # 0 /\ n + 1 - 1 = n
      OBVIOUS
    <3>2. s[n + 1] = Halve(fs, key, s[n][1], s[n][2])
      BY <1>11, <3>1
    <3> QED
      BY <2>1, <3>2
  <2>3. PICK l2, r2 :
          /\ Halve(fs, key, l, r) = <<l2, r2>> /\ Between(fs, key, Len(fs), l2, r2)
          /\ (l < r => r2 - l2 < r - l) /\ (l = r => l2 = r2)
    <3>1. Rises(fs, key, Len(fs))
      BY <1>0 DEF Rises
    <3> QED
      BY <1>0, <2>1, <3>1, HalveIs
  <2>4. l2 = r2 \/ r2 - l2 <= Len(fs) - (n + 1)
    BY <1>0, <2>1, <2>3 DEF Between
  <2> QED
    BY <2>2, <2>3, <2>4
<1>14. Bad = {}
  <2> SUFFICES ASSUME Bad # {} PROVE FALSE
    OBVIOUS
  <2>1. PICK n \in Bad : \A j \in Bad : n <= j
    <3>1. Bad \in SUBSET Nat
      OBVIOUS
    <3> HIDE DEF Bad
    <3> QED
      BY <3>1, LeastOf
  <2> HIDE DEF OK
  <2>2. n \in Nat /\ ~OK(n) /\ n # 0
    BY <1>12, <2>1
  <2>3. n - 1 \in Nat /\ n - 1 \notin Bad /\ n - 1 + 1 = n
    BY <2>1, <2>2
  <2>4. OK(n - 1)
    BY <2>3
  <2>5. OK(n - 1 + 1)
    BY <1>13, <2>3, <2>4
  <2> QED
    BY <2>2, <2>3, <2>5
<1>15. OK(Len(fs))
  <2> HIDE DEF OK
  <2> QED
    BY <1>0, <1>14
<1>16. PICK l, r :
         /\ s[Len(fs)] = <<l, r>> /\ Between(fs, key, Len(fs), l, r)
         /\ l = r \/ r - l <= Len(fs) - Len(fs)
  BY <1>15
<1>17. l = r /\ FindFile(fs, key) = r + 1
  BY <1>0, <1>9, <1>16 DEF Between
<1>18. ASSUME NEW i \in DOMAIN fs
       PROVE  Less(Largest(fs[i]), key) <=> i < FindFile(fs, key)
  <2>1. i \in 1 .. r \/ i \in (r + 1) .. Len(fs)
    BY <1>0, <1>16 DEF Between
  <2> QED
    BY <1>0, <1>16, <1>17, <2>1 DEF Between
<1> QED
  BY <1>0, <1>16, <1>17, <1>18 DEF Between

-----------------------------------------------------------------------------
(* Ranges of keys.                                                         *)

(* Finitely many entries have a first and a last one.                      *)
LEMMA Extremes ==
  ASSUME NEW E \in SUBSET AnEntry, IsFiniteSet(E), E # {}
  PROVE  /\ \E e \in E : \A x \in E : ~Less(x, e)
         /\ \E e \in E : \A x \in E : ~Less(e, x)
<1>1. PICK s : s = Sorted(E, Less)
  OBVIOUS
<1>2. /\ s \in Seq(E) /\ Range(s) = E
      /\ \A i, j \in DOMAIN s : i < j => Less(s[i], s[j])
  BY <1>1, SortedEntries
<1>3. Len(s) \in Nat /\ DOMAIN s = 1 .. Len(s)
  BY <1>2, LenProperties
<1>4. 1 \in DOMAIN s /\ Len(s) \in DOMAIN s
  BY <1>2, <1>3 DEF Range
<1>5. ASSUME NEW x \in E PROVE ~Less(x, s[1]) /\ ~Less(s[Len(s)], x)
  <2>1. PICK i \in DOMAIN s : x = s[i]
    BY <1>2 DEF Range
  <2>2. (i = 1 \/ Less(s[1], x)) /\ (i = Len(s) \/ Less(x, s[Len(s)]))
    BY <1>2, <1>3, <1>4, <2>1
  <2>3. s[1] \in E /\ s[Len(s)] \in E
    BY <1>2, <1>4 DEF Range
  <2>4. x \in AnEntry /\ s[1] \in AnEntry /\ s[Len(s)] \in AnEntry
    BY <2>3
  <2> QED
    BY <2>1, <2>2, <2>4, LessOrder
<1>6. s[1] \in E /\ s[Len(s)] \in E
  BY <1>2, <1>4 DEF Range
<1> QED
  BY <1>5, <1>6

LEMMA EntriesOf ==
  ASSUME NEW fs \in SUBSET ATable, IsFiniteSet(fs)
  PROVE  /\ Entries(fs) \subseteq AnEntry /\ IsFiniteSet(Entries(fs))
         /\ Cardinality(Entries(fs)) \in Nat
         /\ fs # {} => Entries(fs) # {}
<1>1. \A f \in fs : /\ Range(f.data) \subseteq AnEntry
                    /\ IsFiniteSet(Range(f.data)) /\ Smallest(f) \in Range(f.data)
  BY TableFacts
<1>2. IsFiniteSet({Range(f.data) : f \in fs})
  <2> DEFINE D == {Range(f.data) : f \in fs}
             h == [f \in fs |-> Range(f.data)]
  <2>1. h \in Surjection(fs, D)
    BY DEF Surjection
  <2> QED
    BY <2>1, FS_Surjection
<1>3. IsFiniteSet(Entries(fs))
  BY <1>1, <1>2, FS_UNION DEF Entries
<1> QED
  BY <1>1, <1>3, FS_CardinalityType DEF Entries

(* GetRange of a set of tables that is not empty.                          *)
LEMMA GetRangeIs ==
  ASSUME NEW fs \in SUBSET ATable, IsFiniteSet(fs), fs # {}
  PROVE  /\ GetRange(fs).lo \in Entries(fs) /\ GetRange(fs).hi \in Entries(fs)
         /\ \A e \in Entries(fs) : e.k \in Nat /\ GetRange(fs).lo.k <= e.k
                                   /\ e.k <= GetRange(fs).hi.k
<1>1. PICK E : E = Entries(fs)
  OBVIOUS
<1>2. E \in SUBSET AnEntry /\ IsFiniteSet(E) /\ E # {}
  BY <1>1, EntriesOf
<1>3. /\ \E e \in E : \A x \in E : ~Less(x, e)
      /\ \E e \in E : \A x \in E : ~Less(e, x)
  BY <1>2, Extremes
<1>4. PICK lo, hi : lo = GetRange(fs).lo /\ hi = GetRange(fs).hi
  OBVIOUS
<1>5. /\ lo = CHOOSE e \in E : \A x \in E : ~Less(x, e)
      /\ hi = CHOOSE e \in E : \A x \in E : ~Less(e, x)
  BY <1>1, <1>4 DEF GetRange
<1>6. /\ lo \in E /\ \A x \in E : ~Less(x, lo)
      /\ hi \in E /\ \A x \in E : ~Less(hi, x)
  BY <1>3, <1>5
<1>7. ASSUME NEW e \in E PROVE e.k \in Nat /\ lo.k <= e.k /\ e.k <= hi.k
  <2>1. e \in AnEntry /\ lo \in AnEntry /\ hi \in AnEntry
    BY <1>2, <1>6
  <2>2. e.k \in Nat /\ lo.k \in Nat /\ hi.k \in Nat
    BY <2>1, KeysAssumption DEF AnEntry
  <2>3. ~(e.k < lo.k) /\ ~(hi.k < e.k)
    BY <1>6, <2>1, LessOrder
  <2> QED
    BY <2>2, <2>3
<1> QED
  BY <1>1, <1>4, <1>6, <1>7

(* There is a greatest key.                                                *)
LEMMA KeysBound == \E b \in Nat : \A k \in Keys : k <= b
<1>1. CASE Keys = {}
  BY <1>1
<1>2. CASE Keys # {}
  <2> DEFINE B == [e \in Keys |-> {x \in Keys : x < e}]
  <2>0. Keys \subseteq Nat /\ IsFiniteSet(Keys)
    BY KeysAssumption
  <2>1. /\ B \in [Keys -> SUBSET Keys]
        /\ \A x, y \in Keys : x \in B[y] <=> x < y
    OBVIOUS
  <2> HIDE DEF B
  <2>2. /\ \A x \in Keys : x \notin B[x]
        /\ \A x, y \in Keys : x # y => x \in B[y] \/ y \in B[x]
        /\ \A x, y \in Keys : x \in B[y] => B[x] \subseteq B[y]
    <3>1. \A x \in Keys : x \in Nat
      BY <2>0
    <3>2. ASSUME NEW x \in Keys, NEW y \in Keys, x \in B[y], NEW z \in B[x]
          PROVE  z \in B[y]
      <4>1. z \in Keys /\ z < x /\ x < y
        BY <2>1, <3>2
      <4> QED
        BY <2>1, <3>1, <4>1
    <3> QED
      BY <2>1, <3>1, <3>2
  <2>3. /\ Cardinality(Keys) \in Nat
        /\ \A x \in Keys : Cardinality(B[x]) \in 0 .. (Cardinality(Keys) - 1)
        /\ \A i \in 0 .. (Cardinality(Keys) - 1) :
             \E x \in Keys : Cardinality(B[x]) = i
        /\ \A x, y \in Keys :
             Cardinality(B[x]) < Cardinality(B[y]) <=> x \in B[y]
    BY <2>0, <2>1, <2>2, Places
  <2>4. Cardinality(Keys) # 0
    BY <1>2, <2>0, FS_EmptySet
  <2>5. Cardinality(Keys) - 1 \in 0 .. (Cardinality(Keys) - 1)
    BY <2>3, <2>4
  <2>6. PICK x \in Keys : Cardinality(B[x]) = Cardinality(Keys) - 1
    BY <2>3, <2>5
  <2>7. ASSUME NEW y \in Keys PROVE y <= x
    <3>1. Cardinality(B[y]) \in 0 .. (Cardinality(Keys) - 1)
      BY <2>3
    <3>2. ~(Cardinality(B[x]) < Cardinality(B[y]))
      BY <2>3, <2>6, <3>1
    <3>3. ~(x < y)
      BY <2>1, <2>3, <3>2
    <3> QED
      BY <2>0, <3>3
  <2> QED
    BY <2>0, <2>7
<1> QED
  BY <1>1, <1>2

(* Widening a range takes nothing away from it and takes in the tables it  *)
(* touches; if they are in it already, it stays as it is.                  *)
Tight(fs, r) ==
  \A f \in Inputs(fs, r) : r[1] <= Smallest(f).k /\ Largest(f).k <= r[2]

LEMMA WidenedIs ==
  ASSUME NEW fs \in SUBSET ATable, NEW lo \in Nat, NEW hi \in Nat
  PROVE  \E l, h \in Nat :
           /\ Widened(fs, <<lo, hi>>) = <<l, h>> /\ l <= lo /\ hi <= h
           /\ \A f \in Inputs(fs, <<lo, hi>>) :
                l <= Smallest(f).k /\ Largest(f).k <= h
           /\ Tight(fs, <<lo, hi>>) => l = lo /\ h = hi
<1>1. PICK I : I = Inputs(fs, <<lo, hi>>)
  OBVIOUS
<1>2. I \subseteq ATable
  BY <1>1 DEF Inputs
<1>3. \A f \in I : Smallest(f).k \in Keys /\ Largest(f).k \in Keys
  BY <1>2, TableFacts DEF AnEntry
<1> DEFINE A == {lo} \cup {Smallest(f).k : f \in I}
           C == {hi} \cup {Largest(f).k : f \in I}
<1>4. PICK b \in Nat : \A k \in Keys : k <= b
  BY KeysBound
<1>5. A \in SUBSET Nat /\ lo \in A /\ C \in SUBSET Nat /\ hi \in C
  BY <1>3, KeysAssumption
<1>6. PICK c \in Nat : \A m \in C : m <= c
  <2>1. b + hi \in Nat /\ \A m \in C : m <= b + hi
    BY <1>3, <1>4, KeysAssumption
  <2> QED
    BY <2>1
<1>7. Widened(fs, <<lo, hi>>) = <<Min(A), Max(C)>>
  BY <1>1 DEF Widened
<1>8. /\ Tight(fs, <<lo, hi>>) => \A m \in A : lo <= m
      /\ Tight(fs, <<lo, hi>>) => \A m \in C : m <= hi
  BY <1>1 DEF Tight
<1>9. \A f \in I : Smallest(f).k \in A /\ Largest(f).k \in C
  OBVIOUS
<1> HIDE DEF A, C
<1>10. Min(A) \in A /\ \A m \in A : Min(A) <= m
  BY <1>5, MinIs
<1>11. Max(C) \in C /\ \A m \in C : m <= Max(C)
  BY <1>5, <1>6, MaxIs
<1>12. PICK l, h \in Nat : l = Min(A) /\ h = Max(C)
  BY <1>5, <1>10, <1>11
<1>13. Tight(fs, <<lo, hi>>) => l = lo /\ h = hi
  BY <1>5, <1>8, <1>10, <1>11, <1>12
<1>14. l <= lo /\ hi <= h
  BY <1>5, <1>10, <1>11, <1>12
<1>15. \A f \in Inputs(fs, <<lo, hi>>) : l <= Smallest(f).k /\ Largest(f).k <= h
  BY <1>1, <1>9, <1>10, <1>11, <1>12
<1> QED
  BY <1>7, <1>12, <1>13, <1>14, <1>15

(* The turns of the loop that closes a range.                              *)
ClosureTurns(fs, lo, hi, s) ==
  /\ \A n \in Nat : s[n] \in Nat \X Nat /\ s[n][1] <= lo /\ hi <= s[n][2]
  /\ \A n \in Nat : s[n] = IF n = 0 THEN <<lo, hi>> ELSE Widened(fs, s[n - 1])
  /\ Closure(fs, lo, hi) = s[Cardinality(fs)]

LEMMA ClosureLoop ==
  ASSUME NEW fs \in SUBSET ATable, IsFiniteSet(fs), NEW lo \in Nat, NEW hi \in Nat
  PROVE  \E s : ClosureTurns(fs, lo, hi, s)
<1> DEFINE T == {r \in Nat \X Nat : r[1] <= lo /\ hi <= r[2]}
           b == <<lo, hi>>
           g == [x \in Nat \X T |-> Widened(fs, x[2])]
           Is(h) == h = [n \in Nat |->
                           IF n = 0 THEN <<lo, hi>> ELSE Widened(fs, h[n - 1])]
<1>1. b \in T
  OBVIOUS
<1>2. ASSUME NEW v \in T PROVE Widened(fs, v) \in T
  <2>1. PICK x, y \in Nat : v = <<x, y>> /\ x <= lo /\ hi <= y
    OBVIOUS
  <2>2. PICK l, h \in Nat : Widened(fs, <<x, y>>) = <<l, h>> /\ l <= x /\ y <= h
    BY WidenedIs
  <2>3. l <= lo /\ hi <= h
    BY <2>1, <2>2
  <2> QED
    BY <2>1, <2>2, <2>3
<1>3. \A n \in Nat, v \in T : g[<<n, v>>] = Widened(fs, v)
  <2> HIDE DEF T
  <2> QED
    OBVIOUS
<1>4. Turn(T, b, g)
  <2> HIDE DEF T, b
  <2>1. \A x \in Nat \X T : x[2] \in T
    OBVIOUS
  <2> QED
    BY <1>1, <1>2, <2>1 DEF Turn
<1> HIDE DEF T, b, g
<1>5. PICK h : Runs(h, T, b, g)
  BY <1>4, LoopExists
<1>6. ASSUME NEW n \in Nat
      PROVE  h[n] = IF n = 0 THEN <<lo, hi>> ELSE Widened(fs, h[n - 1])
  <2>1. h[n] = IF n = 0 THEN b ELSE g[<<n, h[n - 1]>>]
    BY <1>5 DEF Runs
  <2>2. CASE n = 0
    BY <2>1, <2>2 DEF b
  <2>3. CASE n # 0
    <3>1. n - 1 \in Nat
      BY <2>3
    <3>2. h[n - 1] \in T
      BY <1>5, <3>1 DEF Runs
    <3> QED
      BY <1>3, <2>1, <2>3, <3>2
  <2> QED
    BY <2>2, <2>3
<1>7. Is(h)
  <2>1. DOMAIN h = Nat /\ h = [n \in Nat |-> h[n]]
    BY <1>5 DEF Runs
  <2> QED
    BY <1>6, <2>1
<1>8. PICK s : s = CHOOSE h2 : Is(h2)
  OBVIOUS
<1>9. Closure(fs, lo, hi) = s[Cardinality(fs)]
  BY <1>8 DEF Closure
<1>10. Is(s)
  <2> HIDE DEF Is
  <2> QED
    BY <1>7, <1>8
<1>11. \A n \in Nat : s[n] = IF n = 0 THEN b ELSE Widened(fs, s[n - 1])
  BY <1>10 DEF b
<1> HIDE DEF Is
<1> DEFINE Bad == {n \in Nat : s[n] \notin T}
<1>12. Bad = {}
  <2> SUFFICES ASSUME Bad # {} PROVE FALSE
    OBVIOUS
  <2>1. PICK n \in Bad : \A j \in Bad : n <= j
    <3>1. Bad \in SUBSET Nat
      OBVIOUS
    <3> HIDE DEF Bad
    <3> QED
      BY <3>1, LeastOf
  <2>2. n \in Nat /\ s[n] \notin T /\ n # 0
    BY <1>1, <1>11, <2>1
  <2>3. n - 1 \in Nat /\ n - 1 \notin Bad
    BY <2>1, <2>2
  <2>4. s[n - 1] \in T /\ s[n] = Widened(fs, s[n - 1])
    BY <1>11, <2>2, <2>3
  <2> QED
    BY <1>2, <2>2, <2>4
<1>13. \A n \in Nat : s[n] \in Nat \X Nat /\ s[n][1] <= lo /\ hi <= s[n][2]
  BY <1>12 DEF T
<1> QED
  BY <1>9, <1>11, <1>13 DEF ClosureTurns, b

LEMMA ClosureIs ==
  ASSUME NEW fs \in SUBSET ATable, IsFiniteSet(fs), NEW lo \in Nat, NEW hi \in Nat
  PROVE  \E l, h \in Nat : Closure(fs, lo, hi) = <<l, h>> /\ l <= lo /\ hi <= h
<1>1. PICK s : ClosureTurns(fs, lo, hi, s)
  BY ClosureLoop
<1>2. Cardinality(fs) \in Nat
  BY FS_CardinalityType
<1>3. PICK r : r = s[Cardinality(fs)]
  OBVIOUS
<1>4. r \in Nat \X Nat /\ r[1] <= lo /\ hi <= r[2] /\ Closure(fs, lo, hi) = r
  BY <1>1, <1>2, <1>3 DEF ClosureTurns
<1> QED
  BY <1>4

(* Boundary tables are added to the inputs from the level.                 *)
BoundaryTurns(level, fs, s) ==
  /\ \A n \in Nat : s[n] \in SUBSET level /\ fs \subseteq s[n]
  /\ s[0] = fs
  /\ \A n \in Nat : s[n + 1] = s[n] \cup
       FindSmallestBoundaryFile(level, GetRange(s[n]).hi)
  /\ AddBoundaryInputs(level, fs) = s[Cardinality(level)]

LEMMA BoundaryLoop ==
  ASSUME NEW level, NEW fs, IsFiniteSet(level), fs \subseteq level
  PROVE  \E s : BoundaryTurns(level, fs, s)
<1> DEFINE T == {v \in SUBSET level : fs \subseteq v}
           b == fs
           Next1(v) == v \cup FindSmallestBoundaryFile(level, GetRange(v).hi)
           g == [x \in Nat \X T |-> Next1(x[2])]
           Is(h) == h = [n \in Nat |-> IF n = 0 THEN fs ELSE Next1(h[n - 1])]
<1>1. b \in T
  OBVIOUS
<1>2. ASSUME NEW v \in T PROVE Next1(v) \in T
  BY DEF FindSmallestBoundaryFile, Continuing
<1>3. \A n \in Nat, v \in T : g[<<n, v>>] = Next1(v)
  <2> HIDE DEF T, Next1
  <2> QED
    OBVIOUS
<1>4. Turn(T, b, g)
  <2> HIDE DEF T, b, Next1
  <2>1. \A x \in Nat \X T : x[2] \in T
    OBVIOUS
  <2> QED
    BY <1>1, <1>2, <2>1 DEF Turn
<1> HIDE DEF T, b, g
<1>5. PICK h : Runs(h, T, b, g)
  BY <1>4, LoopExists
<1>6. ASSUME NEW n \in Nat
      PROVE  h[n] = IF n = 0 THEN fs ELSE Next1(h[n - 1])
  <2> HIDE DEF Next1
  <2>1. h[n] = IF n = 0 THEN b ELSE g[<<n, h[n - 1]>>]
    BY <1>5 DEF Runs
  <2>2. CASE n = 0
    BY <2>1, <2>2 DEF b
  <2>3. CASE n # 0
    <3>1. n - 1 \in Nat
      BY <2>3
    <3>2. h[n - 1] \in T
      BY <1>5, <3>1 DEF Runs
    <3> QED
      BY <1>3, <2>1, <2>3, <3>2
  <2> QED
    BY <2>2, <2>3
<1>7. Is(h)
  <2> HIDE DEF Next1
  <2>1. DOMAIN h = Nat /\ h = [n \in Nat |-> h[n]]
    BY <1>5 DEF Runs
  <2> QED
    BY <1>6, <2>1
<1>8. PICK s : s = CHOOSE h2 : Is(h2)
  OBVIOUS
<1>9. AddBoundaryInputs(level, fs) = s[Cardinality(level)]
  BY <1>8 DEF AddBoundaryInputs
<1> HIDE DEF Next1
<1>10. Is(s)
  <2> HIDE DEF Is
  <2> QED
    BY <1>7, <1>8
<1>11. \A n \in Nat : s[n] = IF n = 0 THEN b ELSE Next1(s[n - 1])
  BY <1>10 DEF b
<1> HIDE DEF Is
<1> DEFINE Bad == {n \in Nat : s[n] \notin T}
<1>12. Bad = {}
  <2> SUFFICES ASSUME Bad # {} PROVE FALSE
    OBVIOUS
  <2>1. PICK n \in Bad : \A j \in Bad : n <= j
    <3>1. Bad \in SUBSET Nat
      OBVIOUS
    <3> HIDE DEF Bad
    <3> QED
      BY <3>1, LeastOf
  <2>2. n \in Nat /\ s[n] \notin T /\ n # 0
    BY <1>1, <1>11, <2>1
  <2>3. n - 1 \in Nat /\ n - 1 \notin Bad
    BY <2>1, <2>2
  <2>4. s[n - 1] \in T /\ s[n] = Next1(s[n - 1])
    BY <1>11, <2>2, <2>3
  <2> QED
    BY <1>2, <2>2, <2>4
<1>13. \A n \in Nat : s[n] \in SUBSET level /\ fs \subseteq s[n]
  BY <1>12 DEF T
<1>14. s[0] = fs
  BY <1>11 DEF b
<1>15. ASSUME NEW n \in Nat
       PROVE  s[n + 1] = s[n] \cup
                FindSmallestBoundaryFile(level, GetRange(s[n]).hi)
  <2>1. PICK m \in Nat : m = n + 1
    OBVIOUS
  <2>2. m # 0 /\ m - 1 = n
    BY <2>1
  <2>3. s[m] = Next1(s[m - 1])
    BY <1>11, <2>2
  <2> QED
    BY <2>1, <2>2, <2>3 DEF Next1
<1> QED
  BY <1>9, <1>13, <1>14, <1>15 DEF BoundaryTurns

LEMMA BoundaryIs ==
  ASSUME NEW level, NEW fs, IsFiniteSet(level), fs \subseteq level
  PROVE  /\ fs \subseteq AddBoundaryInputs(level, fs)
         /\ AddBoundaryInputs(level, fs) \subseteq level
<1>1. PICK s : BoundaryTurns(level, fs, s)
  BY BoundaryLoop
<1>2. Cardinality(level) \in Nat
  BY FS_CardinalityType
<1> QED
  BY <1>1, <1>2 DEF BoundaryTurns

-----------------------------------------------------------------------------
(* The merge: what it has put out so far is in order, and below what is    *)
(* still to come.                                                          *)

InOrder(s) == \A i, j \in DOMAIN s : i < j => Less(s[i], s[j])
Before(s, t) == \A x \in Range(s), y \in Range(t) : Less(x, y)

(* After n entries of the input, with these tables done and this one open. *)
SoFar(input, n, done, open) ==
  /\ done \in Seq(Seq(Range(input))) /\ open \in Seq(Range(input))
  /\ InOrder(open) /\ \A i \in DOMAIN done : done[i] # << >> /\ InOrder(done[i])
  /\ \A i, j \in DOMAIN done : i < j => Before(done[i], done[j])
  /\ \A i \in DOMAIN done : Before(done[i], open)
  /\ \A m \in DOMAIN input : m > n =>
       /\ \A x \in Range(open) : Less(x, input[m])
       /\ \A i \in DOMAIN done : \A x \in Range(done[i]) : Less(x, input[m])

LEMMA AppendIs ==
  ASSUME NEW S, NEW s \in Seq(S), NEW e \in S
  PROVE  /\ Append(s, e) \in Seq(S)
         /\ DOMAIN Append(s, e) = 1 .. (Len(s) + 1) /\ Len(s) \in Nat
         /\ DOMAIN s = 1 .. Len(s)
         /\ \A i \in DOMAIN s : Append(s, e)[i] = s[i]
         /\ Append(s, e)[Len(s) + 1] = e
         /\ Range(Append(s, e)) = Range(s) \cup {e}
<1>1. Len(s) \in Nat /\ DOMAIN s = 1 .. Len(s)
  BY LenProperties
<1>2. PICK a : a = Append(s, e)
  OBVIOUS
<1>3. /\ a \in Seq(S) /\ Len(a) = Len(s) + 1
      /\ \A i \in 1 .. Len(s) : a[i] = s[i]
      /\ a[Len(s) + 1] = e
  BY <1>2, AppendProperties
<1>4. DOMAIN a = 1 .. (Len(s) + 1)
  BY <1>3, LenProperties
<1>5. \A i \in DOMAIN a : i \in DOMAIN s \/ i = Len(s) + 1
  BY <1>1, <1>4
<1>6. DOMAIN s \subseteq DOMAIN a /\ Len(s) + 1 \in DOMAIN a
  BY <1>1, <1>4
<1>7. Range(a) = Range(s) \cup {e}
  <2>1. \A y \in Range(a) : y \in Range(s) \cup {e}
    BY <1>1, <1>3, <1>5 DEF Range
  <2>2. \A y \in Range(s) \cup {e} : y \in Range(a)
    BY <1>1, <1>3, <1>6 DEF Range
  <2> QED
    BY <2>1, <2>2
<1> QED
  BY <1>1, <1>2, <1>3, <1>4, <1>7

(* Closing the open table, if it has entries.                              *)
LEMMA CloseSoFar ==
  ASSUME NEW input, NEW n, NEW done, NEW open, SoFar(input, n, done, open),
         open # << >>
  PROVE  SoFar(input, n, Append(done, open), << >>)
<1>1. done \in Seq(Seq(Range(input))) /\ open \in Seq(Range(input))
  BY DEF SoFar
<1>2. PICK d : d = Append(done, open)
  OBVIOUS
<1>3. /\ d \in Seq(Seq(Range(input)))
      /\ DOMAIN d = 1 .. (Len(done) + 1) /\ Len(done) \in Nat
      /\ DOMAIN done = 1 .. Len(done)
      /\ \A i \in DOMAIN done : d[i] = done[i]
      /\ d[Len(done) + 1] = open
  BY <1>1, <1>2, AppendIs
<1>4. \A i \in DOMAIN d :
        (i \in DOMAIN done /\ d[i] = done[i]) \/ (i = Len(done) + 1 /\ d[i] = open)
  BY <1>3
<1>5. /\ << >> \in Seq(Range(input)) /\ InOrder(<< >>)
      /\ Range(<< >>) = {}
  BY DEF InOrder, Range
<1>6. \A i \in DOMAIN d : d[i] # << >> /\ InOrder(d[i])
  BY <1>4 DEF SoFar
<1>7. ASSUME NEW i \in DOMAIN d, NEW j \in DOMAIN d, i < j
      PROVE  Before(d[i], d[j])
  <2>1. i \in DOMAIN done
    BY <1>3, <1>7
  <2> QED
    BY <1>3, <1>4, <1>7, <2>1 DEF SoFar
<1>8. \A i \in DOMAIN d : Before(d[i], << >>)
  BY <1>5 DEF Before
<1>9. ASSUME NEW m \in DOMAIN input, m > n, NEW i \in DOMAIN d,
             NEW x \in Range(d[i])
      PROVE  Less(x, input[m])
  BY <1>4, <1>9 DEF SoFar
<1> QED
  BY <1>2, <1>3, <1>5, <1>6, <1>7, <1>8, <1>9 DEF SoFar

(* Leaving the next entry of the input out, and putting it in.             *)
LEMMA SkipSoFar ==
  ASSUME NEW input, NEW n \in Nat, NEW done, NEW open,
         SoFar(input, n, done, open), DOMAIN input \subseteq Nat
  PROVE  SoFar(input, n + 1, done, open)
<1>1. \A m \in DOMAIN input : m > n + 1 => m > n
  OBVIOUS
<1> QED
  BY <1>1 DEF SoFar

LEMMA AddSoFar ==
  ASSUME NEW input \in Seq(AnEntry), InOrder(input), NEW n \in Nat,
         n + 1 \in DOMAIN input, NEW done, NEW open,
         SoFar(input, n, done, open)
  PROVE  SoFar(input, n + 1, done, Append(open, input[n + 1]))
<1>0. DOMAIN input \subseteq Nat
  BY LenProperties
<1>1. done \in Seq(Seq(Range(input))) /\ open \in Seq(Range(input))
  BY DEF SoFar
<1>2. PICK e \in Range(input) : e = input[n + 1]
  BY DEF Range
<1>3. PICK a : a = Append(open, e)
  OBVIOUS
<1>4. /\ a \in Seq(Range(input))
      /\ DOMAIN a = 1 .. (Len(open) + 1) /\ Len(open) \in Nat
      /\ DOMAIN open = 1 .. Len(open)
      /\ \A i \in DOMAIN open : a[i] = open[i]
      /\ a[Len(open) + 1] = e
      /\ Range(a) = Range(open) \cup {e}
  BY <1>1, <1>3, AppendIs
<1>5. /\ \A x \in Range(open) : Less(x, e)
      /\ \A i \in DOMAIN done : \A x \in Range(done[i]) : Less(x, e)
  <2>1. n + 1 > n
    OBVIOUS
  <2> QED
    BY <1>2, <2>1 DEF SoFar
<1>6. InOrder(a)
  <2>1. ASSUME NEW i \in DOMAIN a, NEW j \in DOMAIN a, i < j
        PROVE  Less(a[i], a[j])
    <3>1. i \in DOMAIN open /\ (j \in DOMAIN open \/ j = Len(open) + 1)
      BY <1>4, <2>1
    <3>2. a[i] = open[i] /\ open[i] \in Range(open)
      BY <1>4, <3>1 DEF Range
    <3>3. CASE j \in DOMAIN open
      BY <1>4, <2>1, <3>1, <3>3 DEF SoFar, InOrder
    <3>4. CASE j = Len(open) + 1
      BY <1>4, <1>5, <3>2, <3>4
    <3> QED
      BY <3>1, <3>3, <3>4
  <2> QED
    BY <2>1 DEF InOrder
<1>7. \A i \in DOMAIN done : Before(done[i], a)
  BY <1>4, <1>5 DEF SoFar, Before
<1>8. ASSUME NEW m \in DOMAIN input, m > n + 1
      PROVE  /\ \A x \in Range(a) : Less(x, input[m])
             /\ \A i \in DOMAIN done : \A x \in Range(done[i]) : Less(x, input[m])
  <2>1. m > n /\ n + 1 < m
    BY <1>0, <1>8
  <2>2. Less(e, input[m])
    BY <1>2, <2>1 DEF InOrder
  <2>3. /\ \A x \in Range(open) : Less(x, input[m])
        /\ \A i \in DOMAIN done : \A x \in Range(done[i]) : Less(x, input[m])
    BY <2>1 DEF SoFar
  <2> QED
    BY <1>4, <2>2, <2>3
<1>9. SoFar(input, n + 1, done, a)
  BY <1>1, <1>4, <1>6, <1>7, <1>8 DEF SoFar
<1> QED
  BY <1>2, <1>3, <1>9

(* A state of the merge, and what a turn of its loop makes of it.          *)
Underway(w, input, n) ==
  \E a, o, p, k, done, open :
    /\ w = [at |-> a, over |-> o, prev |-> p, open |-> open, done |-> done,
            keep |-> k]
    /\ SoFar(input, n, done, open)

LEMMA CloseMerging ==
  ASSUME NEW w, NEW input, NEW n, Underway(w, input, n)
  PROVE  Underway(Close(w), input, n)
<1>1. PICK a, o, p, k, done, open :
        /\ w = [at |-> a, over |-> o, prev |-> p, open |-> open, done |-> done,
                keep |-> k]
        /\ SoFar(input, n, done, open)
  BY DEF Underway
<1>2. CASE open = << >>
  BY <1>1, <1>2 DEF Close
<1>3. CASE open # << >>
  <2>1. Close(w) = [at |-> a, over |-> o, prev |-> p, open |-> << >>,
                    done |-> Append(done, open), keep |-> k]
    BY <1>1, <1>3 DEF Close
  <2>2. SoFar(input, n, Append(done, open), << >>)
    BY <1>1, <1>3, CloseSoFar
  <2> QED
    BY <2>1, <2>2 DEF Underway
<1> QED
  BY <1>2, <1>3

LEMMA StepMerging ==
  ASSUME NEW input \in Seq(AnEntry), InOrder(input), NEW n \in Nat,
         n + 1 \in DOMAIN input, NEW c, NEW w, Underway(w, input, n)
  PROVE  Underway(Step(c, w, input[n + 1]), input, n + 1)
<1>0. DOMAIN input \subseteq Nat
  BY LenProperties
<1>1. PICK e : e = input[n + 1]
  OBVIOUS
<1>2. Underway(Grandparents(c, w, e), input, n)
  <2>1. PICK a, o, p, k, done, open :
          /\ w = [at |-> a, over |-> o, prev |-> p, open |-> open,
                  done |-> done, keep |-> k]
          /\ SoFar(input, n, done, open)
    BY DEF Underway
  <2>2. PICK o2, q, k2 : o2 = Overlap(c, w, e) /\ q = Cardinality(Passed(c, w, e))
                         /\ k2 = ~Drops(c, e, w.prev)
    OBVIOUS
  <2>3. Grandparents(c, w, e) =
          [at |-> a + q, over |-> o2, prev |-> {e}, open |-> open,
           done |-> done, keep |-> k2]
    <3>1. Grandparents(c, w, e) =
            [w EXCEPT !.over = o2, !.at = @ + q, !.keep = k2, !.prev = {e}]
      BY <2>2, Zenon DEF Grandparents
    <3> QED
      BY <2>1, <3>1
  <2> QED
    BY <2>1, <2>3 DEF Underway
<1>3. PICK v : v = StopBefore(Grandparents(c, w, e))
  OBVIOUS
<1>4. Underway(v, input, n)
  <2>1. PICK g : g = Grandparents(c, w, e)
    OBVIOUS
  <2>2. CASE g.over > GrandLimit
    <3>1. v = [Close(g) EXCEPT !.over = 0]
      BY <1>3, <2>1, <2>2 DEF StopBefore
    <3>2. Underway(Close(g), input, n)
      BY <1>2, <2>1, CloseMerging
    <3>3. PICK h : h = Close(g)
      OBVIOUS
    <3>4. PICK a, o, p, k, done, open :
            /\ h = [at |-> a, over |-> o, prev |-> p, open |-> open,
                    done |-> done, keep |-> k]
            /\ SoFar(input, n, done, open)
      BY <3>2, <3>3 DEF Underway
    <3>5. v = [at |-> a, over |-> 0, prev |-> p, open |-> open, done |-> done,
               keep |-> k]
      BY <3>1, <3>3, <3>4
    <3> QED
      BY <3>4, <3>5 DEF Underway
  <2>3. CASE ~(g.over > GrandLimit)
    BY <1>2, <1>3, <2>1, <2>3 DEF StopBefore
  <2> QED
    BY <2>2, <2>3
<1>5. PICK u : u = Add(v, e)
  OBVIOUS
<1>6. Underway(u, input, n + 1)
  <2>1. PICK a, o, p, k, done, open :
          /\ v = [at |-> a, over |-> o, prev |-> p, open |-> open,
                  done |-> done, keep |-> k]
          /\ SoFar(input, n, done, open)
    BY <1>4 DEF Underway
  <2>2. CASE v.keep
    <3>1. u = [at |-> a, over |-> o, prev |-> p, open |-> Append(open, e),
               done |-> done, keep |-> k]
      BY <1>5, <2>1, <2>2 DEF Add
    <3>2. SoFar(input, n + 1, done, Append(open, e))
      BY <1>1, <2>1, AddSoFar
    <3> QED
      BY <3>1, <3>2 DEF Underway
  <2>3. CASE ~v.keep
    <3>1. u = v
      BY <1>5, <2>3 DEF Add
    <3>2. SoFar(input, n + 1, done, open)
      BY <1>0, <2>1, SkipSoFar
    <3> QED
      BY <2>1, <3>1, <3>2 DEF Underway
  <2> QED
    BY <2>2, <2>3
<1>7. Underway(CloseFull(u), input, n + 1)
  BY <1>6, CloseMerging DEF CloseFull
<1> QED
  BY <1>1, <1>3, <1>5, <1>7 DEF Step

(* The loop over the input has a solution.                                 *)
MergeTurns(h, c, input, n) ==
  h[0] = Start /\ \A i \in 1 .. n : h[i] = Step(c, h[i - 1], input[i])

LEMMA MergeExists ==
  ASSUME NEW c, NEW input, NEW n \in Nat
  PROVE  \E h : DOMAIN h = 0 .. n /\ h = [i \in 0 .. n |-> h[i]]
                /\ MergeTurns(h, c, input, n)
<1> DEFINE P(m) == \E h : /\ DOMAIN h = 0 .. m /\ h = [i \in 0 .. m |-> h[i]]
                          /\ MergeTurns(h, c, input, m)
           Bad == {m \in Nat : ~P(m)}
<1>1. P(0)
  <2> DEFINE h == [i \in 0 .. 0 |-> Start]
  <2>1. DOMAIN h = 0 .. 0 /\ h = [i \in 0 .. 0 |-> h[i]] /\ h[0] = Start
    OBVIOUS
  <2>2. MergeTurns(h, c, input, 0)
    BY <2>1 DEF MergeTurns
  <2> HIDE DEF h
  <2> QED
    BY <2>1, <2>2
<1>2. ASSUME NEW m \in Nat, P(m) PROVE P(m + 1)
  <2>1. PICK h : DOMAIN h = 0 .. m /\ MergeTurns(h, c, input, m)
    BY <1>2
  <2>2. PICK x : x = Step(c, h[m], input[m + 1])
    OBVIOUS
  <2> DEFINE h2 == [i \in 0 .. (m + 1) |-> IF i = m + 1 THEN x ELSE h[i]]
  <2>3. /\ DOMAIN h2 = 0 .. (m + 1) /\ h2 = [i \in 0 .. (m + 1) |-> h2[i]]
        /\ h2[m + 1] = x
    OBVIOUS
  <2>4. \A i \in 0 .. m : h2[i] = h[i]
    OBVIOUS
  <2> HIDE DEF h2
  <2>5. h2[0] = Start
    BY <2>1, <2>4 DEF MergeTurns
  <2>6. ASSUME NEW i \in 1 .. (m + 1)
        PROVE  h2[i] = Step(c, h2[i - 1], input[i])
    <3>1. i - 1 \in 0 .. m /\ h2[i - 1] = h[i - 1]
      BY <2>4
    <3>2. CASE i = m + 1
      <4>1. i - 1 = m
        BY <3>2
      <4> QED
        BY <2>2, <2>3, <3>1, <3>2, <4>1
    <3>3. CASE i # m + 1
      <4>1. i \in 1 .. m /\ i \in 0 .. m
        BY <3>3
      <4> QED
        BY <2>1, <2>4, <3>1, <4>1 DEF MergeTurns
    <3> QED
      BY <3>2, <3>3
  <2>7. MergeTurns(h2, c, input, m + 1)
    BY <2>5, <2>6 DEF MergeTurns
  <2> QED
    BY <2>3, <2>7
<1> HIDE DEF P
<1>3. Bad = {}
  <2> SUFFICES ASSUME Bad # {} PROVE FALSE
    OBVIOUS
  <2>1. PICK m \in Bad : \A j \in Bad : m <= j
    <3>1. Bad \in SUBSET Nat
      OBVIOUS
    <3> HIDE DEF Bad
    <3> QED
      BY <3>1, LeastOf
  <2>2. m \in Nat /\ ~P(m) /\ m # 0
    BY <1>1, <2>1
  <2>3. m - 1 \in Nat /\ m - 1 \notin Bad /\ m - 1 + 1 = m
    BY <2>1, <2>2
  <2>4. P(m - 1)
    BY <2>3
  <2>5. P(m - 1 + 1)
    BY <1>2, <2>3, <2>4
  <2> QED
    BY <2>2, <2>3, <2>5
<1>4. P(n)
  BY <1>3
<1> QED
  BY <1>4 DEF P

LEMMA MergeLoop ==
  ASSUME NEW c, NEW S, NEW input \in Seq(S)
  PROVE  \E s : /\ MergeTurns(s, c, input, Len(input))
                /\ Merged(c, input) = Close(s[Len(input)]).done
<1> DEFINE N == Len(input)
           Is(h) == h = [n \in 0 .. N |->
                           IF n = 0 THEN Start ELSE Step(c, h[n - 1], input[n])]
<1>0. N \in Nat /\ DOMAIN input = 1 .. N
  BY LenProperties
<1> HIDE DEF N
<1>1. PICK h : /\ DOMAIN h = 0 .. N /\ h = [i \in 0 .. N |-> h[i]]
               /\ MergeTurns(h, c, input, N)
  BY <1>0, MergeExists
<1>2. \A n \in 0 .. N :
        h[n] = IF n = 0 THEN Start ELSE Step(c, h[n - 1], input[n])
  <2>1. \A n \in 0 .. N : n = 0 \/ n \in 1 .. N
    BY <1>0
  <2> QED
    BY <1>1, <2>1 DEF MergeTurns
<1>3. Is(h)
  BY <1>1, <1>2
<1>4. PICK s : s = CHOOSE h2 : Is(h2)
  OBVIOUS
<1>5. Merged(c, input) = Close(s[N]).done
  BY <1>4 DEF Merged, N
<1>6. Is(s)
  <2> HIDE DEF Is
  <2> QED
    BY <1>3, <1>4
<1>7. s[0] = Start /\ \A n \in 1 .. N : s[n] = Step(c, s[n - 1], input[n])
  BY <1>0, <1>6
<1> QED
  BY <1>5, <1>7 DEF MergeTurns, N

(* The outputs of a merge: tables in order, one after the other.           *)
LEMMA MergedIs ==
  ASSUME NEW c, NEW input \in Seq(AnEntry), InOrder(input)
  PROVE  /\ Merged(c, input) \in Seq(Seq(Range(input)))
         /\ \A i \in DOMAIN Merged(c, input) :
              Merged(c, input)[i] # << >> /\ InOrder(Merged(c, input)[i])
         /\ \A i, j \in DOMAIN Merged(c, input) :
              i < j => Before(Merged(c, input)[i], Merged(c, input)[j])
<1> DEFINE N == Len(input)
<1>0. N \in Nat /\ DOMAIN input = 1 .. N
  BY LenProperties
<1>1. PICK s : MergeTurns(s, c, input, N) /\ Merged(c, input) = Close(s[N]).done
  BY MergeLoop
<1> HIDE DEF N
<1>5. Merged(c, input) = Close(s[N]).done
  BY <1>1
<1>7. s[0] = Start /\ \A n \in 1 .. N : s[n] = Step(c, s[n - 1], input[n])
  BY <1>1 DEF MergeTurns
<1> DEFINE Bad == {n \in Nat : n <= N /\ ~Underway(s[n], input, n)}
<1>8. Underway(s[0], input, 0)
  <2>1. SoFar(input, 0, << >>, << >>)
    BY DEF SoFar, InOrder, Before, Range
  <2> QED
    BY <1>7, <2>1 DEF Underway, Start
<1>9. Bad = {}
  <2> SUFFICES ASSUME Bad # {} PROVE FALSE
    OBVIOUS
  <2>1. PICK n \in Bad : \A j \in Bad : n <= j
    <3>1. Bad \in SUBSET Nat
      OBVIOUS
    <3> HIDE DEF Bad
    <3> QED
      BY <3>1, LeastOf
  <2>2. n \in Nat /\ n <= N /\ ~Underway(s[n], input, n) /\ n # 0
    BY <1>8, <2>1
  <2>3. n - 1 \in Nat /\ n - 1 <= N /\ n - 1 \notin Bad /\ n - 1 + 1 = n
    BY <1>0, <2>1, <2>2
  <2>4. Underway(s[n - 1], input, n - 1)
    BY <2>3
  <2>5. n \in 1 .. N /\ n - 1 + 1 \in DOMAIN input
    BY <1>0, <2>2, <2>3
  <2>6. PICK m \in Nat : m = n - 1
    BY <2>3
  <2>7. Underway(Step(c, s[m], input[m + 1]), input, m + 1)
    BY <2>3, <2>4, <2>5, <2>6, StepMerging
  <2>8. s[n] = Step(c, s[m], input[n]) /\ m + 1 = n
    BY <1>7, <2>3, <2>5, <2>6
  <2> QED
    BY <2>2, <2>7, <2>8
<1>10. Underway(s[N], input, N)
  BY <1>0, <1>9
<1>11. Underway(Close(s[N]), input, N)
  BY <1>10, CloseMerging
<1>12. PICK x : x = Close(s[N])
  OBVIOUS
<1>13. \E open : SoFar(input, N, x.done, open)
  BY <1>11, <1>12 DEF Underway
<1>14. PICK m : m = Merged(c, input)
  OBVIOUS
<1>15. \E open : SoFar(input, N, m, open)
  BY <1>5, <1>12, <1>13, <1>14
<1> QED
  BY <1>14, <1>15 DEF SoFar

-----------------------------------------------------------------------------
(* A merge puts out the entries it does not drop, all of them and no other.*)

Shape(w, S) ==
  \E a, o, p, k, done, open :
    /\ w = [at |-> a, over |-> o, prev |-> p, open |-> open, done |-> done,
            keep |-> k]
    /\ done \in Seq(Seq(S)) /\ open \in Seq(S)
Put(done) == UNION {Range(done[i]) : i \in DOMAIN done}
Held(w) == Put(w.done) \cup Range(w.open)

LEMMA PutMore ==
  ASSUME NEW S, NEW done \in Seq(Seq(S)), NEW open \in Seq(S)
  PROVE  Put(Append(done, open)) = Put(done) \cup Range(open)
<1>1. /\ DOMAIN Append(done, open) = 1 .. (Len(done) + 1) /\ Len(done) \in Nat
      /\ DOMAIN done = 1 .. Len(done)
      /\ \A i \in DOMAIN done : Append(done, open)[i] = done[i]
      /\ Append(done, open)[Len(done) + 1] = open
  BY AppendIs
<1>2. PICK d : d = Append(done, open)
  OBVIOUS
<1>3. ASSUME NEW i \in DOMAIN d
      PROVE  Range(d[i]) \subseteq Put(done) \cup Range(open)
  <2>1. i \in DOMAIN done \/ i = Len(done) + 1
    BY <1>1, <1>2
  <2> QED
    BY <1>1, <1>2, <2>1 DEF Put
<1>4. ASSUME NEW i \in DOMAIN done PROVE Range(done[i]) \subseteq Put(d)
  <2>1. i \in DOMAIN d
    BY <1>1, <1>2
  <2> QED
    BY <1>1, <1>2, <2>1 DEF Put
<1>5. Range(open) \subseteq Put(d)
  <2>1. Len(done) + 1 \in DOMAIN d
    BY <1>1, <1>2
  <2> QED
    BY <1>1, <1>2, <2>1 DEF Put
<1>6. Put(d) \subseteq Put(done) \cup Range(open)
  BY <1>3 DEF Put
<1>7. Put(done) \subseteq Put(d)
  BY <1>4 DEF Put
<1> QED
  BY <1>2, <1>5, <1>6, <1>7

LEMMA CloseHolds ==
  ASSUME NEW S, NEW w, Shape(w, S)
  PROVE  /\ Shape(Close(w), S) /\ Held(Close(w)) = Held(w)
         /\ Close(w).prev = w.prev /\ Close(w).keep = w.keep
         /\ Close(w).open = << >>
<1>1. PICK a, o, p, k, done, open :
        /\ w = [at |-> a, over |-> o, prev |-> p, open |-> open, done |-> done,
                keep |-> k]
        /\ done \in Seq(Seq(S)) /\ open \in Seq(S)
  BY DEF Shape
<1>2. CASE open = << >>
  <2>1. Close(w) = w
    BY <1>1, <1>2 DEF Close
  <2> QED
    BY <1>1, <1>2, <2>1
<1>3. CASE open # << >>
  <2>1. PICK d : d = Append(done, open)
    OBVIOUS
  <2>2. Close(w) = [at |-> a, over |-> o, prev |-> p, open |-> << >>,
                    done |-> d, keep |-> k]
    BY <1>1, <1>3, <2>1 DEF Close
  <2>3. PICK v : v = Close(w)
    OBVIOUS
  <2>4. v.prev = p /\ v.keep = k /\ v.open = << >> /\ v.done = d
    BY <2>2, <2>3
  <2>5. w.prev = p /\ w.keep = k /\ w.open = open /\ w.done = done
    BY <1>1
  <2>6. d \in Seq(Seq(S)) /\ << >> \in Seq(S)
    BY <1>1, <2>1, AppendIs
  <2>7. Shape(v, S)
    BY <2>2, <2>3, <2>6 DEF Shape
  <2>8. Range(<< >>) = {}
    BY DEF Range
  <2>9. Held(v) = Put(done) \cup Range(open)
    BY <1>1, <2>1, <2>4, <2>8, PutMore DEF Held
  <2>10. Held(w) = Put(done) \cup Range(open)
    BY <2>5 DEF Held
  <2> QED
    BY <2>3, <2>4, <2>5, <2>7, <2>9, <2>10
<1> QED
  BY <1>2, <1>3

LEMMA StepHolds ==
  ASSUME NEW S, NEW w, Shape(w, S), NEW e \in S, NEW c
  PROVE  /\ Shape(Step(c, w, e), S) /\ Step(c, w, e).prev = {e}
         /\ Drops(c, e, w.prev) => Held(Step(c, w, e)) = Held(w)
         /\ ~Drops(c, e, w.prev) => Held(Step(c, w, e)) = Held(w) \cup {e}
<1>1. PICK a, o, p, k, done, open :
        /\ w = [at |-> a, over |-> o, prev |-> p, open |-> open, done |-> done,
                keep |-> k]
        /\ done \in Seq(Seq(S)) /\ open \in Seq(S)
  BY DEF Shape
<1>2. PICK o2, q, k2 : o2 = Overlap(c, w, e) /\ q = Cardinality(Passed(c, w, e))
                       /\ k2 = ~Drops(c, e, w.prev)
  OBVIOUS
<1>3. PICK g : g = Grandparents(c, w, e)
  OBVIOUS
<1>4. g = [at |-> a + q, over |-> o2, prev |-> {e}, open |-> open,
           done |-> done, keep |-> k2]
  <2>1. g = [w EXCEPT !.over = o2, !.at = @ + q, !.keep = k2, !.prev = {e}]
    BY <1>2, <1>3, Zenon DEF Grandparents
  <2> QED
    BY <1>1, <2>1
<1>5. Shape(g, S) /\ Held(g) = Held(w) /\ g.prev = {e} /\ g.keep = k2
  <2>1. Shape(g, S)
    BY <1>1, <1>4 DEF Shape
  <2>2. g.done = w.done /\ g.open = w.open /\ g.prev = {e} /\ g.keep = k2
    BY <1>1, <1>4
  <2> QED
    BY <2>1, <2>2 DEF Held
<1>6. PICK v : v = StopBefore(g)
  OBVIOUS
<1>7. Shape(v, S) /\ Held(v) = Held(w) /\ v.prev = {e} /\ v.keep = k2
  <2>1. CASE g.over > GrandLimit
    <3>1. PICK h : h = Close(g)
      OBVIOUS
    <3>2. Shape(h, S) /\ Held(h) = Held(g) /\ h.prev = {e} /\ h.keep = k2
      BY <1>5, <3>1, CloseHolds
    <3>3. v = [h EXCEPT !.over = 0]
      BY <1>6, <2>1, <3>1 DEF StopBefore
    <3>4. PICK a3, o3, p3, k3, done3, open3 :
            /\ h = [at |-> a3, over |-> o3, prev |-> p3, open |-> open3,
                    done |-> done3, keep |-> k3]
            /\ done3 \in Seq(Seq(S)) /\ open3 \in Seq(S)
      BY <3>2 DEF Shape
    <3>5. v = [at |-> a3, over |-> 0, prev |-> p3, open |-> open3,
               done |-> done3, keep |-> k3]
      BY <3>3, <3>4
    <3>6. Shape(v, S)
      BY <3>4, <3>5 DEF Shape
    <3>7. v.done = h.done /\ v.open = h.open /\ v.prev = h.prev /\ v.keep = h.keep
      BY <3>4, <3>5
    <3> QED
      BY <1>5, <3>2, <3>6, <3>7 DEF Held
  <2>2. CASE ~(g.over > GrandLimit)
    BY <1>5, <1>6, <2>2 DEF StopBefore
  <2> QED
    BY <2>1, <2>2
<1>8. PICK u : u = Add(v, e)
  OBVIOUS
<1>9. /\ Shape(u, S) /\ u.prev = {e} /\ u.keep = k2
      /\ k2 => Held(u) = Held(w) \cup {e}
      /\ ~k2 => Held(u) = Held(w)
  <2>1. CASE k2
    <3>1. u = [v EXCEPT !.open = Append(@, e)]
      BY <1>7, <1>8, <2>1 DEF Add
    <3>2. PICK a3, o3, p3, k3, done3, open3 :
            /\ v = [at |-> a3, over |-> o3, prev |-> p3, open |-> open3,
                    done |-> done3, keep |-> k3]
            /\ done3 \in Seq(Seq(S)) /\ open3 \in Seq(S)
      BY <1>7 DEF Shape
    <3>3. PICK x : x = Append(open3, e)
      OBVIOUS
    <3>4. x \in Seq(S) /\ Range(x) = Range(open3) \cup {e}
      BY <3>2, <3>3, AppendIs
    <3>5. u = [at |-> a3, over |-> o3, prev |-> p3, open |-> x,
               done |-> done3, keep |-> k3]
      BY <3>1, <3>2, <3>3
    <3>6. Shape(u, S)
      BY <3>2, <3>4, <3>5 DEF Shape
    <3>7. u.done = v.done /\ u.open = x /\ u.prev = v.prev /\ u.keep = v.keep
          /\ v.open = open3
      BY <3>2, <3>5
    <3>8. Held(u) = Held(v) \cup {e}
      BY <3>4, <3>7 DEF Held
    <3> QED
      BY <1>7, <2>1, <3>6, <3>7, <3>8
  <2>2. CASE ~k2
    <3>1. u = v
      BY <1>7, <1>8, <2>2 DEF Add
    <3> QED
      BY <1>7, <2>2, <3>1
  <2> QED
    BY <2>1, <2>2
<1>10. PICK y : y = CloseFull(u)
  OBVIOUS
<1>11. Shape(y, S) /\ y.prev = {e} /\ Held(y) = Held(u)
  <2>1. y = u \/ y = Close(u)
    BY <1>10 DEF CloseFull
  <2> QED
    BY <1>9, <2>1, CloseHolds
<1>12. y = Step(c, w, e)
  BY <1>3, <1>6, <1>8, <1>10 DEF Step
<1> QED
  BY <1>2, <1>9, <1>11, <1>12

(* What is kept of the first n entries: each is judged by the one before.  *)
Previous(input, i) == IF i = 1 THEN {} ELSE {input[i - 1]}
Keeps(c, input, n) ==
  {input[i] : i \in {j \in 1 .. n : ~Drops(c, input[j], Previous(input, j))}}

LEMMA MergedKeeps ==
  ASSUME NEW c, NEW S, NEW input \in Seq(S)
  PROVE  Put(Merged(c, input)) = Keeps(c, input, Len(input))
<1>1. PICK N \in Nat : N = Len(input) /\ DOMAIN input = 1 .. N
  BY LenProperties
<1>2. PICK s : MergeTurns(s, c, input, N) /\ Merged(c, input) = Close(s[N]).done
  BY <1>1, MergeLoop
<1>3. s[0] = Start /\ \A n \in 1 .. N : s[n] = Step(c, s[n - 1], input[n])
  BY <1>2 DEF MergeTurns
<1> DEFINE OK(n) == /\ Shape(s[n], S)
                    /\ s[n].prev = IF n = 0 THEN {} ELSE {input[n]}
                    /\ Held(s[n]) = Keeps(c, input, n)
           Bad == {n \in Nat : n <= N /\ ~OK(n)}
<1>4. OK(0)
  <2>1. Shape(Start, S)
    <3>1. << >> \in Seq(Seq(S)) /\ << >> \in Seq(S)
      OBVIOUS
    <3>2. Start = [at |-> 0, over |-> 0, prev |-> {}, open |-> << >>,
                   done |-> << >>, keep |-> FALSE]
      BY DEF Start
    <3> QED
      BY <3>1, <3>2, Zenon DEF Shape
  <2>2. Start.prev = {} /\ Start.done = << >> /\ Start.open = << >>
    BY DEF Start
  <2>3. Put(<< >>) = {} /\ Range(<< >>) = {}
    BY DEF Put, Range
  <2>4. Held(Start) = {}
    BY <2>2, <2>3 DEF Held
  <2>5. Keeps(c, input, 0) = {}
    BY DEF Keeps
  <2> QED
    BY <1>3, <2>1, <2>2, <2>4, <2>5
<1>5. ASSUME NEW n \in Nat, n + 1 <= N, OK(n) PROVE OK(n + 1)
  <2>1. PICK m \in Nat : m = n + 1
    OBVIOUS
  <2>2. m \in 1 .. N /\ m - 1 = n /\ m # 0 /\ (n = 0 <=> m = 1)
    BY <1>5, <2>1
  <2>3. PICK e, w : e = input[m] /\ w = s[n]
    OBVIOUS
  <2>4. e \in S
    BY <1>1, <2>2, <2>3, ElementOfSeq
  <2>5. s[m] = Step(c, w, e)
    BY <1>3, <2>2, <2>3
  <2>6. Shape(w, S) /\ w.prev = Previous(input, m) /\ Held(w) = Keeps(c, input, n)
    <3>1. w.prev = IF n = 0 THEN {} ELSE {input[n]}
      BY <1>5, <2>3
    <3> QED
      BY <1>5, <2>2, <2>3, <3>1 DEF Previous
  <2>7. /\ Shape(s[m], S) /\ s[m].prev = {e}
        /\ Drops(c, e, w.prev) => Held(s[m]) = Held(w)
        /\ ~Drops(c, e, w.prev) => Held(s[m]) = Held(w) \cup {e}
    BY <2>4, <2>5, <2>6, StepHolds
  <2>8. Held(s[m]) = Keeps(c, input, m)
    <3> DEFINE D(j) == Drops(c, input[j], Previous(input, j))
    <3>1. 1 .. m = (1 .. n) \cup {m}
      BY <2>1
    <3>2. D(m) <=> Drops(c, e, w.prev)
      BY <2>3, <2>6
    <3>3. /\ Keeps(c, input, m) = {input[i] : i \in {j \in 1 .. m : ~D(j)}}
          /\ Keeps(c, input, n) = {input[i] : i \in {j \in 1 .. n : ~D(j)}}
      BY DEF Keeps
    <3> HIDE DEF D
    <3>4. CASE D(m)
      <4>1. {j \in 1 .. m : ~D(j)} = {j \in 1 .. n : ~D(j)}
        BY <3>1, <3>4
      <4> QED
        BY <2>6, <2>7, <3>2, <3>3, <3>4, <4>1
    <3>5. CASE ~D(m)
      <4>1. {j \in 1 .. m : ~D(j)} = {j \in 1 .. n : ~D(j)} \cup {m}
        BY <3>1, <3>5
      <4>2. Keeps(c, input, m) = Keeps(c, input, n) \cup {e}
        BY <2>3, <3>3, <4>1
      <4> QED
        BY <2>6, <2>7, <3>2, <3>5, <4>2
    <3> QED
      BY <3>4, <3>5
  <2> QED
    BY <2>1, <2>2, <2>3, <2>7, <2>8
<1> HIDE DEF OK
<1>6. Bad = {}
  <2> SUFFICES ASSUME Bad # {} PROVE FALSE
    OBVIOUS
  <2>1. PICK n \in Bad : \A j \in Bad : n <= j
    <3>1. Bad \in SUBSET Nat
      OBVIOUS
    <3> HIDE DEF Bad
    <3> QED
      BY <3>1, LeastOf
  <2>2. n \in Nat /\ n # 0 /\ n <= N
    BY <1>4, <2>1
  <2>3. PICK m \in Nat : n = m + 1 /\ m \notin Bad /\ m <= N
    <3>1. n - 1 \in Nat /\ n = n - 1 + 1 /\ n - 1 \notin Bad /\ n - 1 <= N
      BY <2>1, <2>2
    <3> QED
      BY <3>1
  <2> QED
    BY <1>5, <2>1, <2>2, <2>3
<1>7. OK(N)
  BY <1>6
<1>8. PICK w, v : w = s[N] /\ v = Close(w)
  OBVIOUS
<1>9. Held(v) = Keeps(c, input, N) /\ v.open = << >>
  BY <1>7, <1>8, CloseHolds DEF OK
<1>10. Range(<< >>) = {}
  BY DEF Range
<1>11. Held(v) = Put(v.done)
  BY <1>9, <1>10 DEF Held
<1> QED
  BY <1>1, <1>2, <1>8, <1>9, <1>11

-----------------------------------------------------------------------------
(* The inputs of a compaction, and the tables they leave alone.            *)

LEMMA TablesOf ==
  ASSUME NEW S, NEW s \in Seq(S)
  PROVE  Range(s) \subseteq S /\ IsFiniteSet(Range(s))
<1>1. Len(s) \in Nat /\ DOMAIN s = 1 .. Len(s)
  BY LenProperties
<1>2. Range(s) \subseteq S
  BY <1>1, ElementOfSeq DEF Range
<1>3. IsFiniteSet(1 .. Len(s))
  BY <1>1, FS_Interval
<1>4. s \in [1 .. Len(s) -> Range(s)]
  BY <1>1 DEF Range
<1>5. s \in Surjection(1 .. Len(s), Range(s))
  BY <1>1, <1>4 DEF Surjection, Range
<1> QED
  BY <1>2, <1>3, <1>5, FS_Surjection

(* The user keys of a table lie between those of its first and last entry. *)
LEMMA TableKeys ==
  ASSUME NEW f \in ATable
  PROVE  /\ Smallest(f).k \in Nat /\ Largest(f).k \in Nat
         /\ Smallest(f).k <= Largest(f).k
<1>1. /\ Smallest(f) \in AnEntry /\ Largest(f) \in AnEntry
      /\ Smallest(f) = Largest(f) \/ Less(Smallest(f), Largest(f))
  BY TableFacts
<1>2. Smallest(f).k \in Nat /\ Largest(f).k \in Nat
  BY <1>1, KeysAssumption DEF AnEntry
<1>3. Smallest(f) = Largest(f) => Smallest(f).k = Largest(f).k
  OBVIOUS
<1>4. Less(Smallest(f), Largest(f)) => Smallest(f).k <= Largest(f).k
  BY <1>1, LessOrder
<1> QED
  BY <1>1, <1>2, <1>3, <1>4

(* What is below, or above, one end of a table is so of all of it.         *)
LEMMA PastTable ==
  ASSUME NEW f \in ATable, NEW e \in AnEntry, NEW x \in Range(f.data)
  PROVE  /\ Less(e, Smallest(f)) => Less(e, x)
         /\ Less(Largest(f), e) => Less(x, e)
<1>1. /\ Smallest(f) \in AnEntry /\ Largest(f) \in AnEntry /\ x \in AnEntry
      /\ x = Smallest(f) \/ Less(Smallest(f), x)
      /\ x = Largest(f) \/ Less(x, Largest(f))
  BY TableFacts
<1> QED
  BY <1>1, LessOrder

LEMMA BesideIs ==
  ASSUME NEW M \in SUBSET ATable, \A f, g \in M : f = g \/ Apart(f, g),
         NEW a \in SUBSET ATable, IsFiniteSet(a), a # {},
         NEW b, b = Inputs(M, <<GetRange(a).lo.k, GetRange(a).hi.k>>),
         NEW t \in M \ b
  PROVE  Beside(t, Entries(a \cup b))
<1>1. PICK lo, hi : lo = GetRange(a).lo.k /\ hi = GetRange(a).hi.k
  OBVIOUS
<1>2. /\ \A e \in Entries(a) : e.k \in Nat /\ lo <= e.k /\ e.k <= hi
      /\ lo \in Nat /\ hi \in Nat
  BY <1>1, GetRangeIs
<1>3. b = {f \in M : Touches(f, lo, hi)}
  BY <1>1 DEF Inputs
<1>4. ~Touches(t, lo, hi) /\ t \in ATable
  BY <1>3
<1>5. /\ Smallest(t).k \in Nat /\ Largest(t).k \in Nat
      /\ Smallest(t).k <= Largest(t).k
      /\ Smallest(t) \in AnEntry /\ Largest(t) \in AnEntry
  BY <1>4, TableKeys, TableFacts
<1>6. \A e \in Entries(a) : e \in AnEntry
  BY EntriesOf
<1>7. \A g \in b : /\ g \in ATable /\ Touches(g, lo, hi) /\ Apart(t, g)
                   /\ Smallest(g).k \in Nat /\ Largest(g).k \in Nat
                   /\ Smallest(g) \in AnEntry /\ Largest(g) \in AnEntry
  <2>1. ASSUME NEW g \in b PROVE g \in ATable /\ Touches(g, lo, hi) /\ Apart(t, g)
    BY <1>3
  <2> QED
    BY <2>1, TableKeys, TableFacts
<1>8. \A e \in Entries(a \cup b) :
        e \in Entries(a) \/ \E g \in b : e \in Range(g.data)
  BY DEF Entries
<1>9. CASE Largest(t).k < lo
  <2>1. ASSUME NEW e \in Entries(a) PROVE Less(Largest(t), e)
    <3>1. Largest(t).k < e.k
      BY <1>2, <1>5, <1>9
    <3> QED
      BY <1>5, <1>6, <3>1, LessOrder
  <2>2. ASSUME NEW g \in b, NEW e \in Range(g.data) PROVE Less(Largest(t), e)
    <3>1. ~(Largest(g).k < lo)
      BY <1>7 DEF Touches
    <3>2. ~Less(Largest(g), Smallest(t))
      <4>1. ~(Largest(g).k <= Smallest(t).k)
        BY <1>2, <1>5, <1>7, <1>9, <3>1
      <4> QED
        BY <1>5, <1>7, <4>1, LessOrder
    <3>3. Less(Largest(t), Smallest(g))
      BY <1>7, <3>2 DEF Apart
    <3> QED
      BY <1>5, <1>7, <3>3, PastTable
  <2> QED
    BY <1>8, <2>1, <2>2 DEF Beside
<1>10. CASE Smallest(t).k > hi
  <2>1. ASSUME NEW e \in Entries(a) PROVE Less(e, Smallest(t))
    <3>1. e.k < Smallest(t).k
      BY <1>2, <1>5, <1>10
    <3> QED
      BY <1>5, <1>6, <3>1, LessOrder
  <2>2. ASSUME NEW g \in b, NEW e \in Range(g.data) PROVE Less(e, Smallest(t))
    <3>1. ~(Smallest(g).k > hi)
      BY <1>7 DEF Touches
    <3>2. ~Less(Largest(t), Smallest(g))
      <4>1. ~(Largest(t).k <= Smallest(g).k)
        BY <1>2, <1>5, <1>7, <1>10, <3>1
      <4> QED
        BY <1>5, <1>7, <4>1, LessOrder
    <3>3. Less(Largest(g), Smallest(t))
      BY <1>7, <3>2 DEF Apart
    <3> QED
      BY <1>5, <1>7, <3>3, PastTable
  <2> QED
    BY <1>8, <2>1, <2>2 DEF Beside
<1> QED
  BY <1>4, <1>9, <1>10 DEF Touches

(* A level of the current version.                                         *)
LEMMA LevelFacts ==
  ASSUME LevelInv, NEW l \in Levels
  PROVE  /\ files[l] \in Seq(ATable) /\ Range(files[l]) \subseteq ATable
         /\ IsFiniteSet(Range(files[l]))
         /\ Len(files[l]) \in Nat /\ DOMAIN files[l] = 1 .. Len(files[l])
         /\ \A f, g \in Range(files[l]) : f.num = g.num => f = g
<1>1. files[l] \in Seq(ATable)
  BY DEF LevelInv
<1>2. Len(files[l]) \in Nat /\ DOMAIN files[l] = 1 .. Len(files[l])
  BY <1>1, LenProperties
<1> QED
  BY <1>1, <1>2, TablesOf DEF LevelInv

(* Whatever tables of its level a compaction starts from, the tables of    *)
(* the next level that are not among its inputs are beside all of them.    *)
LEMMA CompactionIs ==
  ASSUME LevelInv, ApartInv, NEW l \in 0 .. (NumLevels - 2), NEW fs,
         fs \subseteq Range(files[l]), fs # {}
  PROVE  /\ Compaction(l, fs).level = l
         /\ Compaction(l, fs).in0 # {}
         /\ Compaction(l, fs).in0 \subseteq Range(files[l])
         /\ Compaction(l, fs).in1 \subseteq Range(files[l + 1])
         /\ \A t \in Range(files[l + 1]) \ Compaction(l, fs).in1 :
              Beside(t, Entries(Compaction(l, fs).in0 \cup Compaction(l, fs).in1))
<1>0. l \in Levels /\ l + 1 \in Levels /\ l + 1 # 0
  BY SizesAssumption DEF Levels
<1>1. PICK L : L = Range(files[l])
  OBVIOUS
<1>2. PICK M : M = Range(files[l + 1])
  OBVIOUS
<1>3. L \subseteq ATable /\ IsFiniteSet(L) /\ M \subseteq ATable
  BY <1>0, <1>1, <1>2, LevelFacts
<1>4. \A f, g \in M : f = g \/ Apart(f, g)
  BY <1>0, <1>2 DEF ApartInv
<1> DEFINE OK(a, b) == /\ a \subseteq L /\ a # {}
                       /\ b = Inputs(M, <<GetRange(a).lo.k, GetRange(a).hi.k>>)
<1>5. ASSUME NEW a, a \subseteq L, a # {}
      PROVE  OK(a, Overlapping(files, l + 1, GetRange(a)))
  BY <1>0, <1>2, <1>5 DEF Overlapping, GetOverlappingInputs
<1>6. PICK in0 : in0 = AddBoundaryInputs(L, fs)
  OBVIOUS
<1>7. in0 \subseteq L /\ in0 # {}
  BY <1>1, <1>3, <1>6, BoundaryIs
<1>8. PICK in1 : in1 = Overlapping(files, l + 1, GetRange(in0))
  OBVIOUS
<1>9. PICK exp0 : exp0 = AddBoundaryInputs(L,
                           Overlapping(files, l, GetRange(in0 \cup in1)))
  OBVIOUS
<1>10. exp0 \subseteq L
  <2>1. Overlapping(files, l, GetRange(in0 \cup in1)) \subseteq L
    BY <1>1 DEF Overlapping, GetOverlappingInputs, Inputs
  <2> QED
    BY <1>3, <1>9, <2>1, BoundaryIs
<1>11. PICK exp1 : exp1 = Overlapping(files, l + 1, GetRange(exp0))
  OBVIOUS
<1>12. SetupOtherInputs(l, fs) = Grown(l, in0, in1, exp0, exp1)
  BY <1>1, <1>6, <1>8, <1>9, <1>11
     DEF SetupOtherInputs, WithNextLevel, ExpandInputs, Grow
<1>13. OK(in0, in1)
  BY <1>5, <1>7, <1>8
<1>14. Cardinality(exp0) > Cardinality(in0) => OK(exp0, exp1)
  <2> SUFFICES ASSUME Cardinality(exp0) > Cardinality(in0) PROVE OK(exp0, exp1)
    OBVIOUS
  <2>1. Cardinality(in0) \in Nat
    BY <1>3, <1>7, FS_Subset, FS_CardinalityType
  <2>2. exp0 # {}
    <3>1. Cardinality({}) = 0
      BY FS_EmptySet
    <3> QED
      BY <2>1, <3>1
  <2> QED
    BY <1>5, <1>10, <1>11, <2>2
<1>15. PICK a, b : SetupOtherInputs(l, fs) = <<a, b>> /\ OK(a, b)
  <2> HIDE DEF OK
  <2>1. \/ Grown(l, in0, in1, exp0, exp1) = <<in0, in1>>
        \/ /\ Grown(l, in0, in1, exp0, exp1) = <<exp0, exp1>>
           /\ Cardinality(exp0) > Cardinality(in0)
    BY DEF Grown
  <2> QED
    BY <1>12, <1>13, <1>14, <2>1
<1>16. PICK c : c = Compaction(l, fs)
  OBVIOUS
<1>17. c.level = l /\ c.in0 = a /\ c.in1 = b
  BY <1>15, <1>16 DEF Compaction, Paired, Choose, Chosen
<1>18. a \in SUBSET ATable /\ IsFiniteSet(a) /\ M \in SUBSET ATable
  BY <1>3, <1>15, FS_Subset
<1>19. b \subseteq M
  BY <1>15 DEF Inputs
<1>20. \A t \in M \ b : Beside(t, Entries(a \cup b))
  BY <1>4, <1>15, <1>18, BesideIs
<1> QED
  BY <1>1, <1>2, <1>15, <1>16, <1>17, <1>19, <1>20

-----------------------------------------------------------------------------
(* What a compaction leaves behind on its own level is newer than what it  *)
(* takes. The loops that choose its inputs run until there is no more to   *)
(* choose: as often as there are tables is often enough.                   *)

LEMMA Proper ==
  ASSUME NEW B, IsFiniteSet(B), NEW A \in SUBSET B
  PROVE  /\ Cardinality(A) \in Nat /\ Cardinality(B) \in Nat
         /\ Cardinality(A) <= Cardinality(B)
         /\ A # B => Cardinality(A) + 1 <= Cardinality(B)
<1>1. IsFiniteSet(A) /\ Cardinality(A) <= Cardinality(B)
      /\ (Cardinality(B) = Cardinality(A) => A = B)
  BY FS_Subset
<1>2. Cardinality(A) \in Nat /\ Cardinality(B) \in Nat
  BY <1>1, FS_CardinalityType
<1> QED
  BY <1>1, <1>2

LEMMA InputsGrow ==
  ASSUME NEW fs \in SUBSET ATable, NEW lo \in Nat, NEW hi \in Nat, NEW l \in Nat,
         NEW h \in Nat, l <= lo, hi <= h
  PROVE  Inputs(fs, <<lo, hi>>) \subseteq Inputs(fs, <<l, h>>)
<1> SUFFICES ASSUME NEW f \in fs, Touches(f, lo, hi) PROVE Touches(f, l, h)
  BY DEF Inputs
<1>1. Smallest(f).k \in Nat /\ Largest(f).k \in Nat
  BY TableKeys
<1> QED
  BY <1>1 DEF Touches

(* A closed range has every table it touches in it.                        *)
LEMMA ClosureTight ==
  ASSUME NEW fs \in SUBSET ATable, IsFiniteSet(fs), NEW lo \in Nat, NEW hi \in Nat
  PROVE  Tight(fs, Closure(fs, lo, hi))
<1>1. PICK s : ClosureTurns(fs, lo, hi, s)
  BY ClosureLoop
<1> DEFINE I(n) == Inputs(fs, s[n])
           Bad == {n \in Nat : ~(Tight(fs, s[n]) \/ Cardinality(I(n)) >= n + 1)}
<1>2. \A n \in Nat : I(n) \in SUBSET fs
  BY DEF Inputs
<1>3. Tight(fs, s[0]) \/ Cardinality(I(0)) >= 0 + 1
  <2>1. CASE I(0) = {}
    BY <2>1 DEF Tight
  <2>2. CASE I(0) # {}
    <3>1. PICK A : A = I(0)
      OBVIOUS
    <3>2. {} \in SUBSET A /\ A # {} /\ IsFiniteSet(A)
      BY <1>2, <2>2, <3>1, FS_Subset
    <3>3. Cardinality({}) + 1 <= Cardinality(A) /\ Cardinality({}) = 0
          /\ Cardinality(A) \in Nat
      BY <3>2, Proper, FS_EmptySet
    <3> QED
      BY <3>1, <3>3
  <2> QED
    BY <2>1, <2>2
<1>4. ASSUME NEW n \in Nat, Tight(fs, s[n]) \/ Cardinality(I(n)) >= n + 1
      PROVE  Tight(fs, s[n + 1]) \/ Cardinality(I(n + 1)) >= n + 1 + 1
  <2>1. PICK x, y \in Nat : s[n] = <<x, y>>
    BY <1>1 DEF ClosureTurns
  <2>2. PICK l, h \in Nat :
          /\ Widened(fs, <<x, y>>) = <<l, h>> /\ l <= x /\ y <= h
          /\ \A f \in Inputs(fs, <<x, y>>) : l <= Smallest(f).k /\ Largest(f).k <= h
          /\ Tight(fs, <<x, y>>) => l = x /\ h = y
    BY WidenedIs
  <2>3. s[n + 1] = <<l, h>>
    <3>1. PICK m \in Nat : m = n + 1
      OBVIOUS
    <3>2. m # 0 /\ m - 1 = n
      BY <3>1
    <3>3. s[m] = Widened(fs, s[m - 1])
      BY <1>1, <3>2 DEF ClosureTurns
    <3> QED
      BY <2>1, <2>2, <3>1, <3>2, <3>3
  <2>4. CASE Tight(fs, s[n])
    BY <2>1, <2>2, <2>3, <2>4
  <2>5. CASE Cardinality(I(n)) >= n + 1 /\ I(n) = I(n + 1)
    BY <2>1, <2>2, <2>3, <2>5 DEF Tight
  <2>6. CASE Cardinality(I(n)) >= n + 1 /\ I(n) # I(n + 1)
    <3>1. PICK A, B : A = I(n) /\ B = I(n + 1)
      OBVIOUS
    <3>2. A \in SUBSET B
      BY <2>1, <2>2, <2>3, <3>1, InputsGrow
    <3>3. IsFiniteSet(B)
      BY <1>2, <3>1, FS_Subset
    <3>4. Cardinality(A) \in Nat /\ Cardinality(B) \in Nat
          /\ Cardinality(A) + 1 <= Cardinality(B)
      BY <2>6, <3>1, <3>2, <3>3, Proper
    <3>5. Cardinality(A) >= n + 1
      BY <2>6, <3>1
    <3>6. Cardinality(B) >= n + 1 + 1
      BY <3>4, <3>5
    <3> QED
      BY <3>1, <3>6
  <2> QED
    BY <1>4, <2>4, <2>5, <2>6
<1> HIDE DEF I
<1>5. Bad = {}
  <2> SUFFICES ASSUME Bad # {} PROVE FALSE
    OBVIOUS
  <2>1. PICK n \in Bad : \A j \in Bad : n <= j
    <3>1. Bad \in SUBSET Nat
      OBVIOUS
    <3> HIDE DEF Bad
    <3> QED
      BY <3>1, LeastOf
  <2>2. n \in Nat /\ n # 0
    BY <1>3, <2>1
  <2>3. PICK m \in Nat : n = m + 1 /\ m \notin Bad
    <3>1. n - 1 \in Nat /\ n = n - 1 + 1 /\ n - 1 \notin Bad
      BY <2>1, <2>2
    <3> QED
      BY <3>1
  <2> QED
    BY <1>4, <2>1, <2>3
<1>6. PICK N \in Nat : N = Cardinality(fs)
  BY FS_CardinalityType
<1>7. Tight(fs, s[N])
  <2>1. PICK A : A = I(N)
    OBVIOUS
  <2>2. Cardinality(A) \in Nat /\ Cardinality(A) <= N
    BY <1>2, <1>6, <2>1, Proper
  <2> QED
    BY <1>5, <2>1, <2>2
<1> QED
  BY <1>1, <1>6, <1>7 DEF ClosureTurns

(* The last entry of some tables.                                          *)
LEMMA TopIs ==
  ASSUME NEW fs \in SUBSET ATable, IsFiniteSet(fs), fs # {}
  PROVE  /\ GetRange(fs).hi \in Entries(fs) /\ GetRange(fs).hi \in AnEntry
         /\ \A x \in Entries(fs) : ~Less(GetRange(fs).hi, x)
<1>1. PICK E : E = Entries(fs)
  OBVIOUS
<1>2. E \in SUBSET AnEntry /\ IsFiniteSet(E) /\ E # {}
  BY <1>1, EntriesOf
<1>3. GetRange(fs).hi = CHOOSE e \in E : \A x \in E : ~Less(e, x)
  BY <1>1 DEF GetRange
<1>4. \E e \in E : \A x \in E : ~Less(e, x)
  BY <1>2, Extremes
<1> QED
  BY <1>1, <1>2, <1>3, <1>4

LEMMA InEntries ==
  ASSUME NEW fs \in SUBSET ATable
  PROVE  /\ \A f \in fs : Smallest(f) \in Entries(fs) /\ Largest(f) \in Entries(fs)
         /\ \A e \in Entries(fs) : \E f \in fs : e \in Range(f.data)
         /\ \A f \in fs : Range(f.data) \subseteq Entries(fs)
         /\ Entries(fs) \subseteq AnEntry
BY TableFacts DEF Entries

LEMMA EntryFields ==
  \A a \in AnEntry : /\ a.k \in Keys /\ a.k \in Nat /\ a.s \in Nat
                     /\ a.t \in {0, 1} /\ a.t \in Nat
<1>1. MaxSeq \in Nat
  BY SizesAssumption
<1>2. \A a \in AnEntry : a.k \in Keys /\ a.s \in 1 .. MaxSeq /\ a.t \in {0, 1}
  BY DEF AnEntry, Value, Deletion
<1>3. \A n \in 1 .. MaxSeq : n \in Nat
  BY <1>1
<1>4. (\A k \in Keys : k \in Nat) /\ \A t \in {0, 1} : t \in Nat
  BY KeysAssumption
<1> QED
  BY <1>2, <1>3, <1>4

(* Within a key, the order is from the newest to the oldest.               *)
LEMMA WithinKey ==
  ASSUME NEW a \in AnEntry, NEW b \in AnEntry, a.k = b.k
  PROVE  /\ Less(a, b) => a.s >= b.s
         /\ a.s > b.s => Less(a, b)
         /\ a.s \in Nat /\ b.s \in Nat /\ a.t \in {0, 1} /\ b.t \in {0, 1}
<1>1. /\ a.s \in Nat /\ b.s \in Nat /\ a.t \in {0, 1} /\ b.t \in {0, 1}
      /\ a.k \in Nat /\ b.k \in Nat
  BY EntryFields
<1> QED
  BY <1>1 DEF Less

(* The loop that adds boundary tables stops for want of another one.       *)
LEMMA BoundaryEnds ==
  ASSUME NEW level \in SUBSET ATable, IsFiniteSet(level),
         NEW fs \in SUBSET level, fs # {}
  PROVE  Continuing(level, GetRange(AddBoundaryInputs(level, fs)).hi) = {}
<1>1. PICK s : BoundaryTurns(level, fs, s)
  BY BoundaryLoop
<1> DEFINE C(n) == Continuing(level, GetRange(s[n]).hi)
           Bad == {n \in Nat : ~(C(n) = {} \/ Cardinality(s[n]) >= n + 1)}
<1>2. \A n \in Nat : s[n] \in SUBSET level /\ IsFiniteSet(s[n]) /\ s[n] # {}
  BY <1>1, FS_Subset DEF BoundaryTurns
<1>3. Cardinality(s[0]) >= 0 + 1
  <2>1. PICK A : A = s[0]
    OBVIOUS
  <2>2. {} \in SUBSET A /\ A # {} /\ IsFiniteSet(A)
    BY <1>2, <2>1
  <2>3. Cardinality({}) + 1 <= Cardinality(A) /\ Cardinality({}) = 0
        /\ Cardinality(A) \in Nat
    BY <2>2, Proper, FS_EmptySet
  <2> QED
    BY <2>1, <2>3
<1>4. ASSUME NEW n \in Nat, C(n) = {} \/ Cardinality(s[n]) >= n + 1
      PROVE  C(n + 1) = {} \/ Cardinality(s[n + 1]) >= n + 1 + 1
  <2>1. s[n + 1] = s[n] \cup FindSmallestBoundaryFile(level, GetRange(s[n]).hi)
    BY <1>1 DEF BoundaryTurns
  <2>2. CASE C(n) = {}
    <3>1. s[n + 1] = s[n]
      BY <2>1, <2>2 DEF FindSmallestBoundaryFile
    <3> QED
      BY <2>2, <3>1
  <2>3. CASE C(n) # {} /\ Cardinality(s[n]) >= n + 1
    <3>1. PICK A, B, D, hi : A = s[n] /\ B = s[n + 1] /\ D = C(n)
                             /\ hi = GetRange(s[n]).hi
      OBVIOUS
    <3>2. A \in SUBSET B /\ IsFiniteSet(B) /\ A \in SUBSET ATable
          /\ IsFiniteSet(A) /\ A # {}
      <4>1. n + 1 \in Nat
        OBVIOUS
      <4> QED
        BY <1>2, <2>1, <3>1, <4>1
    <3>3. D \in SUBSET ATable /\ IsFiniteSet(D) /\ D # {}
      BY <2>3, <3>1, FS_Subset DEF Continuing
    <3>4. PICK f \in D : \A g \in D : ~Less(Smallest(g), Smallest(f))
      <4>1. PICK E : E = Entries(D)
        OBVIOUS
      <4>2. E \in SUBSET AnEntry /\ IsFiniteSet(E) /\ E # {}
        BY <3>3, <4>1, EntriesOf
      <4>3. PICK e \in E : \A x \in E : ~Less(x, e)
        BY <4>2, Extremes
      <4>4. PICK f \in D : e \in Range(f.data)
        BY <3>3, <4>1, <4>3, InEntries
      <4>5. e = Smallest(f)
        BY <3>3, <4>1, <4>3, <4>4, InEntries, TableFacts
      <4> QED
        BY <3>3, <4>1, <4>3, <4>4, <4>5, InEntries
    <3>5. f \in B
      BY <2>1, <3>1, <3>4 DEF FindSmallestBoundaryFile
    <3>6. f \notin A
      <4>1. Less(hi, Smallest(f)) /\ f \in ATable
        BY <3>1, <3>3, <3>4 DEF Continuing
      <4>2. \A x \in Entries(A) : ~Less(hi, x)
        BY <3>1, <3>2, TopIs
      <4>3. f \in A => Smallest(f) \in Entries(A)
        BY <3>2, InEntries
      <4> QED
        BY <4>1, <4>2, <4>3
    <3>7. Cardinality(A) \in Nat /\ Cardinality(B) \in Nat
          /\ Cardinality(A) + 1 <= Cardinality(B)
      BY <3>2, <3>5, <3>6, Proper
    <3>8. Cardinality(A) >= n + 1
      BY <2>3, <3>1
    <3>9. Cardinality(B) >= n + 1 + 1
      BY <3>7, <3>8
    <3> QED
      BY <3>1, <3>9
  <2> QED
    BY <1>4, <2>2, <2>3
<1> HIDE DEF C
<1>5. Bad = {}
  <2> SUFFICES ASSUME Bad # {} PROVE FALSE
    OBVIOUS
  <2>1. PICK n \in Bad : \A j \in Bad : n <= j
    <3>1. Bad \in SUBSET Nat
      OBVIOUS
    <3> HIDE DEF Bad
    <3> QED
      BY <3>1, LeastOf
  <2>2. n \in Nat /\ n # 0
    BY <1>3, <2>1
  <2>3. PICK m \in Nat : n = m + 1 /\ m \notin Bad
    <3>1. n - 1 \in Nat /\ n = n - 1 + 1 /\ n - 1 \notin Bad
      BY <2>1, <2>2
    <3> QED
      BY <3>1
  <2> QED
    BY <1>4, <2>1, <2>3
<1>6. PICK N \in Nat : N = Cardinality(level)
  BY FS_CardinalityType
<1>7. C(N) = {}
  <2>1. PICK A : A = s[N]
    OBVIOUS
  <2>2. Cardinality(A) \in Nat /\ Cardinality(A) <= N
    BY <1>2, <1>6, <2>1, Proper
  <2> QED
    BY <1>5, <2>1, <2>2
<1> QED
  BY <1>1, <1>6, <1>7 DEF BoundaryTurns, C

(* Tables of a level with none left out between two of them.               *)
Convex(level, fs) ==
  \A f, h \in fs, g \in level :
    Less(Smallest(f), Smallest(g)) /\ Less(Smallest(g), Smallest(h)) => g \in fs
Spread(level) == \A f, g \in level : f = g \/ Apart(f, g)

LEMMA ApartOrder ==
  ASSUME NEW f \in ATable, NEW g \in ATable, Apart(f, g)
  PROVE  /\ Less(Smallest(f), Smallest(g)) =>
              /\ Less(Largest(f), Smallest(g))
              /\ \A e \in Range(f.data) : Less(e, Smallest(g))
         /\ Less(Smallest(f), Smallest(g)) \/ Less(Smallest(g), Smallest(f))
<1>1. /\ Smallest(f) \in AnEntry /\ Largest(f) \in AnEntry
      /\ Smallest(g) \in AnEntry /\ Largest(g) \in AnEntry
      /\ Smallest(f) = Largest(f) \/ Less(Smallest(f), Largest(f))
      /\ Smallest(g) = Largest(g) \/ Less(Smallest(g), Largest(g))
      /\ Range(f.data) \subseteq AnEntry
      /\ \A e \in Range(f.data) : e = Largest(f) \/ Less(e, Largest(f))
  BY TableFacts
<1> QED
  BY <1>1, LessOrder DEF Apart

LEMMA ConvexMore ==
  ASSUME NEW M \in SUBSET ATable, IsFiniteSet(M), Spread(M), NEW v \in SUBSET M,
         v # {}, Convex(M, v)
  PROVE  Convex(M, v \cup FindSmallestBoundaryFile(M, GetRange(v).hi))
<1>1. PICK hi, new : hi = GetRange(v).hi /\ new = FindSmallestBoundaryFile(M, hi)
  OBVIOUS
<1>2. IsFiniteSet(v) /\ v \in SUBSET ATable
  BY FS_Subset
<1>3. hi \in Entries(v) /\ hi \in AnEntry /\ \A x \in Entries(v) : ~Less(hi, x)
  BY <1>1, <1>2, TopIs
<1>4. PICK t \in v : hi \in Range(t.data)
  BY <1>2, <1>3, InEntries
<1>5. \A h \in new : /\ h \in M /\ Less(hi, Smallest(h)) /\ Smallest(h).k = hi.k
                     /\ \A g \in Continuing(M, hi) : ~Less(Smallest(g), Smallest(h))
  BY <1>1 DEF FindSmallestBoundaryFile, Continuing
<1>6. \A g \in M : Smallest(g) \in AnEntry
  BY TableFacts
<1>7. \A h \in v : ~Less(hi, Smallest(h))
  BY <1>2, <1>3, InEntries
<1>8. hi = Smallest(t) \/ Less(Smallest(t), hi)
  BY <1>2, <1>4, TableFacts
<1> SUFFICES ASSUME NEW f \in v \cup new, NEW h \in v \cup new, NEW g \in M,
                    Less(Smallest(f), Smallest(g)), Less(Smallest(g), Smallest(h)),
                    g \notin v
             PROVE  g \in new
  BY <1>1 DEF Convex
<1>9. f \in M /\ h \in M
  BY <1>5
<1>10. g # t /\ Apart(t, g) /\ t \in ATable /\ g \in ATable
  BY <1>2, <1>4 DEF Spread
<1>11. CASE Less(Smallest(g), Smallest(t))
  <2>1. CASE f \in v
    BY <1>4, <1>11, <2>1 DEF Convex
  <2>2. CASE f \in new
    BY <1>3, <1>5, <1>6, <1>8, <1>9, <1>10, <1>11, <2>2, LessOrder
  <2> QED
    BY <2>1, <2>2
<1>12. CASE Less(Smallest(t), Smallest(g))
  <2>1. Less(hi, Smallest(g))
    BY <1>4, <1>10, <1>12, ApartOrder
  <2>2. CASE h \in v
    BY <1>3, <1>6, <1>7, <1>9, <1>10, <2>1, <2>2, LessOrder
  <2>3. CASE h \in new
    <3>1. Smallest(h).k = hi.k /\ Smallest(h) \in AnEntry /\ Smallest(g) \in AnEntry
      BY <1>5, <1>6, <1>9, <2>3
    <3>2. hi.k <= Smallest(g).k /\ Smallest(g).k <= Smallest(h).k
      BY <1>3, <2>1, <3>1, LessOrder
    <3>3. Smallest(g).k = hi.k
      BY <1>3, <3>1, <3>2, EntryFields
    <3>4. g \in Continuing(M, hi)
      BY <2>1, <3>3 DEF Continuing
    <3> QED
      BY <1>5, <2>3, <3>4
  <2> QED
    BY <2>2, <2>3
<1> QED
  BY <1>10, <1>11, <1>12, ApartOrder

LEMMA BoundaryConvex ==
  ASSUME NEW M \in SUBSET ATable, IsFiniteSet(M), Spread(M),
         NEW fs \in SUBSET M, fs # {}, Convex(M, fs)
  PROVE  Convex(M, AddBoundaryInputs(M, fs))
<1>1. PICK s : BoundaryTurns(M, fs, s)
  BY BoundaryLoop
<1> DEFINE Bad == {n \in Nat : ~Convex(M, s[n])}
<1>2. \A n \in Nat : s[n] \in SUBSET M /\ s[n] # {}
  BY <1>1 DEF BoundaryTurns
<1>3. Convex(M, s[0])
  BY <1>1 DEF BoundaryTurns
<1>4. ASSUME NEW n \in Nat, Convex(M, s[n]) PROVE Convex(M, s[n + 1])
  <2>1. s[n + 1] = s[n] \cup FindSmallestBoundaryFile(M, GetRange(s[n]).hi)
    BY <1>1 DEF BoundaryTurns
  <2>2. PICK v : v = s[n]
    OBVIOUS
  <2>3. v \in SUBSET M /\ v # {} /\ Convex(M, v)
    BY <1>2, <1>4, <2>2
  <2>4. Convex(M, v \cup FindSmallestBoundaryFile(M, GetRange(v).hi))
    BY <2>3, ConvexMore
  <2> QED
    BY <2>1, <2>2, <2>4
<1>5. Bad = {}
  <2> SUFFICES ASSUME Bad # {} PROVE FALSE
    OBVIOUS
  <2>1. PICK n \in Bad : \A j \in Bad : n <= j
    <3>1. Bad \in SUBSET Nat
      OBVIOUS
    <3> HIDE DEF Bad
    <3> QED
      BY <3>1, LeastOf
  <2>2. n \in Nat /\ n # 0
    BY <1>3, <2>1
  <2>3. PICK m \in Nat : n = m + 1 /\ m \notin Bad
    <3>1. n - 1 \in Nat /\ n = n - 1 + 1 /\ n - 1 \notin Bad
      BY <2>1, <2>2
    <3> QED
      BY <3>1
  <2> QED
    BY <1>4, <2>1, <2>3
<1>6. Cardinality(M) \in Nat
  BY FS_CardinalityType
<1> QED
  BY <1>1, <1>5, <1>6 DEF BoundaryTurns

(* Below level 0: tables with none left out between, or after in the same  *)
(* key, have nothing older left beside them.                               *)
LEMMA RestIsNewer ==
  ASSUME NEW M \in SUBSET ATable, Spread(M), NEW v \in SUBSET M, v # {},
         IsFiniteSet(v), Convex(M, v), Continuing(M, GetRange(v).hi) = {},
         \A e, x \in Entries(M) : e.s = x.s => e = x
  PROVE  Newer(Entries(M \ v), Entries(v))
<1> SUFFICES ASSUME NEW x \in Entries(M \ v), NEW e \in Entries(v), x.k = e.k
             PROVE  x.s > e.s
  BY DEF Newer
<1>1. v \in SUBSET ATable /\ M \ v \in SUBSET ATable
  OBVIOUS
<1>2. PICK f \in v, g \in M \ v : e \in Range(f.data) /\ x \in Range(g.data)
  BY <1>1, InEntries
<1>3. /\ f \in ATable /\ g \in ATable /\ Apart(f, g) /\ x \in AnEntry /\ e \in AnEntry
      /\ x \in Entries(M) /\ e \in Entries(M)
  BY <1>1, <1>2, InEntries, TableFacts DEF Spread
<1>4. CASE Less(Largest(g), Smallest(f))
  <2>1. Less(x, Smallest(f))
    BY <1>2, <1>3, <1>4, PastTable, TableFacts
  <2>2. Less(x, e)
    BY <1>2, <1>3, <2>1, PastTable
  <2>3. x.s >= e.s /\ x # e
    BY <1>3, <2>2, WithinKey, LessOrder
  <2> QED
    BY <1>3, <2>3, EntryFields
<1>5. CASE Less(Largest(f), Smallest(g))
  <2>1. PICK hi : hi = GetRange(v).hi
    OBVIOUS
  <2>2. hi \in Entries(v) /\ hi \in AnEntry /\ \A y \in Entries(v) : ~Less(hi, y)
    BY <1>1, <2>1, TopIs
  <2>3. PICK t \in v : hi \in Range(t.data)
    BY <1>1, <2>2, InEntries
  <2>4. /\ t \in ATable /\ Apart(t, g) /\ Smallest(t) \in AnEntry
        /\ Largest(t) \in AnEntry /\ Largest(f) \in AnEntry
        /\ Smallest(g) \in AnEntry /\ Smallest(f) \in AnEntry
    BY <1>1, <1>2, <1>3, <2>3, TableFacts DEF Spread
  <2>5. ~Less(hi, Largest(f))
    BY <1>1, <2>2, InEntries
  <2>6. Less(Smallest(f), Smallest(g))
    BY <1>3, <1>5, <2>4, TableFacts, LessOrder
  <2>7. CASE Less(Smallest(g), Smallest(t))
    BY <1>2, <2>3, <2>6, <2>7 DEF Convex
  <2>8. CASE Less(Smallest(t), Smallest(g))
    <3>1. Less(hi, Smallest(g))
      BY <1>3, <2>3, <2>4, <2>8, ApartOrder
    <3>2. e.k <= Largest(f).k /\ Smallest(g).k <= x.k
      <4>1. e = Largest(f) \/ Less(e, Largest(f))
        BY <1>2, <1>3, TableFacts
      <4>2. x = Smallest(g) \/ Less(Smallest(g), x)
        BY <1>2, <1>3, TableFacts
      <4> QED
        BY <1>3, <2>4, <4>1, <4>2, LessOrder, EntryFields
    <3>3. Largest(f).k <= hi.k /\ hi.k <= Smallest(g).k
      <4>1. hi = Largest(f) \/ Less(Largest(f), hi)
        BY <2>2, <2>4, <2>5, LessOrder
      <4> QED
        BY <2>2, <2>4, <3>1, <4>1, LessOrder, EntryFields
    <3>4. hi.k = Smallest(g).k
      BY <1>3, <2>2, <2>4, <3>2, <3>3, EntryFields
    <3>5. g \in Continuing(M, hi)
      BY <1>2, <3>1, <3>4 DEF Continuing
    <3> QED
      BY <2>1, <3>5
  <2> QED
    BY <1>3, <2>4, <2>7, <2>8, ApartOrder
<1> QED
  BY <1>3, <1>4, <1>5 DEF Apart

LEMMA CoversOwn ==
  ASSUME NEW t \in ATable, NEW y \in Range(t.data)
  PROVE  Covers(t, y.k)
<1>1. /\ y \in AnEntry /\ Smallest(t) \in AnEntry /\ Largest(t) \in AnEntry
      /\ y = Smallest(t) \/ Less(Smallest(t), y)
      /\ y = Largest(t) \/ Less(y, Largest(t))
  BY TableFacts
<1> QED
  BY <1>1, LessOrder, EntryFields DEF Covers

(* At level 0: tables with which no other one shares a key.                *)
Closed(level, fs) ==
  \A e \in Entries(fs), g \in level : \A x \in Range(g.data) :
    x.k = e.k => g \in fs

LEMMA ClosedIs ==
  ASSUME NEW M \in SUBSET ATable, IsFiniteSet(M), NEW lo \in Nat, NEW hi \in Nat
  PROVE  Closed(M, Inputs(M, Closure(M, lo, hi)))
<1>1. PICK l, h \in Nat : Closure(M, lo, hi) = <<l, h>> /\ l <= lo /\ hi <= h
  BY ClosureIs
<1>2. PICK v : v = Inputs(M, <<l, h>>)
  OBVIOUS
<1>3. \A f \in v : l <= Smallest(f).k /\ Largest(f).k <= h
  <2>1. Tight(M, <<l, h>>)
    BY <1>1, ClosureTight
  <2> QED
    BY <1>2, <2>1 DEF Tight
<1> SUFFICES ASSUME NEW e \in Entries(v), NEW g \in M, NEW x \in Range(g.data),
                    x.k = e.k
             PROVE  g \in v
  BY <1>1, <1>2 DEF Closed
<1>4. v \in SUBSET ATable
  BY <1>2 DEF Inputs
<1>5. PICK f \in v : e \in Range(f.data)
  BY <1>4, InEntries
<1>6. Covers(f, e.k) /\ Covers(g, x.k)
  BY <1>4, <1>5, CoversOwn
<1>7. /\ Smallest(f).k \in Nat /\ Largest(f).k \in Nat
      /\ Smallest(g).k \in Nat /\ Largest(g).k \in Nat
  BY <1>4, <1>5, TableKeys
<1>8. e.k \in Nat
  BY <1>4, InEntries, EntryFields
<1>9. ~(Largest(g).k < l) /\ ~(Smallest(g).k > h)
  BY <1>3, <1>5, <1>6, <1>7, <1>8 DEF Covers
<1> QED
  BY <1>2, <1>9 DEF Inputs, Touches

LEMMA ClosedStays ==
  ASSUME NEW M \in SUBSET ATable, IsFiniteSet(M), NEW fs \in SUBSET M, fs # {},
         Closed(M, fs)
  PROVE  AddBoundaryInputs(M, fs) = fs
<1>1. PICK s : BoundaryTurns(M, fs, s)
  BY BoundaryLoop
<1> DEFINE Bad == {n \in Nat : s[n] # fs}
<1>2. fs \cup FindSmallestBoundaryFile(M, GetRange(fs).hi) = fs
  <2>1. GetRange(fs).hi \in Entries(fs)
    BY FS_Subset, TopIs
  <2>2. ASSUME NEW h \in M, Smallest(h).k = GetRange(fs).hi.k PROVE h \in fs
    <3>1. Smallest(h) \in Range(h.data)
      BY TableFacts
    <3> QED
      BY <2>1, <2>2, <3>1 DEF Closed
  <2> QED
    BY <2>2 DEF FindSmallestBoundaryFile, Continuing
<1>3. s[0] = fs
  BY <1>1 DEF BoundaryTurns
<1>4. ASSUME NEW n \in Nat, s[n] = fs PROVE s[n + 1] = fs
  BY <1>1, <1>2, <1>4 DEF BoundaryTurns
<1>5. Bad = {}
  <2> SUFFICES ASSUME Bad # {} PROVE FALSE
    OBVIOUS
  <2>1. PICK n \in Bad : \A j \in Bad : n <= j
    <3>1. Bad \in SUBSET Nat
      OBVIOUS
    <3> HIDE DEF Bad
    <3> QED
      BY <3>1, LeastOf
  <2>2. n \in Nat /\ n # 0
    BY <1>3, <2>1
  <2>3. PICK m \in Nat : n = m + 1 /\ m \notin Bad
    <3>1. n - 1 \in Nat /\ n = n - 1 + 1 /\ n - 1 \notin Bad
      BY <2>1, <2>2
    <3> QED
      BY <3>1
  <2> QED
    BY <1>4, <2>1, <2>3
<1>6. Cardinality(M) \in Nat
  BY FS_CardinalityType
<1> QED
  BY <1>1, <1>5, <1>6 DEF BoundaryTurns

LEMMA ClosedNewer ==
  ASSUME NEW M \in SUBSET ATable, NEW fs \in SUBSET M, Closed(M, fs)
  PROVE  Newer(Entries(M \ fs), Entries(fs))
<1> SUFFICES ASSUME NEW x \in Entries(M \ fs), NEW e \in Entries(fs), x.k = e.k
             PROVE  FALSE
  BY DEF Newer
<1>1. PICK g \in M \ fs : x \in Range(g.data)
  BY DEF Entries
<1> QED
  BY <1>1 DEF Closed

(* The tables that overlap a range of keys are such tables.                *)
Whole(l, fs) ==
  IF l = 0 THEN Closed(Range(files[l]), fs) ELSE Convex(Range(files[l]), fs)

LEMMA OverlapWhole ==
  ASSUME LevelInv, ApartInv, NEW l \in Levels, NEW lo \in Nat, NEW hi \in Nat
  PROVE  Whole(l, GetOverlappingInputs(files, l, lo, hi))
<1>1. PICK M : M = Range(files[l])
  OBVIOUS
<1>2. M \in SUBSET ATable /\ IsFiniteSet(M)
  BY <1>1, LevelFacts
<1>3. CASE l = 0
  <2>1. Closed(M, Inputs(M, Closure(M, lo, hi)))
    BY <1>2, ClosedIs
  <2> QED
    BY <1>1, <1>3, <2>1 DEF Whole, GetOverlappingInputs
<1>4. CASE l # 0
  <2>1. PICK v : v = Inputs(M, <<lo, hi>>)
    OBVIOUS
  <2>2. Convex(M, v)
    <3> SUFFICES ASSUME NEW f \in v, NEW h \in v, NEW g \in M,
                        Less(Smallest(f), Smallest(g)),
                        Less(Smallest(g), Smallest(h))
                 PROVE  g \in v
      BY DEF Convex
    <3>1. /\ f \in M /\ h \in M /\ ~(Largest(f).k < lo) /\ ~(Smallest(h).k > hi)
      BY <2>1 DEF Inputs, Touches
    <3>2. /\ f \in ATable /\ g \in ATable /\ h \in ATable
      BY <1>2, <3>1
    <3>3. f # g /\ Apart(f, g)
      <4>1. f = g \/ Apart(f, g)
        BY <1>1, <1>4, <3>1 DEF ApartInv
      <4>2. f # g
        BY <3>2, TableFacts, LessOrder
      <4> QED
        BY <4>1, <4>2
    <3>4. Less(Largest(f), Smallest(g))
      BY <3>2, <3>3, ApartOrder
    <3>5. Largest(f).k <= Smallest(g).k /\ Smallest(g).k <= Smallest(h).k
      BY <3>2, <3>4, TableFacts, LessOrder
    <3>6. /\ Largest(f).k \in Nat /\ Smallest(g).k \in Nat /\ Largest(g).k \in Nat
          /\ Smallest(h).k \in Nat /\ Smallest(g).k <= Largest(g).k
      BY <3>2, TableKeys
    <3>7. ~(Largest(g).k < lo) /\ ~(Smallest(g).k > hi)
      BY <3>1, <3>5, <3>6
    <3> QED
      BY <2>1, <3>7 DEF Inputs, Touches
  <2> QED
    BY <1>1, <1>4, <2>1, <2>2 DEF Whole, GetOverlappingInputs
<1> QED
  BY <1>3, <1>4

LEMMA BoundaryRest ==
  ASSUME LevelInv, ApartInv, NEW l \in Levels, NEW fs \in SUBSET Range(files[l]),
         fs # {}, Whole(l, fs),
         \A e, x \in Entries(Range(files[l])) : e.s = x.s => e = x,
         NEW a, a = AddBoundaryInputs(Range(files[l]), fs)
  PROVE  Newer(Entries(Range(files[l]) \ a), Entries(a))
<1>1. PICK M : M = Range(files[l])
  OBVIOUS
<1>2. M \in SUBSET ATable /\ IsFiniteSet(M) /\ fs \in SUBSET M
  BY <1>1, LevelFacts
<1>3. CASE l = 0
  <2>1. Closed(M, fs)
    BY <1>1, <1>3 DEF Whole
  <2>2. a = fs
    BY <1>1, <1>2, <2>1, ClosedStays
  <2> QED
    BY <1>1, <1>2, <2>1, <2>2, ClosedNewer
<1>4. CASE l # 0
  <2>1. Convex(M, fs) /\ Spread(M)
    BY <1>1, <1>4 DEF Whole, ApartInv, Spread
  <2>2. Convex(M, a) /\ Continuing(M, GetRange(a).hi) = {}
    BY <1>1, <1>2, <2>1, BoundaryConvex, BoundaryEnds
  <2>3. a \in SUBSET M /\ a # {}
    BY <1>1, <1>2, BoundaryIs
  <2>4. IsFiniteSet(a) /\ \A e, x \in Entries(M) : e.s = x.s => e = x
    BY <1>1, <1>2, <2>3, FS_Subset
  <2> QED
    BY <1>1, <1>2, <2>1, <2>2, <2>3, <2>4, RestIsNewer
<1> QED
  BY <1>3, <1>4

(* Tables overlap their own range.                                         *)
LEMMA OverlapsItself ==
  ASSUME LevelInv, NEW l \in Levels, NEW f \in Range(files[l]),
         NEW lo \in Nat, NEW hi \in Nat, lo <= Largest(f).k, Smallest(f).k <= hi
  PROVE  f \in GetOverlappingInputs(files, l, lo, hi)
<1>1. PICK M : M = Range(files[l])
  OBVIOUS
<1>2. M \in SUBSET ATable /\ IsFiniteSet(M) /\ f \in M
  BY <1>1, LevelFacts
<1>3. f \in Inputs(M, <<lo, hi>>)
  <2>1. Smallest(f).k \in Nat /\ Largest(f).k \in Nat
    BY <1>2, TableKeys
  <2> QED
    BY <1>2, <2>1 DEF Inputs, Touches
<1>4. CASE l = 0
  <2>1. PICK x, y \in Nat : Closure(M, lo, hi) = <<x, y>> /\ x <= lo /\ hi <= y
    BY <1>2, ClosureIs
  <2>2. Inputs(M, <<lo, hi>>) \subseteq Inputs(M, <<x, y>>)
    BY <1>2, <2>1, InputsGrow
  <2> QED
    BY <1>1, <1>3, <1>4, <2>1, <2>2 DEF GetOverlappingInputs
<1>5. CASE l # 0
  BY <1>1, <1>3, <1>5 DEF GetOverlappingInputs
<1> QED
  BY <1>4, <1>5

(* What a compaction leaves on its level is newer than what it takes.      *)
LEMMA CompactionRest ==
  ASSUME LevelInv, ApartInv, NEW l \in 0 .. (NumLevels - 2), NEW fs,
         fs \subseteq Range(files[l]), fs # {}, Whole(l, fs),
         \A e, x \in Entries(Range(files[l])) : e.s = x.s => e = x
  PROVE  /\ Newer(Entries(Range(files[l]) \ Compaction(l, fs).in0),
                  Entries(Compaction(l, fs).in0))
         /\ Compaction(l, fs).version = files
         /\ Compaction(l, fs).snapshot =
              IF snapshots = << >> THEN last ELSE snapshots[1]
<1>0. l \in Levels /\ l + 1 \in Levels /\ l + 1 # 0
  BY SizesAssumption DEF Levels
<1>1. PICK L : L = Range(files[l])
  OBVIOUS
<1>2. PICK M : M = Range(files[l + 1])
  OBVIOUS
<1>3. L \in SUBSET ATable /\ IsFiniteSet(L) /\ M \in SUBSET ATable /\ IsFiniteSet(M)
  BY <1>0, <1>1, <1>2, LevelFacts
<1> DEFINE OK(a) == Newer(Entries(L \ a), Entries(a))
<1>4. PICK in0 : in0 = AddBoundaryInputs(L, fs)
  OBVIOUS
<1>5. in0 \subseteq L /\ in0 # {} /\ IsFiniteSet(in0)
  BY <1>1, <1>3, <1>4, BoundaryIs, FS_Subset
<1>6. OK(in0)
  <2>1. fs \in SUBSET Range(files[l])
    OBVIOUS
  <2> QED
    BY <1>0, <1>1, <1>4, <2>1, BoundaryRest
<1>7. PICK in1 : in1 = Overlapping(files, l + 1, GetRange(in0))
  OBVIOUS
<1>8. in1 \subseteq M
  BY <1>2, <1>7 DEF Overlapping, GetOverlappingInputs, Inputs
<1>9. PICK ov : ov = Overlapping(files, l, GetRange(in0 \cup in1))
  OBVIOUS
<1>10. PICK exp0 : exp0 = AddBoundaryInputs(L, ov)
  OBVIOUS
<1>11. OK(exp0)
  <2>1. PICK both : both = in0 \cup in1
    OBVIOUS
  <2>2. both \in SUBSET ATable /\ IsFiniteSet(both) /\ both # {}
    <3>1. IsFiniteSet(in1)
      BY <1>3, <1>8, FS_Subset
    <3> QED
      BY <1>3, <1>5, <1>8, <2>1, <3>1, FS_Union
  <2>3. PICK lo, hi : lo = GetRange(both).lo.k /\ hi = GetRange(both).hi.k
    OBVIOUS
  <2>4. /\ \A e \in Entries(both) : e.k \in Nat /\ lo <= e.k /\ e.k <= hi
        /\ lo \in Nat /\ hi \in Nat
    BY <2>2, <2>3, GetRangeIs
  <2>5. ov = GetOverlappingInputs(files, l, lo, hi)
    BY <1>9, <2>1, <2>3 DEF Overlapping
  <2>6. PICK f \in in0 : TRUE
    BY <1>5
  <2>7. f \in both /\ f \in L
    BY <1>5, <2>1
  <2>8. Smallest(f) \in Entries(both) /\ Largest(f) \in Entries(both)
    BY <2>2, <2>7, InEntries
  <2>9. f \in ov
    BY <1>0, <1>1, <2>4, <2>5, <2>7, <2>8, OverlapsItself
  <2>10. ov \in SUBSET L
    BY <1>1, <2>5 DEF GetOverlappingInputs, Inputs
  <2>11. Whole(l, ov)
    BY <1>0, <2>4, <2>5, OverlapWhole
  <2> QED
    BY <1>0, <1>1, <1>10, <2>9, <2>10, <2>11, BoundaryRest
<1>12. PICK exp1 : exp1 = Overlapping(files, l + 1, GetRange(exp0))
  OBVIOUS
<1>13. SetupOtherInputs(l, fs) = Grown(l, in0, in1, exp0, exp1)
  BY <1>1, <1>4, <1>7, <1>9, <1>10, <1>12
     DEF SetupOtherInputs, WithNextLevel, ExpandInputs, Grow
<1>14. PICK a, b : SetupOtherInputs(l, fs) = <<a, b>> /\ OK(a)
  <2> HIDE DEF OK
  <2>1. \/ Grown(l, in0, in1, exp0, exp1) = <<in0, in1>>
        \/ Grown(l, in0, in1, exp0, exp1) = <<exp0, exp1>>
    BY DEF Grown
  <2> QED
    BY <1>6, <1>11, <1>13, <2>1
<1>15. PICK c : c = Compaction(l, fs)
  OBVIOUS
<1>16. PICK sn : sn = IF snapshots = << >> THEN last ELSE snapshots[1]
  OBVIOUS
<1>17. c.in0 = a /\ c.version = files /\ c.snapshot = sn
  BY <1>14, <1>15, <1>16 DEF Compaction, Paired, Choose, Chosen
<1> QED
  BY <1>1, <1>14, <1>15, <1>16, <1>17

-----------------------------------------------------------------------------
(* What a compaction starts from.                                          *)

(* Fractions compared by multiplying.                                      *)
LEMMA FractionsCompare ==
  ASSUME NEW a \in Nat, NEW b \in Nat, NEW c \in Nat,
         NEW x \in Nat \ {0}, NEW y \in Nat \ {0}, NEW z \in Nat \ {0},
         a * y > b * x, b * z >= c * y
  PROVE  a * z > c * x
OBVIOUS

(* Of finitely many fractions, the first of the highest ones.              *)
LEMMA HighestExists ==
  ASSUME NEW N \in Nat, NEW p \in [0 .. N -> Nat],
         NEW q \in [0 .. N -> Nat \ {0}]
  PROVE  \E l \in 0 .. N : \A m \in 0 .. N :
           /\ ~(p[m] * q[l] > p[l] * q[m])
           /\ m < l => p[l] * q[m] > p[m] * q[l]
<1> DEFINE Best(l, n) == \A m \in 0 .. n : /\ ~(p[m] * q[l] > p[l] * q[m])
                                           /\ m < l => p[l] * q[m] > p[m] * q[l]
           P(n) == \E l \in 0 .. n : Best(l, n)
           Bad == {n \in Nat : n <= N /\ ~P(n)}
<1>0. \A m \in 0 .. N : p[m] \in Nat /\ q[m] \in Nat \ {0}
  OBVIOUS
<1>1. P(0)
  <2>1. \A m \in 0 .. 0 : m = 0
    OBVIOUS
  <2>2. p[0] \in Nat /\ q[0] \in Nat
    BY <1>0
  <2>3. ~(p[0] * q[0] > p[0] * q[0])
    BY <2>2
  <2> QED
    BY <2>1, <2>3
<1>2. ASSUME NEW n \in Nat, n + 1 <= N, P(n) PROVE P(n + 1)
  <2>1. PICK l \in 0 .. n : Best(l, n)
    BY <1>2
  <2>2. l \in 0 .. N /\ n + 1 \in 0 .. N /\ l \in 0 .. (n + 1)
    BY <1>2
  <2>3. \A m \in 0 .. (n + 1) : m \in 0 .. N /\ (m = n + 1 \/ m \in 0 .. n)
    BY <1>2
  <2>4. CASE p[n + 1] * q[l] > p[l] * q[n + 1]
    <3>1. ASSUME NEW m \in 0 .. n PROVE p[n + 1] * q[m] > p[m] * q[n + 1]
      <4>1. /\ p[m] \in Nat /\ p[l] \in Nat /\ p[n + 1] \in Nat
            /\ q[m] \in Nat \ {0} /\ q[l] \in Nat \ {0} /\ q[n + 1] \in Nat \ {0}
        BY <1>0, <2>2, <2>3
      <4>2. p[l] * q[m] >= p[m] * q[l]
        <5>1. ~(p[m] * q[l] > p[l] * q[m])
          BY <2>1
        <5>2. PICK a, b, c, d \in Nat : a = p[m] /\ b = q[l] /\ c = p[l] /\ d = q[m]
          BY <4>1
        <5>3. PICK x, y \in Nat : x = a * b /\ y = c * d
          OBVIOUS
        <5>4. ~(x > y)
          BY <5>1, <5>2, <5>3
        <5> QED
          BY <5>2, <5>3, <5>4
      <4> QED
        BY <2>4, <4>1, <4>2, FractionsCompare
    <3>2. ASSUME NEW m \in 0 .. (n + 1)
          PROVE  /\ ~(p[m] * q[n + 1] > p[n + 1] * q[m])
                 /\ m < n + 1 => p[n + 1] * q[m] > p[m] * q[n + 1]
      <4>1. CASE m = n + 1
        <5>1. p[m] \in Nat /\ q[m] \in Nat
          BY <1>0, <2>3
        <5> QED
          BY <4>1, <5>1
      <4>2. CASE m \in 0 .. n
        <5>1. /\ p[m] \in Nat /\ p[n + 1] \in Nat /\ q[m] \in Nat
              /\ q[n + 1] \in Nat
          BY <1>0, <2>2, <2>3
        <5>2. p[n + 1] * q[m] > p[m] * q[n + 1]
          BY <3>1, <4>2
        <5> QED
          BY <5>1, <5>2
      <4> QED
        BY <2>3, <4>1, <4>2
    <3>3. n + 1 \in 0 .. (n + 1)
      OBVIOUS
    <3> QED
      BY <3>2, <3>3
  <2>5. CASE ~(p[n + 1] * q[l] > p[l] * q[n + 1])
    <3>1. ~(n + 1 < l)
      OBVIOUS
    <3>2. Best(l, n + 1)
      BY <2>1, <2>3, <2>5, <3>1
    <3> QED
      BY <2>2, <3>2
  <2> QED
    BY <2>4, <2>5
<1> HIDE DEF P
<1>3. Bad = {}
  <2> SUFFICES ASSUME Bad # {} PROVE FALSE
    OBVIOUS
  <2>1. PICK n \in Bad : \A j \in Bad : n <= j
    <3>1. Bad \in SUBSET Nat
      OBVIOUS
    <3> HIDE DEF Bad
    <3> QED
      BY <3>1, LeastOf
  <2>2. n \in Nat /\ n <= N /\ ~P(n) /\ n # 0
    BY <1>1, <2>1
  <2>3. n - 1 \in Nat /\ n - 1 <= N /\ n - 1 \notin Bad /\ n - 1 + 1 = n
    BY <2>1, <2>2
  <2>4. P(n - 1)
    BY <2>3
  <2>5. P(n - 1 + 1)
    BY <1>2, <2>2, <2>3, <2>4
  <2> QED
    BY <2>2, <2>3, <2>5
<1>4. P(N)
  BY <1>3
<1> QED
  BY <1>4 DEF P

(* The score of a level is a fraction, and above zero only with tables.    *)
LEMMA ScoreIs ==
  ASSUME LevelInv, NEW l \in 0 .. (NumLevels - 2)
  PROVE  \E p \in Nat, q \in Nat \ {0} :
           Score(files, l) = <<p, q>> /\ (files[l] = << >> => p = 0)
<1>1. l \in Levels /\ l \in Nat
  BY SizesAssumption DEF Levels
<1>2. PICK R : R = Range(files[l])
  OBVIOUS
<1>3. R \subseteq ATable /\ IsFiniteSet(R) /\ Len(files[l]) \in Nat
  BY <1>1, <1>2, LevelFacts
<1>4. CASE l = 0
  <2>1. Score(files, l) = <<Len(files[l]), L0Trigger>> /\ L0Trigger \in Nat \ {0}
    BY <1>4, SizesAssumption DEF Score
  <2>2. files[l] = << >> => Len(files[l]) = 0
    OBVIOUS
  <2> QED
    BY <1>3, <2>1, <2>2
<1>5. CASE l # 0
  <2>1. PICK p, q : p = Cardinality(Entries(R)) /\ q = MaxBytesForLevel[l]
    OBVIOUS
  <2>2. p \in Nat /\ q \in Nat \ {0}
    BY <1>1, <1>3, <2>1, EntriesOf, LimitsPositive
  <2>3. Score(files, l) = <<p, q>>
    BY <1>2, <1>5, <2>1 DEF Score, TotalFileSize
  <2>4. files[l] = << >> => p = 0
    <3> SUFFICES ASSUME files[l] = << >> PROVE p = 0
      OBVIOUS
    <3>1. R = {}
      BY <1>2 DEF Range
    <3>2. Entries(R) = {}
      BY <3>1 DEF Entries
    <3> QED
      BY <2>1, <3>2, FS_EmptySet
  <2> QED
    BY <2>2, <2>3, <2>4
<1> QED
  BY <1>4, <1>5

LEMMA CompactionLevelIs ==
  ASSUME LevelInv, SizeCompaction
  PROVE  /\ CompactionLevel(files) \in 0 .. (NumLevels - 2)
         /\ files[CompactionLevel(files)] # << >>
<1> DEFINE N == NumLevels - 2
           p == [l \in 0 .. N |-> Score(files, l)[1]]
           q == [l \in 0 .. N |-> Score(files, l)[2]]
<1>0. N \in Nat
  BY SizesAssumption
<1>1. \A l \in 0 .. N : /\ p[l] = Score(files, l)[1] /\ q[l] = Score(files, l)[2]
                        /\ p[l] \in Nat /\ q[l] \in Nat \ {0}
                        /\ files[l] = << >> => p[l] = 0
  <2>1. ASSUME NEW l \in 0 .. N
        PROVE  /\ p[l] = Score(files, l)[1] /\ q[l] = Score(files, l)[2]
               /\ p[l] \in Nat /\ q[l] \in Nat \ {0}
               /\ files[l] = << >> => p[l] = 0
    <3>1. PICK a \in Nat, b \in Nat \ {0} :
            Score(files, l) = <<a, b>> /\ (files[l] = << >> => a = 0)
      BY ScoreIs
    <3> QED
      BY <3>1
  <2> QED
    BY <2>1
<1>2. p \in [0 .. N -> Nat] /\ q \in [0 .. N -> Nat \ {0}]
  BY <1>1
<1> HIDE DEF p, q
<1>3. \E l \in 0 .. N : \A m \in 0 .. N :
        /\ ~(p[m] * q[l] > p[l] * q[m])
        /\ m < l => p[l] * q[m] > p[m] * q[l]
  BY <1>0, <1>2, HighestExists
<1>4. \A l, m \in 0 .. N :
        Higher(Score(files, l), Score(files, m)) <=> p[l] * q[m] > p[m] * q[l]
  BY <1>1 DEF Higher
<1> DEFINE Best(l) == \A m \in 0 .. N :
             /\ ~Higher(Score(files, m), Score(files, l))
             /\ m < l => Higher(Score(files, l), Score(files, m))
<1>5. \E l \in 0 .. N : Best(l)
  BY <1>3, <1>4
<1>6. PICK l : l = CompactionLevel(files)
  OBVIOUS
<1>7. l = CHOOSE x \in 0 .. N : Best(x)
  BY <1>6 DEF CompactionLevel
<1>8. l \in 0 .. N /\ Best(l)
  BY <1>5, <1>7
<1>9. PICK m \in 0 .. N : AtLeastOne(Score(files, m))
  BY DEF SizeCompaction
<1>10. p[m] >= q[m] /\ ~(p[m] * q[l] > p[l] * q[m])
  BY <1>1, <1>4, <1>8, <1>9 DEF AtLeastOne
<1>11. p[l] # 0
  <2> SUFFICES ASSUME p[l] = 0 PROVE FALSE
    OBVIOUS
  <2>1. p[m] \in Nat \ {0} /\ q[m] \in Nat \ {0} /\ q[l] \in Nat \ {0}
    BY <1>1, <1>8, <1>10
  <2>2. p[m] * q[l] > 0 /\ 0 * q[m] = 0
    BY <2>1
  <2> QED
    BY <1>10, <2>2
<1> QED
  BY <1>1, <1>6, <1>8, <1>11

(* PickCompaction starts from a table of a level that has a next one.      *)
LEMMA CandidateIs ==
  ASSUME LevelInv, ChosenInv, NeedsCompaction
  PROVE  /\ Candidate.level \in 0 .. (NumLevels - 2)
         /\ Candidate.f \in Range(files[Candidate.level])
<1>1. CASE SizeCompaction
  <2>1. PICK l : l = CompactionLevel(files)
    OBVIOUS
  <2>2. l \in 0 .. (NumLevels - 2) /\ files[l] # << >>
    BY <1>1, <2>1, CompactionLevelIs
  <2>3. l \in Levels
    BY <2>2, SizesAssumption DEF Levels
  <2>4. /\ files[l] \in Seq(ATable) /\ Len(files[l]) \in Nat
        /\ DOMAIN files[l] = 1 .. Len(files[l])
    BY <2>3, LevelFacts
  <2>5. 1 \in DOMAIN files[l]
    BY <2>2, <2>4, EmptySeq
  <2>6. After(l) \in SUBSET Nat /\ After(l) \subseteq DOMAIN files[l]
    BY <2>4 DEF After
  <2>7. PICK i : i = IF After(l) = {} THEN 1 ELSE Min(After(l))
    OBVIOUS
  <2>8. i \in DOMAIN files[l]
    BY <2>5, <2>6, <2>7, MinIs
  <2>9. Candidate = [level |-> l, f |-> files[l][i]]
    BY <1>1, <2>1, <2>7 DEF Candidate, NextFile
  <2> QED
    BY <2>2, <2>8, <2>9 DEF Range
<1>2. CASE ~SizeCompaction
  BY <1>2 DEF Candidate, NeedsCompaction, ChosenInv
<1> QED
  BY <1>1, <1>2

LEMMA PickFrom ==
  ASSUME LevelInv, ApartInv, NEW c, c.level \in 0 .. (NumLevels - 2),
         c.f \in Range(files[c.level])
  PROVE  \E fs : /\ fs \subseteq Range(files[c.level]) /\ fs # {}
                 /\ Whole(c.level, fs)
                 /\ PickCompaction(c) = Compaction(c.level, fs)
<1>1. PICK l : l = c.level
  OBVIOUS
<1>2. l \in Levels
  BY <1>1, SizesAssumption DEF Levels
<1>3. PICK R : R = Range(files[l])
  OBVIOUS
<1>4. R \subseteq ATable /\ IsFiniteSet(R) /\ c.f \in R
  BY <1>1, <1>2, <1>3, LevelFacts
<1>5. PICK f, lo, hi : f = c.f /\ lo = Smallest(f).k /\ hi = Largest(f).k
  OBVIOUS
<1>6. lo \in Nat /\ hi \in Nat /\ lo <= hi
  BY <1>4, <1>5, TableKeys
<1>7. CASE l = 0
  <2>1. PICK fs : fs = GetOverlappingInputs(files, l, lo, hi)
    OBVIOUS
  <2>2. f \in fs
    BY <1>2, <1>3, <1>4, <1>5, <1>6, <2>1, OverlapsItself
  <2>3. Whole(l, fs)
    BY <1>2, <1>6, <2>1, OverlapWhole
  <2>4. fs \subseteq R
    BY <1>3, <2>1 DEF GetOverlappingInputs, Inputs
  <2>5. PickCompaction(c) = Compaction(c.level, fs)
    BY <1>1, <1>5, <1>7, <2>1 DEF PickCompaction
  <2> QED
    BY <1>1, <1>3, <2>2, <2>3, <2>4, <2>5
<1>8. CASE l # 0
  <2>1. PickCompaction(c) = Compaction(c.level, {f})
    BY <1>1, <1>5, <1>8 DEF PickCompaction
  <2>2. Convex(R, {f})
    <3>1. ASSUME NEW g \in R PROVE ~(Less(Smallest(f), Smallest(g))
                                     /\ Less(Smallest(g), Smallest(f)))
      BY <1>4, <1>5, TableFacts, LessOrder
    <3> QED
      BY <3>1 DEF Convex
  <2>3. Whole(c.level, {f})
    BY <1>1, <1>3, <1>8, <2>2 DEF Whole
  <2>4. {f} # {} /\ {f} \subseteq Range(files[c.level])
    BY <1>5
  <2> QED
    BY <2>1, <2>3, <2>4
<1> QED
  BY <1>7, <1>8

(* A manual compaction starts from tables of its level.                    *)
LEMMA RangeInputsIs ==
  ASSUME LevelInv, ApartInv, manual.level \in 0 .. (NumLevels - 2)
  PROVE  /\ RangeInputs \subseteq Range(files[manual.level])
         /\ manual.lo \in Nat /\ manual.hi \in Nat
              => Whole(manual.level, RangeInputs)
<1>1. PICK l : l = manual.level
  OBVIOUS
<1>2. l \in Levels
  BY <1>1, SizesAssumption DEF Levels
<1>3. PICK R : R = Range(files[l])
  OBVIOUS
<1>4. R \subseteq ATable /\ IsFiniteSet(R) /\ \A f, g \in R : f.num = g.num => f = g
  BY <1>2, <1>3, LevelFacts
<1>5. PICK fs : fs = GetOverlappingInputs(files, l, manual.lo, manual.hi)
  OBVIOUS
<1>6. fs \subseteq R
  BY <1>3, <1>5 DEF GetOverlappingInputs, Inputs
<1>7. RangeInputs = Enough(fs)
  BY <1>1, <1>5 DEF RangeInputs
<1> DEFINE Typed == manual.lo \in Nat /\ manual.hi \in Nat
<1>7a. Typed => Whole(l, fs)
  BY <1>2, <1>5, OverlapWhole
<1> HIDE DEF Typed
<1>8. CASE manual.level = 0 \/ TotalFileSize(fs) < FileSize
  <2>1. RangeInputs = fs
    BY <1>7, <1>8 DEF Enough
  <2> QED
    BY <1>1, <1>3, <1>6, <1>7a, <2>1 DEF Typed
<1>9. CASE ~(manual.level = 0 \/ TotalFileSize(fs) < FileSize)
  <2>1. PICK s : s = Sorted(fs, BySmallestKey)
    OBVIOUS
  <2>2. fs \in SUBSET ATable /\ IsFiniteSet(fs)
    BY <1>4, <1>6, FS_Subset
  <2>3. \A f, g \in fs : f.num = g.num => f = g
    BY <1>4, <1>6
  <2>4. s \in Seq(fs) /\ Range(s) = fs
    BY <2>1, <2>2, <2>3, SortedTables
  <2>5. Len(s) \in Nat /\ DOMAIN s = 1 .. Len(s)
    BY <2>4, LenProperties
  <2> DEFINE I == {i \in DOMAIN s : TotalFileSize(UpTo(s, i)) >= FileSize}
  <2>6. TotalFileSize(fs) \in Nat /\ FileSize \in Nat \ {0}
    BY <2>2, EntriesOf, SizesAssumption DEF TotalFileSize
  <2>7. UpTo(s, Len(s)) = fs
    BY <2>4, <2>5 DEF UpTo, Range
  <2>8. fs # {}
    <3> SUFFICES ASSUME fs = {} PROVE FALSE
      OBVIOUS
    <3>1. Entries(fs) = {}
      BY DEF Entries
    <3>2. TotalFileSize(fs) = 0
      BY <3>1, FS_EmptySet DEF TotalFileSize
    <3> QED
      BY <1>9, <2>6, <3>2
  <2>9. Len(s) \in DOMAIN s
    BY <2>4, <2>5, <2>8 DEF Range
  <2>10. Len(s) \in I
    BY <1>9, <2>6, <2>7, <2>9
  <2>11. I \in SUBSET Nat /\ I \subseteq DOMAIN s
    BY <2>5
  <2>12. Enough(fs) = UpTo(s, Min(I))
    BY <1>9, <2>1 DEF Enough, EnoughOf
  <2> HIDE DEF I
  <2>13. Min(I) \in DOMAIN s
    BY <2>10, <2>11, MinIs
  <2>14. \A i \in 1 .. Min(I) : s[i] \in fs
    <3>1. \A i \in 1 .. Min(I) : i \in DOMAIN s
      BY <2>5, <2>13
    <3> QED
      BY <2>4, <3>1 DEF Range
  <2>15. UpTo(s, Min(I)) \subseteq fs
    BY <2>14 DEF UpTo
  <2>16. PICK m : m = Min(I)
    OBVIOUS
  <2>17. Typed => Convex(R, UpTo(s, m))
    <3> SUFFICES ASSUME Typed, NEW f \in UpTo(s, m), NEW h \in UpTo(s, m),
                        NEW g \in R, Less(Smallest(f), Smallest(g)),
                        Less(Smallest(g), Smallest(h))
                 PROVE  g \in UpTo(s, m)
      BY DEF Convex
    <3>1. l # 0 /\ Convex(R, fs)
      BY <1>1, <1>3, <1>9, <1>7a DEF Whole
    <3>2. f \in fs /\ h \in fs
      BY <2>15, <2>16
    <3>3. g \in fs
      BY <3>1, <3>2 DEF Convex
    <3>4. PICK i \in DOMAIN s : s[i] = g
      BY <2>4, <3>3 DEF Range
    <3>5. PICK j \in 1 .. m : s[j] = h
      BY DEF UpTo
    <3>6. m \in Nat /\ j \in DOMAIN s /\ i \in Nat
      BY <2>5, <2>13, <2>16, <3>5
    <3>7. ~(j < i)
      <4> SUFFICES ASSUME j < i PROVE FALSE
        OBVIOUS
      <4>1. BySmallestKey(h, g)
        BY <2>1, <2>2, <2>3, <3>4, <3>5, <3>6, SortedTables
      <4>2. Smallest(h) \in AnEntry /\ Smallest(g) \in AnEntry
        BY <2>2, <3>2, <3>3, TableFacts
      <4> QED
        BY <4>1, <4>2, LessOrder DEF BySmallestKey
    <3>8. i \in 1 .. m
      BY <2>5, <3>4, <3>5, <3>6, <3>7
    <3> QED
      BY <3>4, <3>8 DEF UpTo
  <2>18. l # 0
    BY <1>1, <1>9
  <2>19. Typed => Whole(l, UpTo(s, m))
    BY <1>3, <2>17, <2>18 DEF Whole
  <2> QED
    BY <1>1, <1>3, <1>6, <1>7, <2>12, <2>15, <2>16, <2>19 DEF Typed
<1> QED
  BY <1>8, <1>9

-----------------------------------------------------------------------------
(* Searching a level.                                                      *)

(* Below level 0 a table ends before the next ones begin.                  *)
LEMMA InLevelOrder ==
  ASSUME LevelInv, ApartInv, NEW l \in Levels \ {0},
         NEW i \in DOMAIN files[l], NEW j \in DOMAIN files[l], i < j
  PROVE  Less(Largest(files[l][i]), Smallest(files[l][j]))
<1>1. PICK f, g : f = files[l][i] /\ g = files[l][j]
  OBVIOUS
<1>2. f \in Range(files[l]) /\ g \in Range(files[l])
  BY <1>1 DEF Range
<1>3. f \in ATable /\ g \in ATable
  BY <1>2, LevelFacts
<1>4. /\ Smallest(f) \in AnEntry /\ Largest(f) \in AnEntry
      /\ Smallest(g) \in AnEntry /\ Largest(g) \in AnEntry
      /\ f.num \in Nat /\ g.num \in Nat
      /\ Smallest(g) = Largest(g) \/ Less(Smallest(g), Largest(g))
  BY <1>3, TableFacts
<1>5. BySmallestKey(f, g)
  BY <1>1 DEF LevelInv
<1>6. f # g
  <2>1. f = g => ~BySmallestKey(f, g)
    BY <1>4, LessOrder DEF BySmallestKey
  <2> QED
    BY <1>5, <2>1
<1>7. ~Less(Largest(g), Smallest(f))
  <2>1. ~Less(Smallest(g), Smallest(f))
    BY <1>4, <1>5, LessOrder DEF BySmallestKey
  <2> QED
    BY <1>4, <2>1, LessOrder
<1>8. Apart(f, g)
  BY <1>2, <1>6 DEF ApartInv
<1> QED
  BY <1>1, <1>7, <1>8 DEF Apart

LEMMA BeforeKey ==
  ASSUME NEW k \in Nat, NEW s \in Nat, NEW a \in AnEntry, NEW b \in AnEntry,
         Less(a, b), Less(b, LookupKey(k, s))
  PROVE  Less(a, LookupKey(k, s))
<1>1. PICK c : c = LookupKey(k, s)
  OBVIOUS
<1>2. c.k = k /\ c.s = s /\ c.t = 1
  BY <1>1 DEF LookupKey, Entry, Value
<1>3. MaxSeq \in Nat
  BY SizesAssumption
<1>4. /\ a.k \in Nat /\ a.s \in 1 .. MaxSeq /\ a.t \in {0, 1}
      /\ b.k \in Nat /\ b.s \in 1 .. MaxSeq /\ b.t \in {0, 1}
  BY KeysAssumption DEF AnEntry, Value, Deletion
<1>5. a.s \in Nat /\ b.s \in Nat
  BY <1>3, <1>4
<1>6. Less(a, b) /\ Less(b, c)
  BY <1>1
<1>7. Less(a, c)
  BY <1>2, <1>4, <1>5, <1>6 DEF Less
<1> QED
  BY <1>1, <1>7

LEMMA SearchIs ==
  ASSUME LevelInv, ApartInv, NEW l \in Levels \ {0}, NEW k \in Nat, NEW s \in Nat
  PROVE  /\ FindFile(files[l], LookupKey(k, s)) \in 1 .. (Len(files[l]) + 1)
         /\ \A i \in DOMAIN files[l] :
              Less(Largest(files[l][i]), LookupKey(k, s))
                <=> i < FindFile(files[l], LookupKey(k, s))
<1>1. PICK fs : fs = files[l]
  OBVIOUS
<1>2. fs \in Seq(ATable) /\ Len(fs) \in Nat /\ DOMAIN fs = 1 .. Len(fs)
  BY <1>1, LevelFacts
<1>3. PICK key : key = LookupKey(k, s)
  OBVIOUS
<1>4. ASSUME NEW i \in DOMAIN fs, NEW j \in DOMAIN fs, i < j,
             Less(Largest(fs[j]), key)
      PROVE  Less(Largest(fs[i]), key)
  <2>1. Less(Largest(fs[i]), Smallest(fs[j]))
    BY <1>1, <1>4, InLevelOrder
  <2>2. fs[i] \in ATable /\ fs[j] \in ATable
    BY <1>2, ElementOfSeq
  <2>3. /\ Largest(fs[i]) \in AnEntry /\ Largest(fs[j]) \in AnEntry
        /\ Smallest(fs[j]) \in AnEntry
        /\ Smallest(fs[j]) = Largest(fs[j])
             \/ Less(Smallest(fs[j]), Largest(fs[j]))
    BY <2>2, TableFacts
  <2>4. Less(Largest(fs[i]), Largest(fs[j]))
    BY <2>1, <2>3, LessOrder
  <2> QED
    BY <1>3, <1>4, <2>3, <2>4, BeforeKey
<1>5. /\ FindFile(fs, key) \in 1 .. (Len(fs) + 1)
      /\ \A i \in DOMAIN fs : Less(Largest(fs[i]), key) <=> i < FindFile(fs, key)
  BY <1>2, <1>4, FindFileIs
<1> QED
  BY <1>1, <1>3, <1>5

(* A memtable goes to a level below 0 only if it is apart from all there.  *)
LEMMA NoOverlap ==
  ASSUME LevelInv, ApartInv, NEW l \in Levels \ {0}, NEW f \in ATable,
         ~OverlapInLevel(files, l, Smallest(f).k, Largest(f).k),
         NEW g \in Range(files[l])
  PROVE  /\ Apart(f, g)
         /\ Largest(g).k < Smallest(f).k \/ Largest(f).k < Smallest(g).k
<1>1. PICK lo, hi : lo = Smallest(f).k /\ hi = Largest(f).k
  OBVIOUS
<1>2. lo \in Nat /\ hi \in Nat /\ MaxSeq + 1 \in Nat /\ MaxSeq \in Nat
  BY <1>1, TableKeys, SizesAssumption
<1>3. PICK i : i = FindFile(files[l], LookupKey(lo, MaxSeq + 1))
  OBVIOUS
<1>4. /\ i \in 1 .. (Len(files[l]) + 1)
      /\ \A j \in DOMAIN files[l] :
           Less(Largest(files[l][j]), LookupKey(lo, MaxSeq + 1)) <=> j < i
  BY <1>2, <1>3, SearchIs
<1>5. i > Len(files[l]) \/ hi < Smallest(files[l][i]).k
  <2>1. l # 0 /\ Len(files[l]) \in Nat
    BY LevelFacts
  <2> QED
    BY <1>1, <1>3, <1>4, <2>1 DEF OverlapInLevel
<1>6. PICK j \in DOMAIN files[l] : g = files[l][j]
  BY DEF Range
<1>7. g \in ATable /\ Len(files[l]) \in Nat /\ DOMAIN files[l] = 1 .. Len(files[l])
  BY LevelFacts
<1>8. /\ Smallest(f) \in AnEntry /\ Largest(f) \in AnEntry
      /\ Smallest(g) \in AnEntry /\ Largest(g) \in AnEntry
  BY <1>7, TableFacts
<1>9. CASE j < i
  <2>1. PICK e : e = Largest(g)
    OBVIOUS
  <2>2. e.k \in Nat /\ e.s \in 1 .. MaxSeq /\ e.t \in {0, 1}
    BY <1>8, <2>1, KeysAssumption DEF AnEntry, Value, Deletion
  <2>3. PICK c : c = LookupKey(lo, MaxSeq + 1)
    OBVIOUS
  <2>4. c.k = lo /\ c.s = MaxSeq + 1 /\ c.t = 1
    BY <2>3 DEF LookupKey, Entry, Value
  <2>5. Less(e, c)
    BY <1>4, <1>6, <1>9, <2>1, <2>3
  <2>6. e.k < lo
    BY <1>2, <2>2, <2>4, <2>5 DEF Less
  <2>7. Less(Largest(g), Smallest(f))
    BY <1>1, <1>8, <2>1, <2>6, LessOrder
  <2> QED
    BY <1>1, <2>1, <2>6, <2>7 DEF Apart
<1>10. CASE ~(j < i)
  <2>1. i \in DOMAIN files[l] /\ (i = j \/ i < j) /\ ~(i > Len(files[l]))
    BY <1>4, <1>7, <1>10
  <2>2. PICK h : h = files[l][i]
    OBVIOUS
  <2>3. h \in ATable
    BY <2>1, <2>2, LevelFacts, ElementOfSeq
  <2>4. /\ Smallest(h) \in AnEntry /\ Largest(h) \in AnEntry
        /\ Smallest(h).k \in Nat
        /\ Smallest(h) = Largest(h) \/ Less(Smallest(h), Largest(h))
    BY <2>3, TableFacts, TableKeys
  <2>5. Less(Largest(f), Smallest(h)) /\ Largest(f).k < Smallest(h).k
    <3>1. Largest(f).k < Smallest(h).k
      BY <1>1, <1>5, <2>1, <2>2
    <3> QED
      BY <1>8, <2>4, <3>1, LessOrder
  <2>6. CASE i = j
    BY <1>6, <2>2, <2>5, <2>6 DEF Apart
  <2>7. CASE i < j
    <3>1. Less(Largest(h), Smallest(g))
      BY <1>6, <2>1, <2>2, <2>7, InLevelOrder
    <3>2. Less(Largest(f), Smallest(g))
      BY <1>8, <2>4, <2>5, <3>1, LessOrder
    <3>3. Smallest(h).k <= Smallest(g).k
      <4>1. Less(Smallest(h), Smallest(g))
        BY <1>8, <2>4, <3>1, LessOrder
      <4> QED
        BY <1>8, <2>4, <4>1, LessOrder
    <3>4. Largest(f).k \in Nat /\ Smallest(g).k \in Nat
      BY <1>7, TableKeys
    <3>5. Largest(f).k < Smallest(g).k
      BY <2>4, <2>5, <3>3, <3>4
    <3> QED
      BY <3>2, <3>5 DEF Apart
  <2> QED
    BY <2>1, <2>6, <2>7
<1> QED
  BY <1>9, <1>10

LEMMA PickLevelIs ==
  ASSUME NEW lo, NEW hi
  PROVE  /\ PickLevel(lo, hi) \in Levels
         /\ PickLevel(lo, hi) # 0 =>
              \A m \in 0 .. PickLevel(lo, hi) : ~OverlapInLevel(files, m, lo, hi)
<1> DEFINE free(l) == /\ ~OverlapInLevel(files, l, lo, hi)
                      /\ l + 1 < NumLevels =>
                           TotalFileSize(GetOverlappingInputs(files, l + 1, lo, hi))
                             <= GrandLimit
           fit == {l \in 0 .. MemLevel : \A m \in 1 .. l : free(m)}
<1>1. MemLevel \in Nat /\ 0 .. MemLevel \subseteq Levels
  BY SizesAssumption DEF Levels
<1>2. fit \in SUBSET Nat /\ 0 \in fit /\ fit \subseteq 0 .. MemLevel
  BY <1>1
<1>3. \A l \in fit : \A m \in 1 .. l : ~OverlapInLevel(files, m, lo, hi)
  OBVIOUS
<1>4. PickLevel(lo, hi) = IF OverlapInLevel(files, 0, lo, hi) THEN 0 ELSE Max(fit)
  BY DEF PickLevel
<1> HIDE DEF fit
<1>5. Max(fit) \in fit
  <2>1. \A m \in fit : m <= MemLevel
    BY <1>1, <1>2
  <2>2. fit # {}
    BY <1>2
  <2> QED
    BY <1>1, <1>2, <2>1, <2>2, MaxIs
<1>6. 0 \in Levels
  BY <1>1
<1>7. PICK l : l = PickLevel(lo, hi)
  OBVIOUS
<1>8. l = 0 \/ (l \in fit /\ ~OverlapInLevel(files, 0, lo, hi))
  BY <1>4, <1>5, <1>7
<1>9. l # 0 => \A m \in 0 .. l : ~OverlapInLevel(files, m, lo, hi)
  <2> SUFFICES ASSUME l # 0, NEW m \in 0 .. l
               PROVE  ~OverlapInLevel(files, m, lo, hi)
    OBVIOUS
  <2>1. l \in fit /\ l \in Nat
    BY <1>2, <1>8
  <2>2. m = 0 \/ m \in 1 .. l
    BY <2>1
  <2> QED
    BY <1>3, <1>8, <2>1, <2>2
<1> QED
  BY <1>1, <1>2, <1>6, <1>7, <1>8, <1>9

(* The same for every level: no key of it is in the range of the table.    *)
LEMMA NoOverlapKeys ==
  ASSUME LevelInv, ApartInv, NEW l \in Levels, NEW f \in ATable,
         ~OverlapInLevel(files, l, Smallest(f).k, Largest(f).k),
         NEW e \in Range(f.data), NEW x \in Entries(Range(files[l]))
  PROVE  e.k # x.k
<1>1. Range(files[l]) \in SUBSET ATable
  BY LevelFacts
<1>2. PICK g \in Range(files[l]) : x \in Range(g.data)
  BY <1>1, InEntries
<1>3. g \in ATable
  BY <1>1
<1>4. Largest(g).k < Smallest(f).k \/ Largest(f).k < Smallest(g).k
  <2>1. CASE l = 0
    <3>1. Smallest(f).k > Largest(g).k \/ Largest(f).k < Smallest(g).k
      BY <2>1 DEF OverlapInLevel
    <3>2. Smallest(f).k \in Nat /\ Largest(g).k \in Nat
      BY <1>3, TableKeys
    <3> QED
      BY <3>1, <3>2
  <2>2. CASE l # 0
    BY <2>2, NoOverlap
  <2> QED
    BY <2>1, <2>2
<1>5. Covers(f, e.k) /\ Covers(g, x.k)
  BY <1>2, <1>3, CoversOwn
<1>6. /\ Smallest(f).k \in Nat /\ Largest(f).k \in Nat
      /\ Smallest(g).k \in Nat /\ Largest(g).k \in Nat
  BY <1>3, TableKeys
<1>7. e.k \in Nat /\ x.k \in Nat
  BY <1>2, <1>3, TableFacts, EntryFields
<1> QED
  BY <1>4, <1>5, <1>6, <1>7 DEF Covers

-----------------------------------------------------------------------------
(* The table a read charges for a useless seek.                            *)

LEMMA SortedFound ==
  ASSUME NEW S, IsFiniteSet(S),
         \A x \in S : x.level \in Nat /\ x.f.num \in Nat,
         \A x, y \in S : x.level = y.level /\ x.f.num = y.f.num => x = y
  PROVE  /\ Sorted(S, ReadBefore) \in Seq(S) /\ Range(Sorted(S, ReadBefore)) = S
         /\ \A i, j \in DOMAIN Sorted(S, ReadBefore) :
              i < j => ReadBefore(Sorted(S, ReadBefore)[i],
                                  Sorted(S, ReadBefore)[j])
<1> DEFINE B == [e \in S |-> {x \in S : ReadBefore(x, e)}]
           s == Sorted(S, ReadBefore)
<1>1. /\ B \in [S -> SUBSET S]
      /\ \A x, y \in S : x \in B[y] <=> ReadBefore(x, y)
      /\ \A y \in S : B[y] = {x \in S : ReadBefore(x, y)}
  OBVIOUS
<1> HIDE DEF B
<1>2. /\ \A x \in S : x \notin B[x]
      /\ \A x, y \in S : x # y => x \in B[y] \/ y \in B[x]
      /\ \A x, y \in S : x \in B[y] => B[x] \subseteq B[y]
  <2>1. \A x \in S : ~ReadBefore(x, x)
    BY DEF ReadBefore, NewestFirst
  <2>2. ASSUME NEW x \in S, NEW y \in S, x # y
        PROVE  ReadBefore(x, y) \/ ReadBefore(y, x)
    <3>1. /\ x.level \in Nat /\ y.level \in Nat /\ x.f.num \in Nat
          /\ y.f.num \in Nat /\ ~(x.level = y.level /\ x.f.num = y.f.num)
      BY <2>2
    <3> QED
      BY <3>1 DEF ReadBefore, NewestFirst
  <2>3. ASSUME NEW x \in S, NEW y \in S, NEW z \in S, ReadBefore(x, y),
               ReadBefore(y, z)
        PROVE  ReadBefore(x, z)
    <3>1. /\ x.level \in Nat /\ y.level \in Nat /\ z.level \in Nat
          /\ x.f.num \in Nat /\ y.f.num \in Nat /\ z.f.num \in Nat
      OBVIOUS
    <3> QED
      BY <2>3, <3>1 DEF ReadBefore, NewestFirst
  <2>4. \A x, y \in S : x \in B[y] => B[x] \subseteq B[y]
    BY <1>1, <2>3
  <2> QED
    BY <1>1, <2>1, <2>2, <2>4
<1>3. /\ Cardinality(S) \in Nat
      /\ \A i \in 0 .. (Cardinality(S) - 1) : \E x \in S : Cardinality(B[x]) = i
  BY <1>1, <1>2, Places
<1>4. s = [i \in 1 .. Cardinality(S) |->
             CHOOSE e \in S : Cardinality({x \in S : ReadBefore(x, e)}) = i - 1]
  BY DEF Sorted
<1> HIDE DEF s
<1>5. ASSUME NEW i \in 1 .. Cardinality(S)
      PROVE  s[i] \in S /\ Cardinality(B[s[i]]) = i - 1
  <2>1. i - 1 \in 0 .. (Cardinality(S) - 1)
    BY <1>3
  <2>2. \E e \in S : Cardinality({x \in S : ReadBefore(x, e)}) = i - 1
    BY <1>1, <1>3, <2>1
  <2>3. s[i] = CHOOSE e \in S :
                 Cardinality({x \in S : ReadBefore(x, e)}) = i - 1
    BY <1>4
  <2>4. s[i] \in S /\ Cardinality({x \in S : ReadBefore(x, s[i])}) = i - 1
    BY <2>2, <2>3
  <2> QED
    BY <1>1, <2>4
<1>6. s \in [1 .. Cardinality(S) -> S]
  BY <1>4, <1>5
<1>7. /\ s \in Seq(S) /\ Range(s) = S
      /\ \A i, j \in DOMAIN s : i < j => s[i] \in B[s[j]]
  <2>1. \A i \in 1 .. Cardinality(S) : Cardinality(B[s[i]]) = i - 1
    BY <1>5
  <2>2. B \in [S -> SUBSET S] /\ IsFiniteSet(S)
    BY <1>1
  <2> QED
    BY <1>2, <1>6, <2>1, <2>2, InPlace, ZenonT(30)
<1>8. \A i \in DOMAIN s : s[i] \in S
  BY <1>6
<1>9. \A i, j \in DOMAIN s : i < j => ReadBefore(s[i], s[j])
  BY <1>1, <1>7, <1>8
<1> QED
  BY <1>7, <1>9 DEF s

(* A read looks at tables of a level, below level 0 at most at one.        *)
LEMMA SearchedIs ==
  ASSUME LevelInv, ApartInv, NEW l \in Levels, NEW k \in Nat, NEW s \in Nat
  PROVE  /\ Searched(files, l, LookupKey(k, s)) \subseteq Range(files[l])
         /\ l # 0 => \A f, g \in Searched(files, l, LookupKey(k, s)) : f = g
<1>1. PICK key : key = LookupKey(k, s)
  OBVIOUS
<1>2. CASE l = 0
  BY <1>2 DEF Searched
<1>3. CASE l # 0
  <2>1. PICK i : i = FindFile(files[l], key)
    OBVIOUS
  <2>2. i \in 1 .. (Len(files[l]) + 1)
    BY <1>1, <1>3, <2>1, SearchIs
  <2>3. Len(files[l]) \in Nat /\ DOMAIN files[l] = 1 .. Len(files[l])
    BY LevelFacts
  <2>4. Searched(files, l, key) =
          {files[l][x] : x \in {j \in {i} :
             j <= Len(files[l]) /\ ~(key.k < Smallest(files[l][j]).k)}}
    BY <1>3, <2>1 DEF Searched
  <2>5. \A f \in Searched(files, l, key) :
          f = files[l][i] /\ i <= Len(files[l])
    BY <2>4
  <2>6. i <= Len(files[l]) => files[l][i] \in Range(files[l])
    BY <2>2, <2>3 DEF Range
  <2> QED
    BY <1>1, <2>5, <2>6
<1> QED
  BY <1>2, <1>3

(* The tables a read looks at, in the order it does.                       *)
Reads(t, key) ==
  /\ Len(t) \in Nat /\ DOMAIN t = 1 .. Len(t)
  /\ \A i \in DOMAIN t :
       /\ t[i].level \in Levels /\ t[i].f \in Range(files[t[i].level])
       /\ t[i].f \in Searched(files, t[i].level, key)
  /\ \A i, j \in DOMAIN t : i < j => ReadBefore(t[i], t[j])
  /\ \A l \in Levels : \A f \in Searched(files, l, key) :
       \E i \in DOMAIN t : t[i].level = l /\ t[i].f = f

LEMMA AllSearchedIs ==
  ASSUME LevelInv, ApartInv, NEW k \in Nat, NEW s \in Nat,
         NEW key, key = LookupKey(k, s), NEW t, t = AllSearched(files, key)
  PROVE  Reads(t, key)
<1> DEFINE Q(l) == At(l, Searched(files, l, key))
           S == UNION {Q(l) : l \in Levels}
<1>0. NumLevels \in Nat \ {0, 1} /\ Levels = 0 .. (NumLevels - 1)
  BY SizesAssumption DEF Levels
<1>2. \A l \in Levels :
        /\ Searched(files, l, key) \subseteq Range(files[l])
        /\ l # 0 => \A f, g \in Searched(files, l, key) : f = g
  BY SearchedIs
<1>3. \A x \in S : /\ x.level \in Levels
                   /\ x = [f |-> x.f, level |-> x.level]
                   /\ x.f \in Searched(files, x.level, key)
  <2>1. ASSUME NEW l \in Levels, NEW x \in Q(l)
        PROVE  /\ x.level \in Levels /\ x = [f |-> x.f, level |-> x.level]
               /\ x.f \in Searched(files, x.level, key)
    <3>1. PICK f \in Searched(files, l, key) : x = [f |-> f, level |-> l]
      BY DEF At
    <3> QED
      BY <3>1
  <2> QED
    BY <2>1
<1>4. IsFiniteSet(S)
  <2>1. ASSUME NEW l \in Levels PROVE IsFiniteSet(Q(l))
    <3>1. PICK D : D = Searched(files, l, key)
      OBVIOUS
    <3>2. IsFiniteSet(D)
      BY <1>2, <3>1, LevelFacts, FS_Subset
    <3> DEFINE h == [f \in D |-> [f |-> f, level |-> l]]
    <3>3. h \in Surjection(D, Q(l))
      BY <3>1 DEF Surjection, At
    <3> QED
      BY <3>2, <3>3, FS_Surjection
  <2>2. IsFiniteSet({Q(l) : l \in Levels})
    <3> HIDE DEF Q
    <3> DEFINE h == [l \in Levels |-> Q(l)]
    <3>1. h \in Surjection(Levels, {Q(l) : l \in Levels})
      BY DEF Surjection
    <3>2. IsFiniteSet(Levels)
      BY <1>0, FS_Interval
    <3> QED
      BY <3>1, <3>2, FS_Surjection
  <2> QED
    BY <2>1, <2>2, FS_UNION
<1>5. \A x \in S : /\ x.f \in Range(files[x.level]) /\ x.f \in ATable
                   /\ x.level \in Nat /\ x.f.num \in Nat
  BY <1>0, <1>2, <1>3, LevelFacts, TableFacts
<1>6. ASSUME NEW x \in S, NEW y \in S, x.level = y.level, x.f.num = y.f.num
      PROVE  x = y
  <2>1. x.f = y.f
    BY <1>3, <1>5, <1>6, LevelFacts
  <2>2. x = [f |-> x.f, level |-> x.level] /\ y = [f |-> y.f, level |-> y.level]
    BY <1>3
  <2> QED
    BY <1>6, <2>1, <2>2
<1>7. \A l \in Levels : \A f \in Searched(files, l, key) :
        [f |-> f, level |-> l] \in S
  BY DEF At
<1>8. t = Sorted(S, ReadBefore)
  BY DEF AllSearched
<1> HIDE DEF S
<1>9. /\ t \in Seq(S) /\ Range(t) = S
      /\ \A i, j \in DOMAIN t : i < j => ReadBefore(t[i], t[j])
  BY <1>4, <1>5, <1>6, <1>8, SortedFound
<1>10. Len(t) \in Nat /\ DOMAIN t = 1 .. Len(t)
  BY <1>9, LenProperties
<1>11. \A i \in DOMAIN t : t[i] \in S
  BY <1>9 DEF Range
<1>12. \A i \in DOMAIN t :
        /\ t[i].level \in Levels /\ t[i].f \in Range(files[t[i].level])
        /\ t[i].f \in Searched(files, t[i].level, key)
  BY <1>3, <1>5, <1>11
<1>13. ASSUME NEW l \in Levels, NEW f \in Searched(files, l, key)
       PROVE  \E i \in DOMAIN t : t[i].level = l /\ t[i].f = f
  <2>1. [f |-> f, level |-> l] \in Range(t)
    BY <1>7, <1>9
  <2>2. PICK i \in DOMAIN t : t[i] = [f |-> f, level |-> l]
    BY <2>1 DEF Range
  <2> QED
    BY <2>2
<1> QED
  BY <1>9, <1>10, <1>12, <1>13 DEF Reads

LEMMA SeekIs ==
  ASSUME LevelInv, ApartInv, NEW k \in Nat, NEW s \in Nat, SeekFile(k, s) # None
  PROVE  /\ SeekFile(k, s).level \in 0 .. (NumLevels - 2)
         /\ SeekFile(k, s).f \in Range(files[SeekFile(k, s).level])
<1>1. PICK key, t : key = LookupKey(k, s) /\ t = AllSearched(files, key)
  OBVIOUS
<1>2. /\ Len(t) \in Nat /\ DOMAIN t = 1 .. Len(t)
      /\ \A i \in DOMAIN t :
           /\ t[i].level \in Levels /\ t[i].f \in Range(files[t[i].level])
           /\ t[i].f \in Searched(files, t[i].level, key)
      /\ \A i, j \in DOMAIN t : i < j => ReadBefore(t[i], t[j])
  <2>1. Reads(t, key)
    BY <1>1, AllSearchedIs
  <2> QED
    BY <2>1 DEF Reads
<1>3. SeekFile(k, s) = t[1] /\ Len(t) >= 2
  BY <1>1 DEF SeekFile, SeekOf
<1>4. 1 \in DOMAIN t /\ 2 \in DOMAIN t /\ 1 < 2
  BY <1>2, <1>3
<1>5. PICK x, y : x = t[1] /\ y = t[2]
  OBVIOUS
<1>6. /\ ReadBefore(x, y) /\ x.level \in Levels /\ y.level \in Levels
      /\ x.f \in Range(files[x.level]) /\ x.f \in Searched(files, x.level, key)
      /\ y.f \in Searched(files, y.level, key)
  BY <1>2, <1>4, <1>5
<1>7. NumLevels \in Nat \ {0, 1} /\ Levels = 0 .. (NumLevels - 1)
  BY SizesAssumption DEF Levels
<1>8. x.level # NumLevels - 1
  <2> SUFFICES ASSUME x.level = NumLevels - 1 PROVE FALSE
    OBVIOUS
  <2>1. x.level # 0 /\ ~(x.level < y.level)
    BY <1>6, <1>7
  <2>2. x.level = y.level /\ x.f.num > y.f.num
    BY <1>6, <2>1 DEF ReadBefore, NewestFirst
  <2>3. x.f = y.f
    BY <1>1, <1>6, <2>1, <2>2, SearchedIs
  <2>4. x.f.num \in Nat
    BY <1>6, LevelFacts, TableFacts
  <2> QED
    BY <2>2, <2>3, <2>4
<1> QED
  BY <1>3, <1>5, <1>6, <1>7, <1>8

-----------------------------------------------------------------------------
(* A new version.                                                          *)

(* The tables of level l after an edit.                                    *)
Placed(l, deleted, added) ==
  {f \in Range(files[l]) : <<l, f>> \notin deleted}
    \cup {a[2] : a \in {x \in added : x[1] = l}}

LEMMA ApplyIs ==
  ASSUME LevelInv, NEW deleted, NEW added \in SUBSET (Levels \X ATable),
         IsFiniteSet(added), nextFile' \in Nat, nextFile' >= nextFile,
         \A a, b \in added : a[2].num = b[2].num => a[2] = b[2],
         \A a \in added :
           /\ a[2].num < nextFile'
           /\ \/ a[2].num >= nextFile
              \/ \E l \in Levels : a[2] \in Range(files[l]),
         Apply(deleted, added)
  PROVE  /\ LevelInv'
         /\ \A l \in Levels : Range(files'[l]) = Placed(l, deleted, added)
<1>1. \A a \in added : a[1] \in Levels /\ a[2] \in ATable
  OBVIOUS
<1>2. \A l \in Levels : \A f \in Placed(l, deleted, added) :
        f \in Range(files[l]) \/ \E a \in added : f = a[2]
  BY DEF Placed
<1>3. \A l \in Levels : \A f \in Range(files[l]) :
        f \in ATable /\ f.num \in Nat /\ f.num < nextFile
  BY LevelFacts, TableFacts DEF LevelInv
<1>4. \A l \in Levels : \A f \in Placed(l, deleted, added) :
        f \in ATable /\ f.num < nextFile'
  <2>1. nextFile \in Nat
    BY DEF LevelInv
  <2>2. \A l \in Levels : \A f \in Range(files[l]) : f.num < nextFile'
    BY <1>3, <2>1
  <2> QED
    BY <1>1, <1>2, <1>3, <2>2
<1>5. ASSUME NEW l \in Levels, NEW m \in Levels,
             NEW f \in Placed(l, deleted, added),
             NEW g \in Placed(m, deleted, added), f.num = g.num
      PROVE  f = g
  <2>0. nextFile \in Nat /\ f.num \in Nat /\ g.num \in Nat
    BY <1>4, TableFacts DEF LevelInv
  <2>1. \A x, y \in Levels : \A u \in Range(files[x]), v \in Range(files[y]) :
          u.num = v.num => u = v
    BY DEF LevelInv
  <2>2. ASSUME NEW a \in added, NEW x \in Levels, NEW u \in Range(files[x]),
               a[2].num = u.num
        PROVE  a[2] = u
    <3>1. ~(a[2].num >= nextFile)
      BY <1>3, <2>0, <2>2
    <3> QED
      BY <2>1, <2>2, <3>1
  <2>3. CASE f \in Range(files[l]) /\ g \in Range(files[m])
    BY <1>5, <2>1, <2>3
  <2>4. CASE f \in Range(files[l]) /\ \E a \in added : g = a[2]
    BY <1>5, <2>2, <2>4
  <2>5. CASE g \in Range(files[m]) /\ \E a \in added : f = a[2]
    BY <1>5, <2>2, <2>5
  <2>6. CASE (\E a \in added : f = a[2]) /\ (\E a \in added : g = a[2])
    BY <1>5, <2>6
  <2> QED
    BY <1>2, <2>3, <2>4, <2>5, <2>6
<1>6. ASSUME NEW l \in Levels PROVE IsFiniteSet(Placed(l, deleted, added))
  <2>1. IsFiniteSet({f \in Range(files[l]) : <<l, f>> \notin deleted})
    BY LevelFacts, FS_Subset
  <2>2. PICK A : A = {x \in added : x[1] = l}
    OBVIOUS
  <2>3. IsFiniteSet(A)
    BY <2>2, FS_Subset
  <2> DEFINE h == [a \in A |-> a[2]]
  <2>4. h \in Surjection(A, {a[2] : a \in A})
    BY DEF Surjection
  <2>5. IsFiniteSet({a[2] : a \in A})
    BY <2>3, <2>4, FS_Surjection
  <2> QED
    BY <2>1, <2>2, <2>5, FS_Union DEF Placed
<1>7. files' = [l \in Levels |-> Sorted(Placed(l, deleted, added), BySmallestKey)]
  BY DEF Apply, Placed
<1>8. ASSUME NEW l \in Levels
      PROVE  /\ files'[l] \in Seq(ATable)
             /\ Range(files'[l]) = Placed(l, deleted, added)
             /\ \A i, j \in DOMAIN files'[l] :
                  i < j => BySmallestKey(files'[l][i], files'[l][j])
  <2>1. PICK S : S = Placed(l, deleted, added)
    OBVIOUS
  <2>2. /\ S \in SUBSET ATable /\ IsFiniteSet(S)
        /\ \A f, g \in S : f.num = g.num => f = g
    BY <1>4, <1>5, <1>6, <2>1
  <2>3. PICK s : s = Sorted(S, BySmallestKey)
    OBVIOUS
  <2>4. /\ s \in Seq(S) /\ Range(s) = S
        /\ \A i, j \in DOMAIN s : i < j => BySmallestKey(s[i], s[j])
    BY <2>2, <2>3, SortedTables
  <2>5. s \in Seq(ATable)
    BY <2>2, <2>4
  <2>6. files'[l] = s
    BY <1>7, <2>1, <2>3
  <2> QED
    BY <2>1, <2>4, <2>5, <2>6
<1>9. files' \in [Levels -> Seq(ATable)]
  <2>1. \A l \in Levels : files'[l] \in Seq(ATable)
    BY <1>8
  <2>2. PICK F : F = files'
    OBVIOUS
  <2>3. DOMAIN F = Levels /\ F = [l \in Levels |-> F[l]]
    BY <1>7, <2>2
  <2> QED
    BY <2>1, <2>2, <2>3
<1>10. LevelInv'
  BY <1>4, <1>5, <1>8, <1>9 DEF LevelInv
<1> QED
  BY <1>8, <1>10

LEMMA ApartAfter ==
  ASSUME LevelInv, ApartInv, NEW deleted, NEW added,
         \A l \in Levels : Range(files'[l]) = Placed(l, deleted, added),
         \A a, b \in added : a[1] = b[1] /\ a[1] # 0
                               => a = b \/ Apart(a[2], b[2]),
         \A a \in added : a[1] \in Levels /\ a[1] # 0 =>
           \A f \in Range(files[a[1]]) :
             <<a[1], f>> \notin deleted => Apart(a[2], f)
  PROVE  ApartInv'
<1> SUFFICES ASSUME NEW l \in Levels \ {0}, NEW f \in Range(files'[l]),
                    NEW g \in Range(files'[l])
             PROVE  f = g \/ Apart(f, g)
  BY DEF ApartInv
<1>1. f \in Placed(l, deleted, added) /\ g \in Placed(l, deleted, added)
  OBVIOUS
<1>2. /\ \/ f \in Range(files[l]) /\ <<l, f>> \notin deleted
         \/ \E a \in added : a[1] = l /\ f = a[2]
      /\ \/ g \in Range(files[l]) /\ <<l, g>> \notin deleted
         \/ \E a \in added : a[1] = l /\ g = a[2]
  BY <1>1 DEF Placed
<1>3. \A x, y : Apart(x, y) => Apart(y, x)
  BY DEF Apart
<1>4. \A x, y \in Range(files[l]) : x = y \/ Apart(x, y)
  BY DEF ApartInv
<1>5. \A a \in added, x \in Range(files[l]) :
        a[1] = l /\ <<l, x>> \notin deleted => Apart(a[2], x)
  OBVIOUS
<1>6. \A a, b \in added : a[1] = l /\ b[1] = l => a = b \/ Apart(a[2], b[2])
  OBVIOUS
<1> HIDE DEF Apart
<1>7. CASE f \in Range(files[l]) /\ <<l, f>> \notin deleted
  BY <1>2, <1>3, <1>4, <1>5, <1>7
<1>8. CASE \E a \in added : a[1] = l /\ f = a[2]
  BY <1>2, <1>3, <1>5, <1>6, <1>8
<1> QED
  BY <1>2, <1>7, <1>8

(* A sorted memtable is a table.                                           *)
LEMMA MemTable ==
  ASSUME NEW E \in SUBSET AnEntry, IsFiniteSet(E), E # {}, NEW n \in Nat
  PROVE  [num |-> n, data |-> Sorted(E, Less)] \in ATable
<1>1. PICK s : s = Sorted(E, Less)
  OBVIOUS
<1>2. /\ s \in Seq(E) /\ Range(s) = E
      /\ \A i, j \in DOMAIN s : i < j => Less(s[i], s[j])
  BY <1>1, SortedEntries
<1>3. s \in Seq(AnEntry) /\ s # << >>
  BY <1>2 DEF Range
<1> QED
  BY <1>1, <1>2, <1>3 DEF ATable

(* Two tables of which one is beside all entries of the other are apart.   *)
LEMMA BesideApart ==
  ASSUME NEW f \in ATable, NEW g \in ATable, NEW E, Beside(f, E),
         Range(g.data) \subseteq E
  PROVE  Apart(g, f)
<1>1. Smallest(g) \in E /\ Largest(g) \in E
  BY TableFacts
<1> QED
  BY <1>1 DEF Beside, Apart

-----------------------------------------------------------------------------
(* Every step keeps the tree in order.                                     *)

Parts == MemInv /\ LevelInv /\ ApartInv /\ RunInv /\ ChosenInv

LEMMA StartsInOrder == Init => TreeInv
<1> SUFFICES ASSUME Init PROVE Parts
  BY DEF TreeInv, Parts
<1>1. MaxSeq \in Nat /\ 0 \in 0 .. MaxSeq
  BY SizesAssumption
<1>2. MemInv
  BY <1>1, FS_EmptySet DEF Init, MemInv
<1>3. \A l \in Levels : files[l] = << >> /\ Range(files[l]) = {}
  BY DEF Init, Range
<1>4. LevelInv
  <2>1. files \in [Levels -> Seq(ATable)] /\ nextFile \in Nat
    BY DEF Init
  <2> QED
    BY <1>3, <2>1 DEF LevelInv
<1>5. ApartInv
  BY <1>3 DEF ApartInv
<1>6. RunInv /\ ChosenInv
  BY DEF Init, RunInv, ChosenInv
<1> QED
  BY <1>2, <1>4, <1>5, <1>6 DEF Parts

(* Steps that leave the tables and the compaction alone.                   *)
LEMMA WriteStep ==
  ASSUME Parts, NEW k \in Keys, NEW t \in Types, Write(k, t)
  PROVE  Parts'
<1> USE DEF Parts
<1>1. UNCHANGED <<imm, files, nextFile, seek, running, manual, snapshots>>
  BY DEF Write
<1>2. PICK e : e = Entry(k, last + 1, t)
  OBVIOUS
<1>3. /\ MaxSeq \in Nat /\ last \in 0 .. MaxSeq /\ last < MaxSeq
      /\ last' = last + 1 /\ t \in {0, 1}
  BY SizesAssumption DEF Write, MemInv
<1>4. e \in AnEntry
  <2>1. last + 1 \in 1 .. MaxSeq
    BY <1>3
  <2> QED
    BY <1>2, <1>3, <2>1 DEF AnEntry, Entry, Value, Deletion
<1>5. mem' = mem \cup {e} /\ IsFiniteSet(mem)
  BY <1>2 DEF Write, MemInv
<1>6. IsFiniteSet(mem')
  BY <1>5, FS_AddElement
<1>7. MemInv'
  BY <1>1, <1>3, <1>4, <1>5, <1>6 DEF MemInv
<1> QED
  BY <1>1, <1>7 DEF LevelInv, ApartInv, RunInv, ChosenInv

LEMMA SwitchStep == Parts /\ Switch => Parts'
<1> SUFFICES ASSUME Parts, Switch PROVE Parts'
  OBVIOUS
<1> USE DEF Parts
<1>1. /\ UNCHANGED <<last, files, nextFile, seek, running, manual, snapshots>>
      /\ imm' = mem /\ mem' = {}
  BY DEF Switch
<1>2. MemInv'
  BY <1>1, FS_EmptySet DEF MemInv
<1> QED
  BY <1>1, <1>2 DEF LevelInv, ApartInv, RunInv, ChosenInv

LEMMA UpdateStatsStep ==
  ASSUME Parts, NEW k \in Keys, NEW s \in {last} \cup Range(snapshots),
         UpdateStats(k, s)
  PROVE  Parts'
<1> USE DEF Parts
<1>1. UNCHANGED <<last, mem, imm, files, nextFile, running, manual, snapshots>>
  BY DEF UpdateStats
<1>2. k \in Nat /\ s \in Nat
  <2>1. last \in Nat
    BY SizesAssumption DEF MemInv
  <2>2. Range(snapshots) \subseteq Nat
    BY TablesOf DEF MemInv
  <2> QED
    BY <2>1, <2>2, KeysAssumption
<1>3. SeekFile(k, s) # None /\ seek' = SeekFile(k, s)
  BY DEF UpdateStats
<1>4. /\ SeekFile(k, s).level \in 0 .. (NumLevels - 2)
      /\ SeekFile(k, s).f \in Range(files[SeekFile(k, s).level])
  BY <1>2, <1>3, SeekIs
<1>5. ChosenInv'
  BY <1>1, <1>3, <1>4 DEF ChosenInv
<1> QED
  BY <1>1, <1>5 DEF MemInv, LevelInv, ApartInv, RunInv

LEMMA SnapshotStep ==
  ASSUME Parts, GetSnapshot \/ \E i \in DOMAIN snapshots : ReleaseSnapshot(i)
  PROVE  Parts'
<1> USE DEF Parts
<1>1. UNCHANGED <<last, mem, imm, files, nextFile, seek, running, manual>>
  BY DEF GetSnapshot, ReleaseSnapshot
<1>2. snapshots \in Seq(Nat) /\ last \in Nat
  BY SizesAssumption DEF MemInv
<1>3. snapshots' \in Seq(Nat)
  <2>1. CASE GetSnapshot
    BY <1>2, <2>1, AppendProperties DEF GetSnapshot
  <2>2. CASE \E i \in DOMAIN snapshots : ReleaseSnapshot(i)
    <3>1. PICK i \in DOMAIN snapshots : snapshots' = RemoveAt(snapshots, i)
      BY <2>2 DEF ReleaseSnapshot
    <3>2. Len(snapshots) \in Nat /\ i \in 1 .. Len(snapshots)
      BY <1>2, LenProperties
    <3>3. SubSeq(snapshots, 1, i - 1) \in Seq(Nat)
      BY <1>2, <3>2, SubSeqProperties
    <3>4. SubSeq(snapshots, i + 1, Len(snapshots)) \in Seq(Nat)
      BY <1>2, <3>2, SubSeqProperties
    <3> QED
      BY <3>1, <3>3, <3>4, ConcatProperties DEF RemoveAt
  <2> QED
    BY <2>1, <2>2
<1>4. MemInv'
  BY <1>1, <1>3 DEF MemInv
<1> QED
  BY <1>1, <1>4 DEF LevelInv, ApartInv, RunInv, ChosenInv

LEMMA CallStep ==
  ASSUME Parts, CompactMore \/ \E l \in Manual : CompactRange(l)
  PROVE  Parts'
<1> USE DEF Parts
<1>1. UNCHANGED <<last, mem, imm, files, nextFile, seek, running, snapshots>>
  BY DEF CompactMore, CompactRange
<1>2. /\ manual'.level \in 0 .. (NumLevels - 2)
      /\ DOMAIN manual' = {"level", "lo", "hi", "armed"}
  <2>1. CASE CompactMore
    <3>1. /\ manual' = [manual EXCEPT !.armed = TRUE]
          /\ DOMAIN manual = {"level", "lo", "hi", "armed"}
          /\ manual.level \in 0 .. (NumLevels - 2)
      BY <2>1 DEF CompactMore, ChosenInv
    <3> QED
      BY <3>1
  <2>2. CASE \E l \in Manual : CompactRange(l)
    <3>1. PICK l \in Manual : CompactRange(l)
      BY <2>2
    <3>2. l \in 0 .. (NumLevels - 2)
      BY SizesAssumption
    <3>3. PICK hi : hi = Max(Keys) + 1
      OBVIOUS
    <3>4. manual' = [level |-> l, lo |-> 0, hi |-> hi, armed |-> TRUE]
      BY <3>1, <3>3 DEF CompactRange
    <3> QED
      BY <3>2, <3>4
  <2> QED
    BY <2>1, <2>2
<1>3. ChosenInv'
  BY <1>1, <1>2 DEF ChosenInv
<1> QED
  BY <1>1, <1>3 DEF MemInv, LevelInv, ApartInv, RunInv

(* A memtable becomes a table: on level 0, or lower if it overlaps nothing *)
(* there and no compaction is under way.                                   *)
Placing(l, f) ==
  \A m \in Levels :
    Range(files'[m]) = IF m = l THEN Range(files[m]) \cup {f} ELSE Range(files[m])

LEMMA FlushStep ==
  ASSUME Parts, ~below', Flush
  PROVE  /\ Parts'
         /\ \E l \in Levels, f \in ATable :
              /\ f.num = nextFile /\ Range(f.data) = imm /\ Placing(l, f)
              /\ l # 0 =>
                   /\ running = None
                   /\ \A m \in 0 .. l :
                        ~OverlapInLevel(files, m, Smallest(f).k, Largest(f).k)
<1> USE DEF Parts
<1>1. UNCHANGED <<last, mem, running, manual, snapshots>> /\ imm' = {}
  BY DEF Flush
<1>2. /\ imm \in SUBSET AnEntry /\ IsFiniteSet(imm) /\ imm # {}
      /\ nextFile \in Nat /\ nextFile' = nextFile + 1
  BY DEF MemInv, LevelInv, Flush
<1>3. PICK f : f = [num |-> nextFile, data |-> Sorted(imm, Less)]
  OBVIOUS
<1>4. f \in ATable /\ f.num = nextFile /\ Range(f.data) = imm
  BY <1>2, <1>3, MemTable, SortedEntries
<1>5. PICK l : l = PickLevel(Smallest(f).k, Largest(f).k)
  OBVIOUS
<1>6. /\ l \in Levels
      /\ l # 0 => \A m \in 0 .. l :
                    ~OverlapInLevel(files, m, Smallest(f).k, Largest(f).k)
      /\ l # 0 => ~OverlapInLevel(files, l, Smallest(f).k, Largest(f).k)
  <2>1. /\ l \in Levels
        /\ l # 0 => \A m \in 0 .. l :
                      ~OverlapInLevel(files, m, Smallest(f).k, Largest(f).k)
    BY <1>5, PickLevelIs
  <2>2. l \in 0 .. l
    BY <2>1, SizesAssumption DEF Levels
  <2> QED
    BY <2>1, <2>2
<1>7. Apply({}, {<<l, f>>}) /\ below' = (below \/ (l > 0 /\ running # None))
  BY <1>3, <1>5 DEF Flush
<1>8. l # 0 => running = None
  <2>1. ~(l > 0 /\ running # None)
    BY <1>7, Zenon
  <2>2. l # 0 => l > 0
    BY <1>6, SizesAssumption DEF Levels
  <2> QED
    BY <2>1, <2>2
<1>9. PICK added : added = {<<l, f>>}
  OBVIOUS
<1>10. /\ added \in SUBSET (Levels \X ATable) /\ IsFiniteSet(added)
       /\ \A a \in added : a[1] = l /\ a[2] = f
  <2>1. f \in ATable /\ l \in Levels
    BY <1>4, <1>6
  <2>2. IsFiniteSet(added)
    BY <1>9, FS_Singleton
  <2>3. added \in SUBSET (Levels \X ATable)
    BY <1>9, <2>1
  <2>4. \A a \in added : a[1] = l /\ a[2] = f
    BY <1>9
  <2> QED
    BY <2>2, <2>3, <2>4
<1>11. /\ LevelInv'
       /\ \A m \in Levels : Range(files'[m]) = Placed(m, {}, added)
  <2>1. nextFile' \in Nat /\ nextFile' >= nextFile
    BY <1>2
  <2>2. \A a \in added : a[2].num < nextFile' /\ a[2].num >= nextFile
    BY <1>2, <1>4, <1>10
  <2>3. \A a, b \in added : a[2].num = b[2].num => a[2] = b[2]
    BY <1>10
  <2> QED
    BY <1>7, <1>9, <1>10, <2>1, <2>2, <2>3, ApplyIs
<1>12. ApartInv'
  <2>1. \A a, b \in added : a = b
    BY <1>9
  <2>2. \A a \in added : a[1] \in Levels /\ a[1] # 0 =>
          \A g \in Range(files[a[1]]) : Apart(a[2], g)
    BY <1>4, <1>6, <1>10, NoOverlap
  <2> QED
    BY <1>11, <2>1, <2>2, ApartAfter
<1>13. RunInv'
  <2> SUFFICES ASSUME running # None PROVE RunInv'
    BY <1>1 DEF RunInv
  <2>1. l = 0
    BY <1>8
  <2>2. running.level \in 0 .. (NumLevels - 2)
    BY DEF RunInv
  <2>3. running.level + 1 \in Levels /\ running.level + 1 # 0
    BY <2>2, SizesAssumption DEF Levels
  <2>4. Range(files'[running.level + 1]) = Range(files[running.level + 1])
    <3>1. {x \in added : x[1] = running.level + 1} = {}
      BY <1>10, <2>1, <2>3
    <3> QED
      BY <1>11, <2>3, <3>1 DEF Placed
  <2> QED
    BY <1>1, <2>4 DEF RunInv
<1>14. ChosenInv'
  BY <1>1, <1>7 DEF ChosenInv, Apply
<1>15. MemInv'
  BY <1>1, FS_EmptySet DEF MemInv
<1>16. Placing(l, f)
  <2> SUFFICES ASSUME NEW m \in Levels
               PROVE  Range(files'[m]) = IF m = l THEN Range(files[m]) \cup {f}
                                                 ELSE Range(files[m])
    BY DEF Placing
  <2>1. {a[2] : a \in {x \in added : x[1] = m}} = IF m = l THEN {f} ELSE {}
    <3>1. m = l => {x \in added : x[1] = m} = {<<l, f>>}
      BY <1>9
    <3>2. m # l => {x \in added : x[1] = m} = {}
      BY <1>9
    <3>3. PICK p : p = <<l, f>>
      OBVIOUS
    <3>4. p[2] = f
      BY <3>3
    <3>5. {a[2] : a \in {p}} = {f}
      BY <3>4
    <3>6. {a[2] : a \in {}} = {}
      OBVIOUS
    <3>7. CASE m = l
      BY <3>1, <3>3, <3>5, <3>7
    <3>8. CASE m # l
      BY <3>2, <3>6, <3>8
    <3> QED
      BY <3>7, <3>8
  <2> QED
    BY <1>11, <2>1 DEF Placed
<1> QED
  BY <1>4, <1>6, <1>8, <1>11, <1>12, <1>13, <1>14, <1>15, <1>16

(* A compaction starts: a table moves down as it is, or a merge begins.    *)
LEMMA MoveStep ==
  ASSUME Parts, running = None, NEW l \in 0 .. (NumLevels - 2), NEW fs,
         fs \subseteq Range(files[l]), fs # {}, NEW c, c = Compaction(l, fs),
         IsTrivialMove(c), Move(c),
         UNCHANGED <<last, mem, imm, nextFile, manual, snapshots>>
  PROVE  /\ Parts' /\ running' = None
         /\ \E f \in Range(files[l]) :
              /\ c.in0 = {f}
              /\ Range(files'[l]) = Range(files[l]) \ {f}
              /\ Range(files'[l + 1]) = Range(files[l + 1]) \cup {f}
              /\ \A m \in Levels \ {l, l + 1} : Range(files'[m]) = Range(files[m])
<1> USE DEF Parts
<1>1. l \in Levels /\ l + 1 \in Levels
  BY SizesAssumption DEF Levels
<1>2. /\ c.level = l /\ c.in0 \subseteq Range(files[l])
      /\ c.in1 \subseteq Range(files[l + 1])
      /\ \A t \in Range(files[l + 1]) \ c.in1 :
           Beside(t, Entries(c.in0 \cup c.in1))
  BY CompactionIs
<1>3. c.in1 = {}
  BY DEF IsTrivialMove
<1>4. PICK f \in c.in0 : Apply({<<c.level, f>>}, {<<c.level + 1, f>>})
  BY DEF Move
<1>5. PICK deleted, added : deleted = {<<l, f>>} /\ added = {<<l + 1, f>>}
  OBVIOUS
<1>6. Apply(deleted, added) /\ running' = None
  BY <1>2, <1>4, <1>5 DEF Move
<1>7. f \in Range(files[l]) /\ f \in ATable
  BY <1>1, <1>2, LevelFacts
<1>8. /\ added \in SUBSET (Levels \X ATable) /\ IsFiniteSet(added)
      /\ \A a \in added : a[1] = l + 1 /\ a[2] = f
  <2>1. PICK m \in Levels : m = l + 1
    BY <1>1
  <2>2. added = {<<m, f>>}
    BY <1>5, <2>1
  <2>3. IsFiniteSet(added)
    BY <2>2, FS_Singleton
  <2>4. added \in SUBSET (Levels \X ATable)
    BY <1>7, <2>2
  <2>5. \A a \in added : a[1] = m /\ a[2] = f
    BY <2>2
  <2> QED
    BY <2>1, <2>3, <2>4, <2>5
<1>9. /\ LevelInv'
      /\ \A m \in Levels : Range(files'[m]) = Placed(m, deleted, added)
  <2>1. nextFile' = nextFile /\ nextFile \in Nat /\ nextFile' >= nextFile
    BY DEF LevelInv
  <2>2. \A a \in added :
          /\ a[2].num < nextFile'
          /\ \/ a[2].num >= nextFile
             \/ \E m \in Levels : a[2] \in Range(files[m])
    BY <1>1, <1>7, <1>8, <2>1 DEF LevelInv
  <2>3. \A a, b \in added : a[2].num = b[2].num => a[2] = b[2]
    BY <1>8
  <2> QED
    BY <1>6, <1>8, <2>1, <2>2, <2>3, ApplyIs
<1>10. ApartInv'
  <2>1. \A a, b \in added : a = b
    BY <1>5
  <2>2. ASSUME NEW t \in Range(files[l + 1]) PROVE Apart(f, t)
    <3>1. Beside(t, Entries(c.in0 \cup c.in1)) /\ t \in ATable
      BY <1>1, <1>2, <1>3, LevelFacts
    <3>2. Range(f.data) \subseteq Entries(c.in0 \cup c.in1)
      BY <1>4 DEF Entries
    <3> QED
      BY <1>7, <3>1, <3>2, BesideApart
  <2>3. \A a \in added : a[1] \in Levels /\ a[1] # 0 =>
          \A t \in Range(files[a[1]]) :
            <<a[1], t>> \notin deleted => Apart(a[2], t)
    BY <1>8, <2>2
  <2> QED
    BY <1>9, <2>1, <2>3, ApartAfter
<1>11. RunInv' /\ ChosenInv' /\ MemInv'
  BY <1>6 DEF RunInv, ChosenInv, MemInv, Apply
<1>12. c.in0 = {f}
  <2>1. IsFiniteSet(c.in0) /\ Cardinality(c.in0) = 1
    BY <1>1, <1>2, LevelFacts, FS_Subset DEF IsTrivialMove
  <2>2. {f} \in SUBSET c.in0 /\ Cardinality({f}) = 1
    BY <1>4, FS_Singleton
  <2> QED
    BY <2>1, <2>2, FS_Subset
<1>13. ASSUME NEW m \in Levels
       PROVE  Range(files'[m]) = IF m = l THEN Range(files[m]) \ {f}
                                 ELSE IF m = l + 1 THEN Range(files[m]) \cup {f}
                                 ELSE Range(files[m])
  <2>1. {a[2] : a \in {x \in added : x[1] = m}} = IF m = l + 1 THEN {f} ELSE {}
    <3>1. m = l + 1 => {x \in added : x[1] = m} = {<<l + 1, f>>}
      BY <1>5
    <3>2. m # l + 1 => {x \in added : x[1] = m} = {}
      BY <1>5
    <3>3. PICK p : p = <<l + 1, f>>
      OBVIOUS
    <3>4. p[2] = f
      BY <3>3
    <3>5. {a[2] : a \in {p}} = {f}
      BY <3>4
    <3>6. {a[2] : a \in {}} = {}
      OBVIOUS
    <3>7. CASE m = l + 1
      BY <3>1, <3>3, <3>5, <3>7
    <3>8. CASE m # l + 1
      BY <3>2, <3>6, <3>8
    <3> QED
      BY <3>7, <3>8
  <2>2. {g \in Range(files[m]) : <<m, g>> \notin deleted}
          = IF m = l THEN Range(files[m]) \ {f} ELSE Range(files[m])
    BY <1>5
  <2>3. l # l + 1
    OBVIOUS
  <2> QED
    BY <1>9, <2>1, <2>2, <2>3 DEF Placed
<1>14. l # l + 1
  OBVIOUS
<1> QED
  BY <1>1, <1>6, <1>7, <1>9, <1>10, <1>11, <1>12, <1>13, <1>14

LEMMA BeginStep ==
  ASSUME Parts, NEW l \in 0 .. (NumLevels - 2), NEW fs,
         fs \subseteq Range(files[l]), fs # {}, NEW c, c = Compaction(l, fs),
         Begin(c)
  PROVE  files' = files /\ seek' = seek /\ RunInv'
<1> USE DEF Parts
<1>1. l \in Levels /\ l + 1 \in Levels
  BY SizesAssumption DEF Levels
<1>2. /\ c.level = l /\ c.in0 \subseteq Range(files[l])
      /\ c.in1 \subseteq Range(files[l + 1])
      /\ \A t \in Range(files[l + 1]) \ c.in1 :
           Beside(t, Entries(c.in0 \cup c.in1))
  BY CompactionIs
<1>3. files' = files /\ seek' = seek /\ running' = c
  BY DEF Begin
<1>4. /\ c.in0 \subseteq ATable /\ IsFiniteSet(c.in0)
      /\ c.in1 \subseteq ATable /\ IsFiniteSet(c.in1)
  BY <1>1, <1>2, LevelFacts, FS_Subset
<1> QED
  BY <1>2, <1>3, <1>4 DEF RunInv

LEMMA PickStep == Parts /\ Pick => Parts'
<1> SUFFICES ASSUME Parts, Pick PROVE Parts'
  OBVIOUS
<1> USE DEF Parts
<1>1. /\ running = None /\ NeedsCompaction
      /\ UNCHANGED <<last, mem, imm, nextFile, manual, snapshots>>
  BY DEF Pick
<1>2. PICK d : d = Candidate
  OBVIOUS
<1>3. PICK c : c = PickCompaction(d)
  OBVIOUS
<1>4. (IsTrivialMove(c) /\ Move(c)) \/ (~IsTrivialMove(c) /\ Begin(c))
  BY <1>2, <1>3 DEF Pick
<1>5. d.level \in 0 .. (NumLevels - 2) /\ d.f \in Range(files[d.level])
  BY <1>1, <1>2, CandidateIs
<1>6. PICK fs : /\ fs \subseteq Range(files[d.level]) /\ fs # {}
                /\ c = Compaction(d.level, fs)
  BY <1>3, <1>5, PickFrom
<1>7. CASE IsTrivialMove(c) /\ Move(c)
  BY <1>1, <1>5, <1>6, <1>7, MoveStep
<1>8. CASE ~IsTrivialMove(c) /\ Begin(c)
  <2>1. files' = files /\ seek' = seek /\ RunInv'
    BY <1>1, <1>5, <1>6, <1>8, BeginStep
  <2> QED
    BY <1>1, <2>1 DEF MemInv, LevelInv, ApartInv, ChosenInv
<1> QED
  BY <1>4, <1>7, <1>8

LEMMA PickManualStep == Parts /\ PickManual => Parts'
<1> SUFFICES ASSUME Parts, PickManual PROVE Parts'
  OBVIOUS
<1> USE DEF Parts
<1>1. /\ manual # None
      /\ UNCHANGED <<last, mem, imm, nextFile, snapshots>>
  BY DEF PickManual, Armed
<1>2. /\ manual.level \in 0 .. (NumLevels - 2)
      /\ DOMAIN manual = {"level", "lo", "hi", "armed"}
  BY <1>1 DEF ChosenInv
<1>3. PICK fs : fs = RangeInputs
  OBVIOUS
<1>4. fs \subseteq Range(files[manual.level])
  BY <1>2, <1>3, RangeInputsIs
<1>5. CASE fs = {}
  <2>1. UNCHANGED <<files, seek, running>> /\ manual' = None
    BY <1>3, <1>5 DEF PickManual, Done
  <2> QED
    BY <1>1, <2>1 DEF MemInv, LevelInv, ApartInv, RunInv, ChosenInv
<1>6. CASE fs # {}
  <2>1. PICK c : c = Compaction(manual.level, fs)
    OBVIOUS
  <2>2. PICK x : manual' = [manual EXCEPT !.lo = x, !.armed = FALSE]
    BY <1>3, <1>6 DEF PickManual
  <2>3. Begin(c)
    BY <1>3, <1>6, <2>1 DEF PickManual
  <2>4. files' = files /\ seek' = seek /\ RunInv'
    BY <1>1, <1>2, <1>4, <1>6, <2>1, <2>3, BeginStep
  <2>5. /\ manual'.level \in 0 .. (NumLevels - 2)
        /\ DOMAIN manual' = {"level", "lo", "hi", "armed"}
    BY <1>2, <2>2
  <2> QED
    BY <1>1, <2>4, <2>5 DEF MemInv, LevelInv, ApartInv, ChosenInv
<1> QED
  BY <1>5, <1>6

(* A compaction ends: its outputs are in order among themselves, and       *)
(* beside the tables it left on their level.                               *)
LEMMA FinishStep ==
  ASSUME Parts, Finish
  PROVE  /\ Parts'
         /\ Range(files'[running.level]) = Range(files[running.level]) \ running.in0
         /\ Entries(Range(files'[running.level + 1])) =
              Entries(Range(files[running.level + 1]) \ running.in1)
                \cup Put(Outputs(running))
         /\ \A m \in Levels \ {running.level, running.level + 1} :
              Range(files'[m]) = Range(files[m])
<1> USE DEF Parts
<1>1. /\ running # None /\ running' = None
      /\ UNCHANGED <<last, mem, imm, manual, snapshots>>
  BY DEF Finish
<1>2. PICK l, in0, in1 :
        l = running.level /\ in0 = running.in0 /\ in1 = running.in1
  OBVIOUS
<1>3. /\ l \in 0 .. (NumLevels - 2)
      /\ in0 \subseteq ATable /\ IsFiniteSet(in0)
      /\ in1 \subseteq ATable /\ IsFiniteSet(in1)
      /\ \A f \in Range(files[l + 1]) \ in1 : Beside(f, Entries(in0 \cup in1))
  BY <1>1, <1>2 DEF RunInv
<1>4. l \in Levels /\ l + 1 \in Levels
  BY <1>3, SizesAssumption DEF Levels
<1>5. PICK E : E = Entries(in0 \cup in1)
  OBVIOUS
<1>6. E \in SUBSET AnEntry /\ IsFiniteSet(E)
  BY <1>3, <1>5, EntriesOf, FS_Union
<1>7. PICK input : input = Sorted(E, Less)
  OBVIOUS
<1>8. input \in Seq(AnEntry) /\ Range(input) = E /\ InOrder(input)
  <2>1. /\ input \in Seq(E) /\ Range(input) = E
        /\ \A i, j \in DOMAIN input : i < j => Less(input[i], input[j])
    BY <1>6, <1>7, SortedEntries
  <2>2. input \in Seq(AnEntry)
    BY <1>6, <2>1
  <2> QED
    BY <2>1, <2>2 DEF InOrder
<1>9. PICK outs : outs = Outputs(running)
  OBVIOUS
<1>10. outs = Merged(running, input)
  BY <1>2, <1>5, <1>7, <1>9 DEF Outputs, Merging
<1>11. /\ outs \in Seq(Seq(E))
       /\ \A i \in DOMAIN outs : outs[i] # << >> /\ InOrder(outs[i])
       /\ \A i, j \in DOMAIN outs : i < j => Before(outs[i], outs[j])
  BY <1>8, <1>10, MergedIs
<1>12. Len(outs) \in Nat /\ DOMAIN outs = 1 .. Len(outs)
  BY <1>11, LenProperties
<1>13. nextFile \in Nat /\ nextFile' = nextFile + Len(outs)
  BY <1>9 DEF LevelInv, Finish
<1> DEFINE T(i) == [num |-> nextFile + i - 1, data |-> outs[i]]
<1>14. ASSUME NEW i \in DOMAIN outs
       PROVE  /\ T(i) \in ATable /\ Range(T(i).data) \subseteq E
              /\ T(i).data = outs[i]
              /\ T(i).num = nextFile + i - 1
  <2>1. outs[i] \in Seq(E)
    BY <1>11, <1>12, ElementOfSeq
  <2>2. Range(outs[i]) \subseteq E
    BY <2>1, TablesOf
  <2>3. outs[i] \in Seq(AnEntry)
    BY <1>6, <2>1
  <2>4. nextFile + i - 1 \in Nat
    BY <1>12, <1>13
  <2>5. T(i) \in [num : Nat, data : Seq(AnEntry)]
    BY <2>3, <2>4
  <2> QED
    BY <1>11, <2>2, <2>5 DEF ATable, InOrder
<1>15. PICK deleted, added :
         /\ deleted = {<<l, f>> : f \in in0} \cup {<<l + 1, f>> : f \in in1}
         /\ added = {<<l + 1, T(i)>> : i \in DOMAIN outs}
  OBVIOUS
<1>16. Apply(deleted, added)
  BY <1>2, <1>9, <1>15 DEF Finish
<1>17. /\ \A a \in added : a[1] = l + 1 /\ \E i \in DOMAIN outs : a[2] = T(i)
       /\ \A a \in added : a = <<a[1], a[2]>>
  <2> HIDE DEF T
  <2> QED
    BY <1>15
<1>18. added \in SUBSET (Levels \X ATable)
  <2> HIDE DEF T
  <2> QED
    BY <1>4, <1>14, <1>15
<1>19. IsFiniteSet(added)
  <2> HIDE DEF T
  <2> DEFINE h == [i \in DOMAIN outs |-> <<l + 1, T(i)>>]
  <2>1. h \in Surjection(DOMAIN outs, added)
    BY <1>15 DEF Surjection
  <2>2. IsFiniteSet(DOMAIN outs)
    BY <1>12, FS_Interval
  <2> QED
    BY <2>1, <2>2, FS_Surjection
<1>20. ASSUME NEW i \in DOMAIN outs, NEW j \in DOMAIN outs, i < j
       PROVE  Apart(T(i), T(j))
  <2>1. /\ Largest(T(i)) \in Range(outs[i]) /\ Smallest(T(j)) \in Range(outs[j])
    <3>1. T(i) \in ATable /\ T(j) \in ATable
          /\ T(i).data = outs[i] /\ T(j).data = outs[j]
      BY <1>14
    <3> HIDE DEF T
    <3> QED
      BY <3>1, TableFacts
  <2>2. Before(outs[i], outs[j])
    BY <1>11, <1>20
  <2> HIDE DEF T
  <2> QED
    BY <2>1, <2>2 DEF Before, Apart
<1>21. \A a, b \in added :
         a[2].num = b[2].num => a[2] = b[2]
  <2> SUFFICES ASSUME NEW a \in added, NEW b \in added, a[2].num = b[2].num
               PROVE  a[2] = b[2]
    OBVIOUS
  <2>1. PICK i, j \in DOMAIN outs : a[2] = T(i) /\ b[2] = T(j)
    BY <1>17
  <2>2. T(i).num = nextFile + i - 1 /\ T(j).num = nextFile + j - 1
    OBVIOUS
  <2>3. i = j
    BY <1>12, <1>13, <2>1, <2>2
  <2> QED
    BY <2>1, <2>3
<1>22. \A a \in added : a[2].num < nextFile' /\ a[2].num >= nextFile
  <2> SUFFICES ASSUME NEW a \in added
               PROVE  a[2].num < nextFile' /\ a[2].num >= nextFile
    OBVIOUS
  <2>1. PICK i \in DOMAIN outs : a[2] = T(i)
    BY <1>17
  <2>2. T(i).num = nextFile + i - 1
    OBVIOUS
  <2> QED
    BY <1>12, <1>13, <2>1, <2>2
<1>23. /\ LevelInv'
       /\ \A m \in Levels : Range(files'[m]) = Placed(m, deleted, added)
  <2>1. nextFile' \in Nat /\ nextFile' >= nextFile
    BY <1>12, <1>13
  <2> QED
    BY <1>16, <1>18, <1>19, <1>21, <1>22, <2>1, ApplyIs
<1>24. ApartInv'
  <2>1. \A a, b \in added : a = b \/ Apart(a[2], b[2])
    <3> SUFFICES ASSUME NEW a \in added, NEW b \in added
                 PROVE  a = b \/ Apart(a[2], b[2])
      OBVIOUS
    <3>1. PICK i, j \in DOMAIN outs : a[2] = T(i) /\ b[2] = T(j)
      BY <1>17
    <3>2. i = j \/ i < j \/ j < i
      BY <1>12
    <3>3. i = j => a = b
      <4> HIDE DEF T
      <4> QED
        BY <1>17, <3>1
    <3>4. \A x, y : Apart(x, y) => Apart(y, x)
      BY DEF Apart
    <3>5. i < j => Apart(a[2], b[2])
      BY <1>20, <3>1
    <3>6. j < i => Apart(b[2], a[2])
      BY <1>20, <3>1
    <3> QED
      BY <3>2, <3>3, <3>4, <3>5, <3>6
  <2>2. ASSUME NEW a \in added, NEW t \in Range(files[l + 1]),
               <<l + 1, t>> \notin deleted
        PROVE  Apart(a[2], t)
    <3>1. t \notin in1
      BY <1>15, <2>2
    <3>2. Beside(t, E) /\ t \in ATable
      BY <1>3, <1>4, <1>5, <3>1, LevelFacts
    <3>3. a[2] \in ATable /\ Range(a[2].data) \subseteq E
      <4> HIDE DEF T
      <4> QED
        BY <1>14, <1>17
    <3> QED
      BY <3>2, <3>3, BesideApart
  <2>3. \A a \in added : a[1] \in Levels /\ a[1] # 0 =>
          \A t \in Range(files[a[1]]) :
            <<a[1], t>> \notin deleted => Apart(a[2], t)
    BY <1>17, <2>2
  <2> QED
    BY <1>23, <2>1, <2>3, ApartAfter
<1>25. RunInv' /\ ChosenInv' /\ MemInv'
  BY <1>1, <1>16 DEF RunInv, ChosenInv, MemInv, Apply
<1>26. l # l + 1
  BY <1>3
<1>27. ASSUME NEW m \in Levels, m # l + 1
       PROVE  Range(files'[m]) = IF m = l THEN Range(files[m]) \ in0
                                          ELSE Range(files[m])
  <2>1. {x \in added : x[1] = m} = {}
    BY <1>17, <1>27
  <2>2. \A f \in Range(files[m]) : <<m, f>> \in deleted <=> (m = l /\ f \in in0)
    BY <1>15, <1>27
  <2>3. Range(files'[m]) = {f \in Range(files[m]) : ~(m = l /\ f \in in0)}
    BY <1>23, <2>1, <2>2 DEF Placed
  <2> QED
    BY <2>3
<1>28. Entries(Range(files'[l + 1])) = Entries(Range(files[l + 1]) \ in1)
                                         \cup Put(outs)
  <2>1. \A f \in Range(files[l + 1]) : <<l + 1, f>> \in deleted <=> f \in in1
    BY <1>15, <1>26
  <2>2. PICK new : new = {a[2] : a \in {x \in added : x[1] = l + 1}}
    OBVIOUS
  <2>3. Range(files'[l + 1]) = (Range(files[l + 1]) \ in1) \cup new
    BY <1>4, <1>23, <2>1, <2>2 DEF Placed
  <2>4. new = {T(i) : i \in DOMAIN outs}
    <3> HIDE DEF T
    <3>1. {x \in added : x[1] = l + 1} = added
      BY <1>17
    <3>2. new = {a[2] : a \in added}
      BY <2>2, <3>1
    <3>3. \A a \in new : \E i \in DOMAIN outs : a = T(i)
      BY <1>17, <3>2
    <3>4. ASSUME NEW i \in DOMAIN outs PROVE T(i) \in new
      <4>1. PICK x : x = <<l + 1, T(i)>>
        OBVIOUS
      <4>2. x \in added /\ x[2] = T(i)
        BY <1>15, <4>1
      <4> QED
        BY <3>2, <4>2
    <3> QED
      BY <3>3, <3>4
  <2>5. \A i \in DOMAIN outs : T(i).data = outs[i]
    OBVIOUS
  <2> HIDE DEF T
  <2>6. Entries(new) = Put(outs)
    BY <2>4, <2>5 DEF Entries, Put
  <2>7. \A a, b : Entries(a \cup b) = Entries(a) \cup Entries(b)
    BY DEF Entries
  <2> QED
    BY <2>3, <2>6, <2>7
<1>29. Range(files'[l]) = Range(files[l]) \ in0
  BY <1>4, <1>26, <1>27
<1> QED
  BY <1>2, <1>9, <1>23, <1>24, <1>25, <1>27, <1>28, <1>29

(* What the two history variables record is never forgotten.               *)
LEMMA StaysAbove ==
  ASSUME [Next]_vars, ~below'
  PROVE  ~below
<1>1. CASE Flush
  <2>1. PICK l : below' = (below \/ (l > 0 /\ running # None))
    BY <1>1 DEF Flush
  <2> QED
    BY <2>1, Zenon
<1>2. CASE ~Flush
  <2>1. below' = below
    BY <1>2 DEF Next, vars, Write, Switch, Pick, PickManual, Finish,
                UpdateStats, GetSnapshot, ReleaseSnapshot, CompactRange,
                CompactMore
  <2> QED
    BY <2>1
<1> QED
  BY <1>1, <1>2

LEMMA NothingRevived ==
  ASSUME [Next]_vars, ~revived'
  PROVE  ~revived /\ (Finish => ~Revives(running))
<1>1. CASE Finish
  <2>1. revived' = (revived \/ Revives(running))
    BY <1>1 DEF Finish
  <2> QED
    BY <2>1, Zenon
<1>2. CASE ~Finish
  <2>1. revived' = revived
    BY <1>2 DEF Next, vars, Write, Switch, Flush, Pick, PickManual,
                UpdateStats, GetSnapshot, ReleaseSnapshot, CompactRange,
                CompactMore
  <2> QED
    BY <1>2, <2>1
<1> QED
  BY <1>1, <1>2

-----------------------------------------------------------------------------
(* The theorems.                                                           *)

(* No order of writes, flushes, reads, snapshots, automatic and manual     *)
(* compactions breaks the order within the levels, the numbering of the    *)
(* tables, or what a compaction under way relies on, as long as no         *)
(* memtable is put below level 0 beside it (version_set.cc:695-754).       *)
THEOREM TreeInvariant == Spec => []TreeInv
<1>1. Init => TreeInv
  BY StartsInOrder
<1>2. TreeInv /\ [Next]_vars => TreeInv'
  <2> SUFFICES ASSUME TreeInv, [Next]_vars, ~below' PROVE Parts'
    BY DEF TreeInv, Parts
  <2>0. ~below
    BY StaysAbove
  <2>1. Parts
    BY <2>0 DEF TreeInv, Parts
  <2>2. CASE \E k \in Keys, t \in Types : Write(k, t)
    BY <2>1, <2>2, WriteStep
  <2>3. CASE Switch
    BY <2>1, <2>3, SwitchStep
  <2>4. CASE Flush
    BY <2>1, <2>4, FlushStep
  <2>5. CASE Pick
    BY <2>1, <2>5, PickStep
  <2>6. CASE PickManual
    BY <2>1, <2>6, PickManualStep
  <2>7. CASE Finish
    BY <2>1, <2>7, FinishStep
  <2>8. CASE \E k \in Keys, s \in {last} \cup Range(snapshots) : UpdateStats(k, s)
    BY <2>1, <2>8, UpdateStatsStep
  <2>9. CASE GetSnapshot \/ \E i \in DOMAIN snapshots : ReleaseSnapshot(i)
    BY <2>1, <2>9, SnapshotStep
  <2>10. CASE CompactMore \/ \E l \in Manual : CompactRange(l)
    BY <2>1, <2>10, CallStep
  <2>11. CASE UNCHANGED vars
    <3>1. UNCHANGED <<last, mem, imm, files, nextFile, seek, running, manual,
                      snapshots>>
      BY <2>11 DEF vars
    <3> QED
      BY <2>1, <3>1 DEF Parts, MemInv, LevelInv, ApartInv, RunInv, ChosenInv
  <2> QED
    BY <2>2, <2>3, <2>4, <2>5, <2>6, <2>7, <2>8, <2>9, <2>10, <2>11 DEF Next
<1> QED
  BY <1>1, <1>2, PTL DEF Spec

(* Below level 0 the tables of a level are sorted and disjoint, unless a   *)
(* memtable was put below level 0 beside a compaction: the order on which  *)
(* every binary search relies (version_set.cc:695-754, 747).               *)
THEOREM LevelsStayOrdered == Spec => []TreeOrdered
<1>1. TreeInv => TreeOrdered
  <2> SUFFICES ASSUME LevelInv, ApartInv, NEW l \in Levels \ {0},
                      NEW i \in 1 .. (Len(files[l]) - 1)
               PROVE  Less(Largest(files[l][i]), Smallest(files[l][i + 1]))
    BY DEF TreeInv, TreeOrdered, LevelsDisjoint
  <2>1. Len(files[l]) \in Nat /\ DOMAIN files[l] = 1 .. Len(files[l])
    BY LevelFacts
  <2>2. i \in DOMAIN files[l] /\ i + 1 \in DOMAIN files[l] /\ i < i + 1
    BY <2>1
  <2> QED
    BY <2>2, InLevelOrder
<1> QED
  BY <1>1, TreeInvariant, PTL

-----------------------------------------------------------------------------
(* Why a read sees the history.                                            *)

(* A merge drops an entry because a newer one hides it from every reader,  *)
(* or as an obsolete deletion, and then with everything older of its key.  *)
LEMMA MergeDrops ==
  ASSUME NEW E \in SUBSET AnEntry, IsFiniteSet(E),
         \A e, x \in E : e.s = x.s => e = x, NEW c, c.snapshot \in Nat,
         NEW K, K = Put(Merged(c, Sorted(E, Less)))
  PROVE  /\ K \subseteq E
         /\ \A e \in E \ K :
              \/ Obsolete(c, e)
              \/ \E p \in E : p.k = e.k /\ p.s > e.s /\ p.s <= c.snapshot
         /\ \A e \in E : Obsolete(c, e) => \A x \in K : x.k = e.k => x.s > e.s
<1>1. PICK input : input = Sorted(E, Less)
  OBVIOUS
<1>2. /\ input \in Seq(E) /\ Range(input) = E
      /\ \A i, j \in DOMAIN input : i < j => Less(input[i], input[j])
  BY <1>1, SortedEntries
<1>3. PICK N \in Nat : N = Len(input) /\ DOMAIN input = 1 .. N
  BY <1>2, LenProperties
<1> DEFINE D(i) == Drops(c, input[i], Previous(input, i))
<1>4. K = {input[i] : i \in {j \in 1 .. N : ~D(j)}}
  BY <1>1, <1>2, <1>3, MergedKeeps DEF Keeps
<1>5. \A i \in 1 .. N : input[i] \in E /\ input[i] \in AnEntry
  BY <1>2, <1>3, ElementOfSeq
<1>6. \A e \in E : \E i \in 1 .. N : e = input[i]
  BY <1>2, <1>3 DEF Range
<1>7. ASSUME NEW i \in 1 .. N
      PROVE  D(i) <=> \/ Obsolete(c, input[i])
                      \/ /\ i # 1 /\ input[i - 1].k = input[i].k
                         /\ input[i - 1].s <= c.snapshot
  <2>1. CASE i = 1
    BY <2>1 DEF Drops, Previous
  <2>2. CASE i # 1
    BY <2>2 DEF Drops, Previous, SmallestSnapshot
  <2> QED
    BY <2>1, <2>2
<1> HIDE DEF D
<1>8. ASSUME NEW e \in E \ K
      PROVE  \/ Obsolete(c, e)
             \/ \E p \in E : p.k = e.k /\ p.s > e.s /\ p.s <= c.snapshot
  <2>1. PICK i \in 1 .. N : e = input[i]
    BY <1>6
  <2>2. D(i)
    BY <1>4, <2>1
  <2>3. CASE Obsolete(c, e)
    BY <2>3
  <2>4. CASE i # 1 /\ input[i - 1].k = e.k /\ input[i - 1].s <= c.snapshot
    <3>1. i - 1 \in 1 .. N /\ i - 1 < i
      BY <2>4
    <3>2. PICK p : p = input[i - 1]
      OBVIOUS
    <3>3. p \in E /\ p \in AnEntry /\ Less(p, e) /\ e \in AnEntry
      BY <1>2, <1>3, <1>5, <2>1, <3>1, <3>2
    <3>4. p.s >= e.s /\ p.s \in Nat /\ e.s \in Nat
      BY <2>4, <3>2, <3>3, WithinKey
    <3>5. p.s # e.s
      <4>1. p # e
        BY <3>3, LessOrder
      <4> QED
        BY <3>3, <4>1
    <3>6. p.s > e.s
      BY <3>4, <3>5
    <3> QED
      BY <2>4, <3>2, <3>3, <3>6
  <2> QED
    BY <1>7, <2>1, <2>2, <2>3, <2>4
<1>9. ASSUME NEW e \in E, Obsolete(c, e), NEW x \in K, x.k = e.k
      PROVE  x.s > e.s
  <2>1. PICK i \in 1 .. N : x = input[i] /\ ~D(i)
    BY <1>4
  <2>2. PICK j \in 1 .. N : e = input[j]
    BY <1>6
  <2>3. e \in AnEntry /\ x \in AnEntry /\ x \in E /\ i \in Nat /\ j \in Nat
    BY <1>5, <2>1, <2>2
  <2>4. i # j
    BY <1>7, <1>9, <2>1, <2>2
  <2>5. CASE i < j
    <3>1. Less(x, e)
      BY <1>2, <1>3, <2>1, <2>2, <2>5
    <3>2. x.s >= e.s /\ x.s \in Nat /\ e.s \in Nat
      BY <1>9, <2>3, <3>1, WithinKey
    <3>3. x # e
      BY <2>3, <3>1, LessOrder
    <3>4. x.s # e.s
      BY <2>3, <3>3
    <3> QED
      BY <3>2, <3>4
  <2>6. CASE j < i
    <3>1. i - 1 \in 1 .. N /\ i - 1 < i /\ i # 1 /\ (i - 1 = j \/ j < i - 1)
      BY <2>6
    <3>2. PICK p : p = input[i - 1]
      OBVIOUS
    <3>3. p \in AnEntry /\ Less(p, x) /\ (p = e \/ Less(e, p))
      BY <1>2, <1>3, <1>5, <2>1, <2>2, <3>1, <3>2
    <3>4. p.k <= x.k /\ e.k <= p.k
      BY <2>3, <3>3, LessOrder, EntryFields
    <3>5. p.k = x.k /\ p.k = e.k
      BY <1>9, <2>3, <3>3, <3>4, EntryFields
    <3>6. p.s <= e.s /\ p.s \in Nat /\ e.s \in Nat
      BY <2>3, <3>3, <3>5, WithinKey
    <3>7. e.s <= c.snapshot
      BY <1>9 DEF Obsolete, SmallestSnapshot
    <3>8. p.s <= c.snapshot
      BY <3>6, <3>7
    <3> QED
      BY <1>7, <2>1, <3>1, <3>2, <3>5, <3>8
  <2> QED
    BY <2>3, <2>4, <2>5, <2>6
<1> QED
  BY <1>4, <1>5, <1>8, <1>9

Record ==
  /\ WrittenInv /\ NewerInv /\ KeptInv /\ SnapshotInv /\ WorkInv /\ ManualInv

LEMMA StartsRecorded == Init => HistoryInv
<1> SUFFICES ASSUME Init PROVE Record
  BY DEF HistoryInv, Record
<1>1. \A l \in Levels : Entries(Range(files[l])) = {}
  BY DEF Init, Entries, Range
<1>2. 0 \in Levels
  BY SizesAssumption DEF Levels
<1>3. Range(files[0]) = {}
  BY <1>2 DEF Init, Range
<1>4. mem = {} /\ imm = {} /\ written = {} /\ running = None /\ manual = None
      /\ snapshots = << >>
  BY DEF Init
<1>5. Stored = {}
  BY <1>1, <1>4 DEF Stored
<1>6. WrittenInv /\ KeptInv /\ WorkInv /\ ManualInv
  BY <1>4, <1>5 DEF WrittenInv, KeptInv, WorkInv, ManualInv
<1>7. NewerInv
  BY <1>1, <1>3, <1>4 DEF NewerInv, Newer
<1>8. SnapshotInv
  BY <1>4 DEF SnapshotInv
<1> QED
  BY <1>6, <1>7, <1>8 DEF Record

(* Steps that move entries, and neither lose nor write one.                *)
LEMMA SameStore ==
  ASSUME Record, UNCHANGED <<last, snapshots, written>>, Stored' = Stored
  PROVE  WrittenInv' /\ KeptInv' /\ SnapshotInv'
<1>1. WrittenInv'
  BY DEF Record, WrittenInv
<1>2. SnapshotInv'
  BY DEF Record, SnapshotInv
<1>3. KeptInv'
  BY DEF Record, KeptInv, Shown
<1> QED
  BY <1>1, <1>2, <1>3

LEMMA SwitchRecorded ==
  ASSUME Parts, Record, Switch
  PROVE  Record'
<1>1. /\ imm = {} /\ imm' = mem /\ mem' = {}
      /\ UNCHANGED <<last, files, running, manual, snapshots, written>>
  BY DEF Switch
<1>2. Stored' = Stored
  BY <1>1 DEF Stored
<1>3. NewerInv'
  BY <1>1 DEF Record, NewerInv, Newer
<1>4. WorkInv' /\ ManualInv'
  BY <1>1 DEF Record, WorkInv, ManualInv
<1> QED
  BY <1>1, <1>2, <1>3, <1>4, SameStore DEF Record

LEMMA WriteRecorded ==
  ASSUME Parts, Record, NEW k \in Keys, NEW t \in Types, Write(k, t)
  PROVE  Record'
<1>1. PICK e : e = Entry(k, last + 1, t)
  OBVIOUS
<1>2. /\ last < MaxSeq /\ last' = last + 1
      /\ mem' = mem \cup {e} /\ written' = written \cup {e}
      /\ UNCHANGED <<imm, files, running, manual, snapshots>>
  BY <1>1 DEF Write
<1>3. last \in Nat /\ MaxSeq \in Nat /\ snapshots \in Seq(Nat)
  BY SizesAssumption DEF Parts, MemInv
<1>4. e \in AnEntry /\ e.k = k /\ e.s = last + 1
  <2>1. last + 1 \in 1 .. MaxSeq /\ t \in {Value, Deletion}
    BY <1>2, <1>3, SizesAssumption DEF Value, Deletion
  <2> QED
    BY <1>1, <2>1 DEF Entry, AnEntry
<1>5. Stored' = Stored \cup {e}
  BY <1>2 DEF Stored
<1>6. \A x \in written : x.s <= last /\ x.s \in Nat /\ x \in AnEntry
  BY EntryFields DEF Record, WrittenInv
<1>7. WrittenInv'
  <2>1. Stored' \subseteq written' /\ written' \subseteq AnEntry
    BY <1>2, <1>4, <1>5 DEF Record, WrittenInv
  <2>2. \A x \in written' : x.s <= last'
    BY <1>2, <1>3, <1>4, <1>6
  <2>3. \A x, y \in written' : x.s = y.s => x = y
    <3>1. \A x \in written : x.s # e.s
      BY <1>3, <1>4, <1>6
    <3>2. \A x, y \in written : x.s = y.s => x = y
      BY DEF Record, WrittenInv
    <3> QED
      BY <1>2, <3>1, <3>2
  <2> QED
    BY <2>1, <2>2, <2>3 DEF WrittenInv
<1>8. \A x \in Stored : x.s < e.s /\ x \in written
  BY <1>3, <1>4, <1>6 DEF Record, WrittenInv
<1>9. NewerInv'
  <2>1. \A x \in imm : e.s > x.s
    BY <1>3, <1>4, <1>6, <1>8 DEF Stored
  <2>2. ASSUME NEW l \in Levels, NEW x \in Entries(Range(files[l]))
        PROVE  e.s > x.s
    BY <1>3, <1>4, <1>6, <1>8 DEF Stored
  <2>3. Newer(mem', imm')
    BY <1>2, <2>1 DEF Record, NewerInv, Newer
  <2>4. \A l \in Levels : Newer(mem' \cup imm', Entries(Range(files'[l])))
    BY <1>2, <2>2 DEF Record, NewerInv, Newer
  <2> QED
    BY <1>2, <2>3, <2>4 DEF Record, NewerInv
<1>10. \A s \in {last} \cup Range(snapshots) : s \in Nat /\ s <= last
  <2>1. \A s \in Range(snapshots) : s \in Nat
    BY <1>3, TablesOf
  <2>2. \A s \in Range(snapshots) : s <= last
    BY DEF Record, SnapshotInv, Range
  <2> QED
    BY <1>3, <2>1, <2>2
<1>11. KeptInv'
  <2> SUFFICES ASSUME NEW s \in {last'} \cup Range(snapshots'),
                      NEW w \in written', Shown(w, s)'
               PROVE  \/ w \in Stored'
                      \/ w.t = Deletion /\ \A x \in Stored' : x.k = w.k => x.s > w.s
    BY DEF KeptInv
  <2>1. w.s <= s /\ \A x \in written' : x.k = w.k /\ x.s <= s => x.s <= w.s
    BY DEF Shown
  <2>2. CASE w = e
    BY <1>5, <2>2
  <2>3. CASE w # e
    <3>1. w \in written
      BY <1>2, <2>3
    <3>2. PICK r \in {last} \cup Range(snapshots) : Shown(w, r)
      <4>1. CASE s \in Range(snapshots)
        BY <1>2, <2>1, <4>1 DEF Shown
      <4>2. CASE s = last'
        <5>1. w.s <= last
          BY <1>6, <3>1
        <5>2. \A x \in written : x.k = w.k /\ x.s <= last => x.s <= w.s
          BY <1>2, <1>3, <1>6, <2>1, <4>2
        <5> QED
          BY <5>1, <5>2 DEF Shown
      <4> QED
        BY <1>2, <4>1, <4>2
    <3>3. \/ w \in Stored
          \/ w.t = Deletion /\ \A x \in Stored : x.k = w.k => x.s > w.s
      BY <3>1, <3>2 DEF Record, KeptInv
    <3>4. e.s > w.s
      BY <1>3, <1>4, <1>6, <3>1
    <3> QED
      BY <1>5, <3>3, <3>4
  <2> QED
    BY <2>2, <2>3
<1>12. SnapshotInv'
  <2>1. \A i \in DOMAIN snapshots : snapshots[i] <= last + 1
    <3>1. \A i \in DOMAIN snapshots : snapshots[i] \in Range(snapshots)
      BY DEF Range
    <3> QED
      BY <1>3, <1>10, <3>1
  <2> QED
    BY <1>2, <2>1 DEF Record, SnapshotInv
<1>13. WorkInv'
  <2> SUFFICES ASSUME running # None PROVE WorkInv'
    BY <1>2 DEF WorkInv
  <2>1. /\ running.snapshot \in Nat
        /\ \A s \in {last} \cup Range(snapshots) : running.snapshot <= s
    BY DEF Record, WorkInv
  <2>2. \A s \in {last'} \cup Range(snapshots') : running.snapshot <= s
    BY <1>2, <1>3, <2>1
  <2> QED
    BY <1>2, <2>2 DEF Record, WorkInv
<1>14. ManualInv'
  BY <1>2 DEF Record, ManualInv
<1> QED
  BY <1>7, <1>9, <1>11, <1>12, <1>13, <1>14 DEF Record

LEMMA RemoveAtIs ==
  ASSUME NEW s \in Seq(Nat), NEW i \in DOMAIN s, NEW t, t = RemoveAt(s, i)
  PROVE  /\ DOMAIN t = 1 .. (Len(s) - 1) /\ Len(s) \in Nat
         /\ \A j \in DOMAIN t : t[j] = IF j < i THEN s[j] ELSE s[j + 1]
         /\ \A j \in DOMAIN t : (IF j < i THEN j ELSE j + 1) \in DOMAIN s
<1>1. Len(s) \in Nat /\ i \in 1 .. Len(s) /\ DOMAIN s = 1 .. Len(s)
  BY LenProperties
<1>2. PICK a, b : a = SubSeq(s, 1, i - 1) /\ b = SubSeq(s, i + 1, Len(s))
  OBVIOUS
<1>3. /\ a \in Seq(Nat) /\ Len(a) = i - 1
      /\ \A j \in 1 .. (i - 1) : a[j] = s[j]
  <2>1. \A j \in 1 .. (i - 1) : s[j] \in Nat
    BY <1>1, ElementOfSeq
  <2> QED
    BY <1>1, <1>2, <2>1, SubSeqProperties
<1>4. /\ b \in Seq(Nat) /\ Len(b) = Len(s) - i
      /\ \A j \in 1 .. (Len(s) - i) : b[j] = s[j + i]
  <2>1. \A j \in (i + 1) .. Len(s) : s[j] \in Nat
    BY <1>1, ElementOfSeq
  <2>2. PICK m, n : m = i + 1 /\ n = Len(s)
    OBVIOUS
  <2>3. m \in Int /\ n \in Int /\ \A j \in m .. n : s[j] \in Nat
    BY <1>1, <2>1, <2>2
  <2>4. /\ SubSeq(s, m, n) \in Seq(Nat)
        /\ Len(SubSeq(s, m, n)) = IF m <= n THEN n - m + 1 ELSE 0
        /\ \A j \in 1 .. (n - m + 1) : SubSeq(s, m, n)[j] = s[m + j - 1]
    BY <2>3, SubSeqProperties, SMTT(30)
  <2>5. b = SubSeq(s, m, n)
    BY <1>2, <2>2
  <2>6. /\ b \in Seq(Nat) /\ Len(b) = IF m <= n THEN n - m + 1 ELSE 0
        /\ \A j \in 1 .. (n - m + 1) : b[j] = s[m + j - 1]
    BY <2>4, <2>5
  <2>7. (IF m <= n THEN n - m + 1 ELSE 0) = n - i /\ n - m + 1 = n - i
    BY <1>1, <2>2
  <2>8. \A j \in 1 .. (n - i) : m + j - 1 = j + i
    BY <1>1, <2>2
  <2> QED
    BY <2>2, <2>6, <2>7, <2>8
<1>5. t = a \o b
  BY <1>2 DEF RemoveAt
<1>6. /\ t \in Seq(Nat) /\ Len(t) = Len(a) + Len(b)
      /\ \A j \in 1 .. (Len(a) + Len(b)) :
           t[j] = IF j <= Len(a) THEN a[j] ELSE b[j - Len(a)]
  <2>1. a \in Seq(Nat) /\ b \in Seq(Nat)
    BY <1>3, <1>4
  <2> HIDE <1>1, <1>2, <1>3, <1>4
  <2> QED
    BY <1>5, <2>1, ConcatProperties
<1>7. DOMAIN t = 1 .. Len(t)
  BY <1>6, LenProperties
<1>8. Len(t) = Len(s) - 1
  BY <1>1, <1>3, <1>4, <1>6
<1>9. ASSUME NEW j \in DOMAIN t
      PROVE  t[j] = IF j < i THEN s[j] ELSE s[j + 1]
  <2>1. j \in 1 .. (Len(s) - 1)
    BY <1>7, <1>8
  <2>2. t[j] = IF j <= i - 1 THEN a[j] ELSE b[j - (i - 1)]
    BY <1>1, <1>3, <1>6, <1>8, <2>1
  <2>3. CASE j < i
    BY <1>1, <1>3, <2>1, <2>2, <2>3
  <2>4. CASE ~(j < i)
    <3>0. i \in Int /\ j \in Int /\ Len(s) \in Int /\ i <= j /\ j <= Len(s) - 1
      BY <1>1, <2>1, <2>4
    <3>1. j - (i - 1) \in 1 .. (Len(s) - i) /\ (j - (i - 1)) + i = j + 1
      BY <3>0, SMTT(30)
    <3>2. b[j - (i - 1)] = s[j + 1]
      BY <1>4, <3>1
    <3> QED
      BY <1>1, <2>1, <2>2, <2>4, <3>2
  <2> QED
    BY <2>3, <2>4
<1> QED
  BY <1>1, <1>7, <1>8, <1>9

LEMMA SnapshotRecorded ==
  ASSUME Parts, Record,
         GetSnapshot \/ \E i \in DOMAIN snapshots : ReleaseSnapshot(i)
  PROVE  Record'
<1>1. UNCHANGED <<last, mem, imm, files, nextFile, running, manual, written>>
  BY DEF GetSnapshot, ReleaseSnapshot
<1>2. last \in Nat /\ snapshots \in Seq(Nat) /\ Range(snapshots) \subseteq Nat
  BY SizesAssumption, TablesOf DEF Parts, MemInv
<1>3. /\ \A i \in DOMAIN snapshots : snapshots[i] \in Nat /\ snapshots[i] <= last
      /\ \A i, j \in DOMAIN snapshots : i < j => snapshots[i] <= snapshots[j]
  BY <1>2, ElementOfSeq DEF Record, SnapshotInv, Range
<1>4. SnapshotInv' /\ Range(snapshots') \subseteq {last} \cup Range(snapshots)
  <2>1. CASE GetSnapshot
    <3>1. snapshots' = Append(snapshots, last)
      BY <2>1 DEF GetSnapshot
    <3>2. /\ DOMAIN snapshots' = 1 .. (Len(snapshots) + 1) /\ Len(snapshots) \in Nat
          /\ DOMAIN snapshots = 1 .. Len(snapshots)
          /\ \A i \in DOMAIN snapshots : snapshots'[i] = snapshots[i]
          /\ snapshots'[Len(snapshots) + 1] = last
          /\ Range(snapshots') = Range(snapshots) \cup {last}
      BY <1>2, <3>1, AppendIs
    <3>3. \A i \in DOMAIN snapshots' : snapshots'[i] <= last'
      BY <1>1, <1>2, <1>3, <3>2
    <3>4. ASSUME NEW i \in DOMAIN snapshots', NEW j \in DOMAIN snapshots', i < j
          PROVE  snapshots'[i] <= snapshots'[j]
      <4>1. i \in DOMAIN snapshots
        BY <3>2, <3>4
      <4>2. CASE j = Len(snapshots) + 1
        BY <1>3, <3>2, <4>1, <4>2
      <4>3. CASE j # Len(snapshots) + 1
        <5>1. j \in DOMAIN snapshots
          BY <3>2, <4>3
        <5> QED
          BY <1>3, <3>2, <3>4, <4>1, <5>1
      <4> QED
        BY <4>2, <4>3
    <3> QED
      BY <3>2, <3>3, <3>4 DEF SnapshotInv
  <2>2. CASE \E i \in DOMAIN snapshots : ReleaseSnapshot(i)
    <3>1. PICK i \in DOMAIN snapshots : snapshots' = RemoveAt(snapshots, i)
      BY <2>2 DEF ReleaseSnapshot
    <3>2. PICK at : at = [j \in DOMAIN snapshots' |-> IF j < i THEN j ELSE j + 1]
      OBVIOUS
    <3>3. /\ DOMAIN snapshots' = 1 .. (Len(snapshots) - 1) /\ Len(snapshots) \in Nat
          /\ \A j \in DOMAIN snapshots' :
               at[j] \in DOMAIN snapshots /\ snapshots'[j] = snapshots[at[j]]
      <4>1. /\ DOMAIN snapshots' = 1 .. (Len(snapshots) - 1)
            /\ Len(snapshots) \in Nat
            /\ \A j \in DOMAIN snapshots' :
                 snapshots'[j] = IF j < i THEN snapshots[j] ELSE snapshots[j + 1]
            /\ \A j \in DOMAIN snapshots' :
                 (IF j < i THEN j ELSE j + 1) \in DOMAIN snapshots
        BY <1>2, <3>1, RemoveAtIs
      <4>2. \A j \in DOMAIN snapshots' : at[j] = IF j < i THEN j ELSE j + 1
        BY <3>2
      <4> QED
        BY <4>1, <4>2
    <3>4. i \in Nat
      BY <1>2, LenProperties
    <3>5. \A j, m \in DOMAIN snapshots' : j < m => at[j] < at[m]
      BY <3>2, <3>3, <3>4
    <3>6. SnapshotInv'
      BY <1>1, <1>3, <3>3, <3>5 DEF SnapshotInv
    <3> QED
      BY <3>3, <3>6 DEF Range
  <2> QED
    BY <2>1, <2>2
<1>5. Stored' = Stored
  BY <1>1 DEF Stored
<1>6. WrittenInv' /\ NewerInv' /\ ManualInv'
  BY <1>1, <1>5 DEF Record, WrittenInv, NewerInv, ManualInv
<1>7. KeptInv'
  BY <1>1, <1>4, <1>5 DEF Record, KeptInv, Shown
<1>8. WorkInv'
  BY <1>1, <1>4 DEF Record, WorkInv
<1> QED
  BY <1>4, <1>6, <1>7, <1>8 DEF Record

LEMMA UpdateStatsRecorded ==
  ASSUME Record, NEW k, NEW s, UpdateStats(k, s)
  PROVE  Record'
<1>1. UNCHANGED <<last, mem, imm, files, running, manual, snapshots, written>>
  BY DEF UpdateStats
<1>2. Stored' = Stored
  BY <1>1 DEF Stored
<1> QED
  BY <1>1, <1>2, SameStore DEF Record, NewerInv, WorkInv, ManualInv

LEMMA CallRecorded ==
  ASSUME Parts, Record, CompactMore \/ \E l \in Manual : CompactRange(l)
  PROVE  Record'
<1>1. UNCHANGED <<last, mem, imm, files, running, snapshots, written>>
  BY DEF CompactMore, CompactRange
<1>2. Stored' = Stored
  BY <1>1 DEF Stored
<1>3. ManualInv'
  <2>1. CASE CompactMore
    <3>1. /\ manual # None /\ manual' = [manual EXCEPT !.armed = TRUE]
          /\ DOMAIN manual = {"level", "lo", "hi", "armed"}
      BY <2>1 DEF CompactMore, Parts, ChosenInv
    <3>2. manual'.lo = manual.lo /\ manual'.hi = manual.hi
      BY <3>1
    <3> QED
      BY <3>1, <3>2 DEF Record, ManualInv
  <2>2. CASE \E l \in Manual : CompactRange(l)
    <3>1. PICK l \in Manual : CompactRange(l)
      BY <2>2
    <3>2. PICK hi : hi = Max(Keys) + 1
      OBVIOUS
    <3>3. manual' = [level |-> l, lo |-> 0, hi |-> hi, armed |-> TRUE]
      BY <3>1, <3>2 DEF CompactRange
    <3>4. ASSUME Keys # {} PROVE hi \in Nat
      <4>1. PICK b \in Nat : \A k \in Keys : k <= b
        BY KeysBound
      <4>2. Max(Keys) \in Keys
        BY <3>4, <4>1, KeysAssumption, MaxIs
      <4>3. Max(Keys) \in Nat
        BY <4>2, KeysAssumption
      <4> QED
        BY <3>2, <4>3
    <3> QED
      BY <3>3, <3>4 DEF ManualInv
  <2> QED
    BY <2>1, <2>2
<1> QED
  BY <1>1, <1>2, <1>3, SameStore DEF Record, NewerInv, WorkInv

LEMMA FlushRecorded ==
  ASSUME Parts, Record, ~below', Flush
  PROVE  Record'
<1>1. /\ imm' = {}
      /\ UNCHANGED <<last, mem, running, manual, snapshots, written>>
  BY DEF Flush
<1>2. PICK l \in Levels, f \in ATable :
        /\ f.num = nextFile /\ Range(f.data) = imm /\ Placing(l, f)
        /\ l # 0 => /\ running = None
                    /\ \A m \in 0 .. l :
                         ~OverlapInLevel(files, m, Smallest(f).k, Largest(f).k)
  BY FlushStep
<1>3. /\ \A m \in Levels \ {l} : Range(files'[m]) = Range(files[m])
      /\ Range(files'[l]) = Range(files[l]) \cup {f}
  BY <1>2 DEF Placing
<1>4. /\ \A m \in Levels \ {l} :
           Entries(Range(files'[m])) = Entries(Range(files[m]))
      /\ Entries(Range(files'[l])) = Entries(Range(files[l])) \cup imm
  BY <1>2, <1>3 DEF Entries
<1>5. Stored' = Stored
  <2>1. PICK t, u : /\ t = UNION {Entries(Range(files[m])) : m \in Levels}
                    /\ u = UNION {Entries(Range(files'[m])) : m \in Levels}
    OBVIOUS
  <2>2. ASSUME NEW x \in u PROVE x \in t \cup imm
    <3>1. PICK m \in Levels : x \in Entries(Range(files'[m]))
      BY <2>1
    <3>2. x \in Entries(Range(files[m])) \cup imm
      BY <1>4, <3>1
    <3> QED
      BY <2>1, <3>2
  <2>3. ASSUME NEW x \in t \cup imm PROVE x \in u
    <3>1. PICK m \in Levels : x \in Entries(Range(files'[m]))
      BY <1>4, <2>1
    <3> QED
      BY <2>1, <3>1
  <2>4. Stored = mem \cup imm \cup t
    BY <2>1 DEF Stored
  <2>5. Stored' = mem' \cup imm' \cup u
    BY <2>1 DEF Stored, Levels
  <2> QED
    BY <1>1, <2>2, <2>3, <2>4, <2>5
<1>6. /\ Newer(mem, imm)
      /\ \A m \in Levels : Newer(mem \cup imm, Entries(Range(files[m])))
      /\ \A g, h \in Range(files[0]) :
           g.num > h.num => Newer(Range(g.data), Range(h.data))
      /\ \A a, b \in Levels :
           a < b => Newer(Entries(Range(files[a])), Entries(Range(files[b])))
  BY DEF Record, NewerInv
<1>7. 0 \in Levels /\ Levels \subseteq Nat
  BY SizesAssumption DEF Levels
<1>8. NewerInv'
  <2>1. Newer(mem', imm')
    BY <1>1 DEF Newer
  <2>2. ASSUME NEW m \in Levels
        PROVE  Newer(mem' \cup imm', Entries(Range(files'[m])))
    BY <1>1, <1>4, <1>6 DEF Newer
  <2>3. ASSUME NEW g \in Range(files'[0]), NEW h \in Range(files'[0]),
               g.num > h.num
        PROVE  Newer(Range(g.data), Range(h.data))
    <3>1. CASE l # 0
      BY <1>3, <1>6, <1>7, <2>3, <3>1
    <3>2. CASE l = 0
      <4>1. \A y \in Range(files[0]) : y.num < nextFile /\ y.num \in Nat
        BY <1>7, LevelFacts, TableFacts DEF Parts, LevelInv
      <4>2. nextFile \in Nat
        BY DEF Parts, LevelInv
      <4>3. h \in Range(files[0])
        BY <1>2, <1>3, <2>3, <3>2, <4>1, <4>2
      <4>4. CASE g \in Range(files[0])
        BY <1>6, <2>3, <4>3, <4>4
      <4>5. CASE g = f
        <5>1. Range(h.data) \subseteq Entries(Range(files[0]))
          BY <4>3 DEF Entries
        <5> QED
          BY <1>2, <1>6, <1>7, <4>5, <5>1 DEF Newer
      <4> QED
        BY <1>3, <3>2, <4>4, <4>5
    <3> QED
      BY <3>1, <3>2
  <2>4. ASSUME NEW a \in Levels, NEW b \in Levels, a < b
        PROVE  Newer(Entries(Range(files'[a])), Entries(Range(files'[b])))
    <3>1. CASE a = l
      <4>1. b # l
        BY <1>7, <2>4, <3>1
      <4> QED
        BY <1>4, <1>6, <2>4, <3>1, <4>1 DEF Newer
    <3>2. CASE b = l
      <4>1. a # l /\ l # 0 /\ a \in 0 .. l
        BY <1>7, <2>4, <3>2
      <4>2. ~OverlapInLevel(files, a, Smallest(f).k, Largest(f).k)
        BY <1>2, <4>1
      <4>3. \A e \in imm, x \in Entries(Range(files[a])) : e.k # x.k
        BY <1>2, <4>2, NoOverlapKeys DEF Parts
      <4> QED
        BY <1>4, <1>6, <2>4, <3>2, <4>1, <4>3 DEF Newer
    <3>3. CASE a # l /\ b # l
      BY <1>4, <1>6, <2>4, <3>3
    <3> QED
      BY <3>1, <3>2, <3>3
  <2> QED
    BY <2>1, <2>2, <2>3, <2>4 DEF NewerInv
<1>9. WorkInv'
  <2> SUFFICES ASSUME running # None PROVE WorkInv'
    BY <1>1 DEF WorkInv
  <2>1. l = 0
    BY <1>2
  <2>2. PICK L : L = running.level
    OBVIOUS
  <2>3. L \in 0 .. (NumLevels - 2) /\ L \in Levels /\ L + 1 \in Levels
    BY <2>2, SizesAssumption DEF Parts, RunInv, Levels
  <2>4. /\ running.in0 \subseteq Range(files[L])
        /\ running.in1 \subseteq Range(files[L + 1])
        /\ \A m \in (L + 2) .. (NumLevels - 1) :
             Range(running.version[m]) = Range(files[m])
        /\ Newer(Entries(Range(files[L]) \ running.in0), Entries(running.in0))
        /\ running.snapshot \in Nat
        /\ \A s \in {last} \cup Range(snapshots) : running.snapshot <= s
    BY <2>2 DEF Record, WorkInv
  <2>5. /\ running.in0 \subseteq Range(files'[L])
        /\ running.in1 \subseteq Range(files'[L + 1])
    BY <1>3, <2>3, <2>4
  <2>6. \A m \in (L + 2) .. (NumLevels - 1) :
          Range(running.version[m]) = Range(files'[m])
    <3>1. \A m \in (L + 2) .. (NumLevels - 1) : m \in Levels \ {l}
      BY <2>1, <2>3, SizesAssumption DEF Levels
    <3> QED
      BY <1>3, <2>4, <3>1
  <2>7. Newer(Entries(Range(files'[L]) \ running.in0), Entries(running.in0))
    <3>1. CASE L # l
      BY <1>3, <2>3, <2>4, <3>1
    <3>2. CASE L = l
      <4>1. Entries(Range(files'[L]) \ running.in0)
              \subseteq Entries(Range(files[L]) \ running.in0) \cup imm
        BY <1>2, <1>3, <3>2 DEF Entries
      <4>2. Entries(running.in0) \subseteq Entries(Range(files[L]))
        BY <2>4 DEF Entries
      <4>3. Newer(imm, Entries(running.in0))
        BY <1>6, <2>3, <4>2 DEF Newer
      <4> QED
        BY <2>4, <4>1, <4>3 DEF Newer
    <3> QED
      BY <3>1, <3>2
  <2> QED
    BY <1>1, <2>2, <2>4, <2>5, <2>6, <2>7 DEF WorkInv
<1>10. ManualInv'
  BY <1>1 DEF Record, ManualInv
<1> QED
  BY <1>1, <1>5, <1>8, <1>9, <1>10, SameStore DEF Record

LEMMA OneOfEachNumber ==
  ASSUME Record, NEW l \in Levels
  PROVE  \A e, x \in Entries(Range(files[l])) : e.s = x.s => e = x
<1>1. Entries(Range(files[l])) \subseteq Stored
  BY DEF Stored
<1> QED
  BY <1>1 DEF Record, WrittenInv

LEMMA MoveRecorded ==
  ASSUME Parts, Record, running = None, NEW l \in 0 .. (NumLevels - 2), NEW fs,
         fs \subseteq Range(files[l]), fs # {}, Whole(l, fs),
         NEW c, c = Compaction(l, fs), IsTrivialMove(c), Move(c),
         UNCHANGED <<last, mem, imm, nextFile, manual, snapshots, written>>
  PROVE  Record'
<1>1. running' = None
  BY MoveStep
<1>2. PICK f \in Range(files[l]) :
        /\ c.in0 = {f}
        /\ Range(files'[l]) = Range(files[l]) \ {f}
        /\ Range(files'[l + 1]) = Range(files[l + 1]) \cup {f}
        /\ \A m \in Levels \ {l, l + 1} : Range(files'[m]) = Range(files[m])
  BY MoveStep
<1>3. /\ l \in Levels /\ l + 1 \in Levels /\ l + 1 # l /\ 0 \in Levels
      /\ Levels \subseteq Nat /\ l \in Nat
  BY SizesAssumption DEF Levels
<1>4. Newer(Entries(Range(files[l]) \ {f}), Range(f.data))
  <2>1. \A e, x \in Entries(Range(files[l])) : e.s = x.s => e = x
    BY <1>3, OneOfEachNumber
  <2>2. Newer(Entries(Range(files[l]) \ c.in0), Entries(c.in0))
    BY <2>1, CompactionRest DEF Parts
  <2>3. Entries({f}) = Range(f.data)
    BY DEF Entries
  <2> QED
    BY <1>2, <2>2, <2>3
<1>5. /\ Entries(Range(files'[l])) = Entries(Range(files[l]) \ {f})
      /\ Entries(Range(files'[l + 1]))
           = Entries(Range(files[l + 1])) \cup Range(f.data)
      /\ \A m \in Levels \ {l, l + 1} :
           Entries(Range(files'[m])) = Entries(Range(files[m]))
  BY <1>2 DEF Entries
<1>6. Entries(Range(files[l])) = Entries(Range(files[l]) \ {f}) \cup Range(f.data)
  BY DEF Entries
<1>7. Stored' = Stored
  <2>1. PICK t, u : /\ t = UNION {Entries(Range(files[m])) : m \in Levels}
                    /\ u = UNION {Entries(Range(files'[m])) : m \in Levels}
    OBVIOUS
  <2>2. ASSUME NEW x \in u PROVE x \in t
    <3>1. PICK m \in Levels : x \in Entries(Range(files'[m]))
      BY <2>1
    <3>2. \E n \in Levels : x \in Entries(Range(files[n]))
      BY <1>3, <1>5, <1>6, <3>1
    <3> QED
      BY <2>1, <3>2
  <2>3. ASSUME NEW x \in t PROVE x \in u
    <3>1. PICK m \in Levels : x \in Entries(Range(files[m]))
      BY <2>1
    <3>2. \E n \in Levels : x \in Entries(Range(files'[n]))
      BY <1>3, <1>5, <1>6, <3>1
    <3> QED
      BY <2>1, <3>2
  <2>4. Stored = mem \cup imm \cup t
    BY <2>1 DEF Stored
  <2>5. Stored' = mem' \cup imm' \cup u
    BY <2>1 DEF Stored, Levels
  <2> QED
    BY <2>2, <2>3, <2>4, <2>5
<1>8. /\ Newer(mem, imm)
      /\ \A m \in Levels : Newer(mem \cup imm, Entries(Range(files[m])))
      /\ \A g, h \in Range(files[0]) :
           g.num > h.num => Newer(Range(g.data), Range(h.data))
      /\ \A a, b \in Levels :
           a < b => Newer(Entries(Range(files[a])), Entries(Range(files[b])))
  BY DEF Record, NewerInv
<1>9. NewerInv'
  <2>1. Newer(mem', imm')
    BY <1>8
  <2>2. ASSUME NEW m \in Levels
        PROVE  Newer(mem' \cup imm', Entries(Range(files'[m])))
    BY <1>3, <1>5, <1>6, <1>8 DEF Newer
  <2>3. Range(files'[0]) \subseteq Range(files[0])
    BY <1>2, <1>3
  <2>4. ASSUME NEW a \in Levels, NEW b \in Levels, a < b
        PROVE  Newer(Entries(Range(files'[a])), Entries(Range(files'[b])))
    <3>1. CASE a = l
      <4>1. b # l
        BY <1>3, <2>4, <3>1
      <4> QED
        BY <1>4, <1>5, <1>6, <1>8, <2>4, <3>1, <4>1 DEF Newer
    <3>2. CASE a = l + 1
      <4>1. b # l /\ b # l + 1 /\ l < b
        BY <1>3, <2>4, <3>2
      <4> QED
        BY <1>3, <1>5, <1>6, <1>8, <2>4, <3>2, <4>1 DEF Newer
    <3>3. CASE a # l /\ a # l + 1 /\ b = l
      BY <1>5, <1>6, <1>8, <2>4, <3>3 DEF Newer
    <3>4. CASE a # l /\ a # l + 1 /\ b = l + 1
      <4>1. a < l
        BY <1>3, <2>4, <3>4
      <4> QED
        BY <1>3, <1>5, <1>6, <1>8, <2>4, <3>4, <4>1 DEF Newer
    <3>5. CASE a \notin {l, l + 1} /\ b \notin {l, l + 1}
      BY <1>5, <1>8, <2>4, <3>5
    <3> QED
      BY <3>1, <3>2, <3>3, <3>4, <3>5
  <2> QED
    BY <1>8, <2>1, <2>2, <2>3, <2>4 DEF NewerInv
<1>10. WorkInv' /\ ManualInv'
  BY <1>1 DEF Record, WorkInv, ManualInv
<1> QED
  BY <1>7, <1>9, <1>10, SameStore DEF Record

(* A compaction begins: what it leaves of its level is newer than what it  *)
(* takes, and no reader is older than its snapshot.                        *)
LEMMA BeginRecorded ==
  ASSUME Parts, Record, NEW l \in 0 .. (NumLevels - 2), NEW fs,
         fs \subseteq Range(files[l]), fs # {}, Whole(l, fs),
         NEW c, c = Compaction(l, fs), Begin(c),
         UNCHANGED <<last, mem, imm, snapshots, written>>
  PROVE  WrittenInv' /\ NewerInv' /\ KeptInv' /\ SnapshotInv' /\ WorkInv'
<1>1. files' = files /\ running' = c
  BY DEF Begin
<1>2. Stored' = Stored
  BY <1>1 DEF Stored
<1>3. NewerInv'
  BY <1>1 DEF Record, NewerInv
<1>4. l \in Levels
  BY SizesAssumption DEF Levels
<1>5. /\ Newer(Entries(Range(files[l]) \ c.in0), Entries(c.in0))
      /\ c.version = files
      /\ c.snapshot = IF snapshots = << >> THEN last ELSE snapshots[1]
  <2>1. \A e, x \in Entries(Range(files[l])) : e.s = x.s => e = x
    BY <1>4, OneOfEachNumber
  <2> QED
    BY <2>1, CompactionRest DEF Parts
<1>6. /\ c.level = l /\ c.in0 \subseteq Range(files[l])
      /\ c.in1 \subseteq Range(files[l + 1])
  BY CompactionIs DEF Parts
<1>7. c.snapshot \in Nat /\ \A s \in {last} \cup Range(snapshots) : c.snapshot <= s
  <2>1. last \in Nat /\ snapshots \in Seq(Nat)
    BY SizesAssumption DEF Parts, MemInv
  <2>2. CASE snapshots = << >>
    <3>1. Range(snapshots) = {}
      BY <2>2 DEF Range
    <3> QED
      BY <1>5, <2>1, <2>2, <3>1
  <2>3. CASE snapshots # << >>
    <3>1. /\ Len(snapshots) \in Nat /\ 1 \in DOMAIN snapshots
          /\ DOMAIN snapshots = 1 .. Len(snapshots)
      BY <2>1, <2>3, LenProperties, EmptySeq
    <3>2. \A i \in DOMAIN snapshots : snapshots[i] \in Nat
      BY <2>1, ElementOfSeq
    <3>3. \A i \in DOMAIN snapshots : snapshots[1] <= snapshots[i]
      <4>1. \A i \in DOMAIN snapshots : i = 1 \/ 1 < i
        BY <3>1
      <4> QED
        BY <3>1, <3>2, <4>1 DEF Record, SnapshotInv
    <3>4. snapshots[1] <= last
      BY <3>1 DEF Record, SnapshotInv
    <3> QED
      BY <1>5, <2>3, <3>1, <3>2, <3>3, <3>4 DEF Range
  <2> QED
    BY <2>2, <2>3
<1>8. WorkInv'
  BY <1>1, <1>5, <1>6, <1>7 DEF WorkInv
<1> QED
  BY <1>2, <1>3, <1>8, SameStore

LEMMA PickRecorded ==
  ASSUME Parts, Record, Pick
  PROVE  Record'
<1>1. PICK c : /\ c = PickCompaction(Candidate)
               /\ \/ IsTrivialMove(c) /\ Move(c)
                  \/ ~IsTrivialMove(c) /\ Begin(c)
  BY DEF Pick
<1>2. /\ running = None /\ NeedsCompaction
      /\ UNCHANGED <<last, mem, imm, nextFile, manual, snapshots, written>>
  BY DEF Pick
<1>3. PICK l, fs : /\ l \in 0 .. (NumLevels - 2) /\ fs \subseteq Range(files[l])
                   /\ fs # {} /\ Whole(l, fs) /\ c = Compaction(l, fs)
  <2>1. /\ Candidate.level \in 0 .. (NumLevels - 2)
        /\ Candidate.f \in Range(files[Candidate.level])
    BY <1>2, CandidateIs DEF Parts
  <2> QED
    BY <1>1, <2>1, PickFrom DEF Parts
<1>4. CASE IsTrivialMove(c) /\ Move(c)
  BY <1>2, <1>3, <1>4, MoveRecorded
<1>5. CASE ~IsTrivialMove(c) /\ Begin(c)
  <2>1. WrittenInv' /\ NewerInv' /\ KeptInv' /\ SnapshotInv' /\ WorkInv'
    BY <1>2, <1>3, <1>5, BeginRecorded
  <2>2. ManualInv'
    BY <1>2 DEF Record, ManualInv
  <2> QED
    BY <2>1, <2>2 DEF Record
<1> QED
  BY <1>1, <1>4, <1>5

LEMMA PickManualRecorded ==
  ASSUME Parts, Record, PickManual
  PROVE  Record'
<1>1. /\ manual # None
      /\ UNCHANGED <<last, mem, imm, nextFile, snapshots, written>>
  BY DEF PickManual, Armed
<1>2. /\ manual.level \in 0 .. (NumLevels - 2)
      /\ DOMAIN manual = {"level", "lo", "hi", "armed"}
  BY <1>1 DEF Parts, ChosenInv
<1>3. PICK fs : fs = RangeInputs
  OBVIOUS
<1>4. /\ fs \subseteq Range(files[manual.level])
      /\ manual.lo \in Nat /\ manual.hi \in Nat => Whole(manual.level, fs)
  BY <1>2, <1>3, RangeInputsIs DEF Parts
<1>5. CASE fs = {}
  <2>1. UNCHANGED <<files, running>> /\ manual' = None
    BY <1>3, <1>5 DEF PickManual, Done
  <2>2. Stored' = Stored
    BY <1>1, <2>1 DEF Stored
  <2> QED
    BY <1>1, <2>1, <2>2, SameStore DEF Record, NewerInv, WorkInv, ManualInv
<1>6. CASE fs # {}
  <2>1. PICK c : c = Compaction(manual.level, fs)
    OBVIOUS
  <2>2. PICK x : /\ x = Largest(Last(Sorted(running'.in0, BySmallestKey))).k
                 /\ manual' = [manual EXCEPT !.lo = x, !.armed = FALSE]
    BY <1>3, <1>6 DEF PickManual
  <2>3. Begin(c)
    BY <1>3, <1>6, <2>1 DEF PickManual
  <2>4. manual.level \in Levels
    BY <1>2, SizesAssumption DEF Levels
  <2>5. /\ Range(files[manual.level]) \subseteq ATable
        /\ IsFiniteSet(Range(files[manual.level]))
        /\ \A f, g \in Range(files[manual.level]) : f.num = g.num => f = g
    BY <2>4, LevelFacts DEF Parts
  <2>6. Keys # {}
    <3>1. PICK f \in ATable : f \in fs
      BY <1>4, <1>6, <2>5
    <3>2. Smallest(f) \in AnEntry
      BY <3>1, TableFacts
    <3> QED
      BY <3>2 DEF AnEntry
  <2>7. manual.lo \in Nat /\ manual.hi \in Nat
    BY <1>1, <2>6 DEF Record, ManualInv
  <2>8. WrittenInv' /\ NewerInv' /\ KeptInv' /\ SnapshotInv' /\ WorkInv'
    BY <1>1, <1>2, <1>4, <1>6, <2>1, <2>3, <2>7, BeginRecorded
  <2>9. x \in Nat
    <3>1. PICK S : S = running'.in0
      OBVIOUS
    <3>2. S # {} /\ S \subseteq Range(files[manual.level])
      <4>1. S = c.in0
        BY <2>3, <3>1 DEF Begin
      <4> QED
        BY <1>2, <1>4, <1>6, <2>1, <4>1, CompactionIs DEF Parts
    <3>3. S \in SUBSET ATable /\ IsFiniteSet(S)
      BY <2>5, <3>2, FS_Subset
    <3>4. PICK s : s = Sorted(S, BySmallestKey)
      OBVIOUS
    <3>5. s \in Seq(S) /\ Len(s) = Cardinality(S)
      BY <2>5, <3>2, <3>3, <3>4, SortedTables
    <3>6. Len(s) \in Nat /\ Len(s) # 0
      BY <3>2, <3>3, <3>5, FS_EmptySet, FS_CardinalityType
    <3>7. Last(s) \in S
      <4>1. Len(s) \in 1 .. Len(s)
        BY <3>6
      <4> QED
        BY <3>5, <4>1, ElementOfSeq DEF Last
    <3> QED
      BY <2>2, <3>1, <3>3, <3>4, <3>7, TableKeys
  <2>10. manual'.lo = x /\ manual'.hi = manual.hi
    BY <1>2, <2>2
  <2>11. ManualInv'
    BY <2>7, <2>9, <2>10 DEF ManualInv
  <2> QED
    BY <2>8, <2>11 DEF Record
<1> QED
  BY <1>5, <1>6

(* A compaction ends. An entry that it drops is hidden by a later one from *)
(* every reader, or it is a deletion, and what is still stored of its key  *)
(* is newer: above, because the levels above are newer; on the level left, *)
(* because the rest of it is; on the level of the outputs, unless the      *)
(* compaction revives something; and below there is nothing.               *)
LEMMA FinishRecorded ==
  ASSUME Parts, Record, Finish, ~Revives(running)
  PROVE  Record'
<1>1. /\ running # None /\ running' = None
      /\ UNCHANGED <<last, mem, imm, manual, snapshots, written>>
  BY DEF Finish
<1>2. PICK c, L, I0, I1 : /\ c = running /\ L = running.level
                          /\ I0 = running.in0 /\ I1 = running.in1
  OBVIOUS
<1>3. PICK R0, R1, K : /\ R0 = Entries(Range(files[L]) \ I0)
                       /\ R1 = Entries(Range(files[L + 1]) \ I1)
                       /\ K = Put(Outputs(c))
  OBVIOUS
<1>4. PICK M : M = Merging(c)
  OBVIOUS
<1>5. /\ L \in 0 .. (NumLevels - 2) /\ L \in Nat /\ L \in Levels /\ L + 1 \in Levels
      /\ L + 1 # L /\ L + 1 # 0 /\ 0 \in Levels /\ Levels \subseteq Nat
  BY <1>1, <1>2, SizesAssumption DEF Parts, RunInv, Levels
<1>6. /\ I0 \subseteq Range(files[L]) /\ I1 \subseteq Range(files[L + 1])
      /\ \A l \in (L + 2) .. (NumLevels - 1) :
           Range(c.version[l]) = Range(files[l])
      /\ Newer(R0, Entries(I0))
      /\ c.snapshot \in Nat
      /\ \A s \in {last} \cup Range(snapshots) : c.snapshot <= s
  BY <1>1, <1>2, <1>3 DEF Record, WorkInv
<1>7. /\ Entries(Range(files[L])) = R0 \cup Entries(I0)
      /\ Entries(Range(files[L + 1])) = R1 \cup Entries(I1)
      /\ M = Entries(I0) \cup Entries(I1)
  BY <1>2, <1>3, <1>4, <1>6 DEF Entries, Merging
<1>8. /\ Range(files'[L]) = Range(files[L]) \ I0
      /\ Entries(Range(files'[L])) = R0
      /\ Entries(Range(files'[L + 1])) = R1 \cup K
      /\ \A m \in Levels \ {L, L + 1} : Range(files'[m]) = Range(files[m])
      /\ \A m \in Levels \ {L, L + 1} :
           Entries(Range(files'[m])) = Entries(Range(files[m]))
  BY <1>2, <1>3, FinishStep
<1>9. /\ Newer(mem, imm)
      /\ \A m \in Levels : Newer(mem \cup imm, Entries(Range(files[m])))
      /\ \A g, h \in Range(files[0]) :
           g.num > h.num => Newer(Range(g.data), Range(h.data))
      /\ \A a, b \in Levels :
           a < b => Newer(Entries(Range(files[a])), Entries(Range(files[b])))
  BY DEF Record, NewerInv
<1>10. /\ M \subseteq Stored /\ M \subseteq AnEntry
       /\ \A x \in Stored : x \in written /\ x \in AnEntry /\ x.s \in Nat
       /\ \A e, x \in Stored : e.s = x.s => e = x
  <2>1. M \subseteq Stored
    BY <1>5, <1>7 DEF Stored
  <2>2. Stored \subseteq written /\ written \subseteq AnEntry
    BY DEF Record, WrittenInv
  <2>3. \A e, x \in Stored : e.s = x.s => e = x
    BY <2>2 DEF Record, WrittenInv
  <2> QED
    BY <2>1, <2>2, <2>3, EntryFields
<1>11. /\ K \subseteq M
       /\ \A e \in M \ K : \/ Obsolete(c, e)
                           \/ \E p \in M : p.k = e.k /\ p.s > e.s
                                           /\ p.s <= c.snapshot
       /\ \A e \in M : Obsolete(c, e) => \A x \in K : x.k = e.k => x.s > e.s
  <2>1. IsFiniteSet(M)
    <3>1. /\ I0 \subseteq ATable /\ IsFiniteSet(I0)
          /\ I1 \subseteq ATable /\ IsFiniteSet(I1)
      BY <1>1, <1>2 DEF Parts, RunInv
    <3>2. IsFiniteSet(Entries(I0)) /\ IsFiniteSet(Entries(I1))
      BY <3>1, EntriesOf
    <3> QED
      BY <1>7, <3>2, FS_Union
  <2>2. K = Put(Merged(c, Sorted(M, Less)))
    BY <1>3, <1>4 DEF Outputs
  <2> QED
    BY <1>6, <1>10, <2>1, <2>2, MergeDrops
<1>12. PICK t, u : /\ t = UNION {Entries(Range(files[m])) : m \in Levels}
                   /\ u = UNION {Entries(Range(files'[m])) : m \in Levels}
  OBVIOUS
<1>13. Stored = mem \cup imm \cup t
  BY <1>12 DEF Stored
<1>14. Stored' = mem \cup imm \cup u
  BY <1>1, <1>12 DEF Stored, Levels
<1>15. Stored' \subseteq Stored
  <2>1. ASSUME NEW x \in u PROVE x \in t
    <3>1. PICK m \in Levels : x \in Entries(Range(files'[m]))
      BY <1>12
    <3>2. \E n \in Levels : x \in Entries(Range(files[n]))
      BY <1>5, <1>7, <1>8, <1>11, <3>1
    <3> QED
      BY <1>12, <3>2
  <2> QED
    BY <1>13, <1>14, <2>1
<1>16. Stored \ Stored' \subseteq M \ K
  <2> SUFFICES ASSUME NEW x \in Stored, x \notin Stored' PROVE x \in M \ K
    OBVIOUS
  <2>1. x \in t /\ x \notin u
    BY <1>13, <1>14
  <2>2. PICK m \in Levels : x \in Entries(Range(files[m]))
    BY <1>12, <2>1
  <2>3. \A n \in Levels : x \notin Entries(Range(files'[n]))
    BY <1>12, <2>1
  <2> QED
    BY <1>5, <1>7, <1>8, <2>2, <2>3
<1>17. NewerInv'
  <2>1. Newer(mem', imm')
    BY <1>1, <1>9
  <2>2. ASSUME NEW m \in Levels
        PROVE  Newer(mem' \cup imm', Entries(Range(files'[m])))
    <3>1. Newer(mem \cup imm, Entries(Range(files[m])))
      BY <1>9
    <3>2. CASE m = L
      BY <1>1, <1>7, <1>8, <3>1, <3>2 DEF Newer
    <3>3. CASE m = L + 1
      <4>1. Newer(mem \cup imm, Entries(Range(files[L])))
        BY <1>5, <1>9
      <4>2. Newer(mem \cup imm, R1 \cup M)
        BY <1>7, <3>1, <3>3, <4>1 DEF Newer
      <4> QED
        BY <1>1, <1>8, <1>11, <3>3, <4>2 DEF Newer
    <3>4. CASE m \notin {L, L + 1}
      BY <1>1, <1>8, <3>1, <3>4
    <3> QED
      BY <3>2, <3>3, <3>4
  <2>3. Range(files'[0]) \subseteq Range(files[0])
    BY <1>5, <1>8
  <2>4. ASSUME NEW a \in Levels, NEW b \in Levels, a < b
        PROVE  Newer(Entries(Range(files'[a])), Entries(Range(files'[b])))
    <3>0. L < L + 1
      BY <1>5
    <3>1. CASE a = L /\ b = L + 1
      BY <1>5, <1>6, <1>7, <1>8, <1>9, <1>11, <3>0, <3>1 DEF Newer
    <3>2. CASE a = L /\ b # L + 1
      <4>1. b # L
        BY <1>5, <2>4, <3>2
      <4> QED
        BY <1>7, <1>8, <1>9, <2>4, <3>2, <4>1 DEF Newer
    <3>3. CASE a = L + 1
      <4>1. b # L /\ b # L + 1 /\ L < b
        BY <1>5, <2>4, <3>3
      <4> QED
        BY <1>5, <1>7, <1>8, <1>9, <1>11, <2>4, <3>3, <4>1 DEF Newer
    <3>4. CASE a # L /\ a # L + 1 /\ b = L
      BY <1>7, <1>8, <1>9, <2>4, <3>4 DEF Newer
    <3>5. CASE a # L /\ a # L + 1 /\ b = L + 1
      <4>1. a < L
        BY <1>5, <2>4, <3>5
      <4> QED
        BY <1>5, <1>7, <1>8, <1>9, <1>11, <2>4, <3>5, <4>1 DEF Newer
    <3>6. CASE a \notin {L, L + 1} /\ b \notin {L, L + 1}
      BY <1>8, <1>9, <2>4, <3>6
    <3> QED
      BY <3>1, <3>2, <3>3, <3>4, <3>5, <3>6
  <2> QED
    BY <1>9, <2>1, <2>2, <2>3, <2>4 DEF NewerInv
<1>18. KeptInv'
  <2> SUFFICES ASSUME NEW s \in {last} \cup Range(snapshots),
                      NEW e \in written, Shown(e, s)
               PROVE  \/ e \in Stored'
                      \/ /\ e.t = Deletion
                         /\ \A x \in Stored' : x.k = e.k => x.s > e.s
    BY <1>1 DEF KeptInv, Shown
  <2>1. \/ e \in Stored
        \/ e.t = Deletion /\ \A x \in Stored : x.k = e.k => x.s > e.s
    BY DEF Record, KeptInv
  <2>2. CASE e \notin Stored
    BY <1>15, <2>1, <2>2
  <2>3. CASE e \in Stored'
    BY <2>3
  <2>4. CASE e \in Stored /\ e \notin Stored'
    <3>1. e \in M /\ e \notin K
      BY <1>16, <2>4
    <3>2. ASSUME NEW p \in M, p.k = e.k, p.s > e.s, p.s <= c.snapshot
          PROVE  FALSE
      <4>1. p \in written /\ p.s \in Nat /\ e.s \in Nat
        BY <1>10, <2>4, <3>2
      <4>2. s \in Nat /\ c.snapshot <= s
        <5>1. last \in Nat /\ Range(snapshots) \subseteq Nat
          BY SizesAssumption, TablesOf DEF Parts, MemInv
        <5> QED
          BY <1>6, <5>1
      <4>3. p.s <= s
        BY <1>6, <3>2, <4>1, <4>2
      <4>4. p.s <= e.s
        BY <3>2, <4>1, <4>3 DEF Shown
      <4> QED
        BY <3>2, <4>1, <4>4
    <3>3. Obsolete(c, e)
      BY <1>11, <3>1, <3>2
    <3>4. e.t = Deletion /\ IsBaseLevelForKey(c, e.k)
      BY <3>3 DEF Obsolete
    <3>5. e \in Entries(I0) \/ e \in Entries(I1)
      BY <1>7, <3>1
    <3>6. e \in Entries(Range(files[L])) \/ e \in Entries(Range(files[L + 1]))
      BY <1>7, <3>5
    <3>7. ASSUME NEW x \in Stored', x.k = e.k PROVE x.s > e.s
      <4>1. CASE x \in mem \cup imm
        BY <1>5, <1>9, <3>6, <3>7, <4>1 DEF Newer
      <4>2. CASE x \in R0
        <5>1. Newer(R0, Entries(I1))
          BY <1>5, <1>7, <1>9 DEF Newer
        <5> QED
          BY <1>6, <3>5, <3>7, <4>2, <5>1 DEF Newer
      <4>3. CASE x \in R1
        <5>1. x \in Stored /\ x # e
          BY <1>15, <2>4
        <5>2. x.s \in Nat /\ e.s \in Nat /\ x.s # e.s
          BY <1>10, <2>4, <5>1
        <5>3. ASSUME x.s < e.s PROVE FALSE
          <6>1. \A p \in M : p.k = e.k /\ p.s > e.s => p.s > c.snapshot
            BY <1>6, <1>10, <3>2
          <6>2. Revives(c)
            BY <1>2, <1>3, <1>4, <3>1, <3>3, <3>7, <4>3, <5>3, <6>1
               DEF Revives, SmallestSnapshot
          <6> QED
            BY <1>2, <6>2
        <5> QED
          BY <5>2, <5>3
      <4>4. CASE x \in K
        BY <1>11, <3>1, <3>3, <3>7, <4>4
      <4>5. CASE \E m \in Levels \ {L, L + 1} : x \in Entries(Range(files[m]))
        <5>1. PICK m \in Levels \ {L, L + 1} : x \in Entries(Range(files[m]))
          BY <4>5
        <5>2. CASE m < L
          <6>1. m < L + 1
            BY <1>5, <5>2
          <6> QED
            BY <1>5, <1>9, <3>6, <3>7, <5>1, <5>2, <6>1 DEF Newer
        <5>3. CASE ~(m < L)
          <6>1. m \in (L + 2) .. (NumLevels - 1)
            BY <1>5, <5>3, SizesAssumption DEF Levels
          <6>2. PICK f \in Range(files[m]) : x \in Range(f.data)
            BY <5>1 DEF Entries
          <6>3. f \in ATable
            BY LevelFacts DEF Parts
          <6>4. Covers(f, e.k)
            BY <3>7, <6>2, <6>3, CoversOwn
          <6>5. c.level = L
            BY <1>2
          <6>6. f \in Range(c.version[m])
            BY <1>6, <6>1
          <6> QED
            BY <3>4, <6>1, <6>4, <6>5, <6>6 DEF IsBaseLevelForKey
        <5> QED
          BY <5>2, <5>3
      <4>6. \/ x \in mem \cup imm \/ x \in R0 \/ x \in R1 \/ x \in K
            \/ \E m \in Levels \ {L, L + 1} : x \in Entries(Range(files[m]))
        <5>1. CASE x \in u
          <6>1. PICK m \in Levels : x \in Entries(Range(files'[m]))
            BY <1>12, <5>1
          <6> QED
            BY <1>5, <1>8, <6>1
        <5> QED
          BY <1>14, <5>1
      <4> QED
        BY <4>1, <4>2, <4>3, <4>4, <4>5, <4>6
    <3> QED
      BY <3>4, <3>7
  <2> QED
    BY <2>2, <2>3, <2>4
<1>19. WrittenInv'
  BY <1>1, <1>15 DEF Record, WrittenInv
<1>20. SnapshotInv' /\ WorkInv' /\ ManualInv'
  BY <1>1 DEF Record, SnapshotInv, WorkInv, ManualInv
<1> QED
  BY <1>17, <1>18, <1>19, <1>20 DEF Record

(* Whatever is written, flushed, compacted, taken and released, in any     *)
(* order: the memtables and the levels hold the newest entries first, all  *)
(* that a reader may ask for is there or is a deletion with nothing left   *)
(* to delete, and the compaction under way still sees the version it       *)
(* relies on; but for what `below' and `revived' record                    *)
(* (db_impl.cc:878-999, version_set.cc:1371-1467).                         *)
THEOREM HistoryInvariant == Spec => []HistoryInv
<1>1. Init => HistoryInv
  BY StartsRecorded
<1>2. TreeInv /\ HistoryInv /\ [Next]_vars => HistoryInv'
  <2> SUFFICES ASSUME TreeInv, HistoryInv, [Next]_vars, ~below', ~revived'
               PROVE  Record'
    BY DEF HistoryInv, Record
  <2>1. ~below /\ ~revived /\ (Finish => ~Revives(running))
    BY StaysAbove, NothingRevived
  <2>2. Parts /\ Record
    BY <2>1 DEF TreeInv, Parts, HistoryInv, Record
  <2>3. CASE \E k \in Keys, t \in Types : Write(k, t)
    BY <2>2, <2>3, WriteRecorded
  <2>4. CASE Switch
    BY <2>2, <2>4, SwitchRecorded
  <2>5. CASE Flush
    BY <2>2, <2>5, FlushRecorded
  <2>6. CASE Pick
    BY <2>2, <2>6, PickRecorded
  <2>7. CASE PickManual
    BY <2>2, <2>7, PickManualRecorded
  <2>8. CASE Finish
    BY <2>1, <2>2, <2>8, FinishRecorded
  <2>9. CASE \E k \in Keys, s \in {last} \cup Range(snapshots) : UpdateStats(k, s)
    BY <2>2, <2>9, UpdateStatsRecorded
  <2>10. CASE GetSnapshot \/ \E i \in DOMAIN snapshots : ReleaseSnapshot(i)
    BY <2>2, <2>10, SnapshotRecorded
  <2>11. CASE CompactMore \/ \E l \in Manual : CompactRange(l)
    BY <2>2, <2>11, CallRecorded
  <2>12. CASE UNCHANGED vars
    <3>1. UNCHANGED <<last, mem, imm, files, running, manual, snapshots, written>>
      BY <2>12 DEF vars
    <3>2. Stored' = Stored
      BY <3>1 DEF Stored
    <3> QED
      BY <2>2, <3>1, <3>2, SameStore DEF Record, NewerInv, WorkInv, ManualInv
  <2> QED
    BY <2>3, <2>4, <2>5, <2>6, <2>7, <2>8, <2>9, <2>10, <2>11, <2>12 DEF Next
<1> QED
  BY <1>1, <1>2, TreeInvariant, PTL DEF Spec

-----------------------------------------------------------------------------
(* What a read returns.                                                    *)

LEMMA HoldsIs ==
  ASSUME NEW E \in SUBSET AnEntry, NEW k \in Nat, NEW s \in Nat,
         NEW key, key = LookupKey(k, s)
  PROVE  Holds(E, key) = {e \in E : e.k = k /\ e.s <= s}
<1>1. key.k = k /\ key.s = s /\ key.t = 1
  BY DEF LookupKey, Entry, Value
<1>2. ASSUME NEW e \in E, e.k = k PROVE Less(e, key) <=> ~(e.s <= s)
  <2>1. e.k \in Nat /\ e.s \in Nat /\ e.t \in {0, 1}
    BY EntryFields
  <2>2. Less(e, key) <=> 2 * e.s + e.t > 2 * s + 1
    BY <1>1, <1>2, <2>1 DEF Less
  <2> QED
    BY <2>1, <2>2
<1> QED
  BY <1>1, <1>2 DEF Holds

(* The newest of some entries of a key.                                    *)
LEMMA LatestExists ==
  ASSUME NEW E \in SUBSET AnEntry, E # {}, NEW b \in Nat, \A e \in E : e.s <= b
  PROVE  \E m \in E : \A e \in E : e.s <= m.s
<1>1. PICK T : T = {e.s : e \in E}
  OBVIOUS
<1>2. T \in SUBSET Nat /\ T # {} /\ \A n \in T : n <= b
  BY <1>1, EntryFields
<1>3. Max(T) \in T /\ \A n \in T : n <= Max(T)
  BY <1>2, MaxIs
<1>4. PICK m \in E : m.s = Max(T)
  BY <1>1, <1>3
<1> QED
  BY <1>1, <1>3, <1>4

(* The memtables and the tables a read looks at, newest first.             *)
Sources(t) == <<mem, imm>> \o Data(t)

LEMMA SourcesAre ==
  ASSUME NEW t, Len(t) \in Nat, DOMAIN t = 1 .. Len(t)
  PROVE  /\ DOMAIN Sources(t) = 1 .. (Len(t) + 2)
         /\ Sources(t)[1] = mem /\ Sources(t)[2] = imm
         /\ \A i \in DOMAIN t : Sources(t)[i + 2] = Range(t[i].f.data)
<1>1. PICK d : d = Data(t)
  OBVIOUS
<1>2. /\ d = [i \in 1 .. Len(t) |-> Range(t[i].f.data)]
      /\ \A i \in DOMAIN t : d[i] = Range(t[i].f.data)
  BY <1>1 DEF Data
<1>3. PICK S : S = {mem, imm} \cup {Range(t[i].f.data) : i \in DOMAIN t}
  OBVIOUS
<1>4. d \in Seq(S) /\ Len(d) = Len(t)
  <2>1. \A i \in 1 .. Len(t) : Range(t[i].f.data) \in S
    BY <1>3
  <2>2. d \in [1 .. Len(t) -> S]
    BY <1>2, <2>1
  <2>3. d \in Seq(S) /\ DOMAIN d = 1 .. Len(t)
    BY <2>2, SeqDef
  <2>4. DOMAIN d = 1 .. Len(d) /\ Len(d) \in Nat
    BY <2>3, LenProperties
  <2> QED
    BY <2>3, <2>4
<1>5. PICK m : m = <<mem, imm>>
  OBVIOUS
<1>6. m \in Seq(S) /\ Len(m) = 2 /\ m[1] = mem /\ m[2] = imm
  BY <1>3, <1>5
<1>7. PICK r : r = m \o d
  OBVIOUS
<1>8. /\ r \in Seq(S) /\ Len(r) = Len(m) + Len(d)
      /\ \A i \in 1 .. (Len(m) + Len(d)) :
           r[i] = IF i <= Len(m) THEN m[i] ELSE d[i - Len(m)]
  <2>1. m \in Seq(S) /\ d \in Seq(S)
    BY <1>4, <1>6
  <2> QED
    BY <1>7, <2>1, ConcatProperties
<1>9. DOMAIN r = 1 .. (Len(t) + 2)
  <2>1. DOMAIN r = 1 .. Len(r)
    BY <1>8, LenProperties
  <2> QED
    BY <1>4, <1>6, <1>8, <2>1
<1>10. r[1] = mem /\ r[2] = imm
  BY <1>4, <1>6, <1>8
<1>11. ASSUME NEW i \in DOMAIN t PROVE r[i + 2] = Range(t[i].f.data)
  <2>1. /\ i + 2 \in 1 .. (Len(m) + Len(d)) /\ ~(i + 2 <= Len(m))
        /\ (i + 2) - Len(m) = i
    BY <1>4, <1>6
  <2>2. r[i + 2] = d[i]
    BY <1>8, <2>1
  <2> QED
    BY <1>2, <2>2
<1>12. r = Sources(t)
  BY <1>1, <1>5, <1>7 DEF Sources
<1> QED
  BY <1>9, <1>10, <1>11, <1>12

LEMMA SourcesNewestFirst ==
  ASSUME Parts, Record, NEW k \in Nat, NEW s \in Nat,
         NEW key, key = LookupKey(k, s), NEW t, t = AllSearched(files, key)
  PROVE  /\ \A i \in DOMAIN Sources(t) : Sources(t)[i] \subseteq Stored
         /\ \A i, j \in DOMAIN Sources(t) :
              i < j => Newer(Sources(t)[i], Sources(t)[j])
<1>1. /\ Len(t) \in Nat /\ DOMAIN t = 1 .. Len(t)
      /\ \A i \in DOMAIN t :
           /\ t[i].level \in Levels /\ t[i].f \in Range(files[t[i].level])
           /\ t[i].f \in Searched(files, t[i].level, key)
      /\ \A i, j \in DOMAIN t : i < j => ReadBefore(t[i], t[j])
  <2>1. LevelInv /\ ApartInv
    BY DEF Parts
  <2>2. Reads(t, key)
    BY <2>1, AllSearchedIs
  <2> QED
    BY <2>2 DEF Reads
<1>2. PICK r : r = Sources(t)
  OBVIOUS
<1>3. /\ DOMAIN r = 1 .. (Len(t) + 2) /\ r[1] = mem /\ r[2] = imm
      /\ \A i \in DOMAIN t : r[i + 2] = Range(t[i].f.data)
  BY <1>1, <1>2, SourcesAre
<1>4. \A i \in DOMAIN t : Range(t[i].f.data) \subseteq
                            Entries(Range(files[t[i].level]))
  BY <1>1 DEF Entries
<1>5. \A i \in DOMAIN r : i \in {1, 2} \/ (i - 2 \in DOMAIN t /\ (i - 2) + 2 = i)
  BY <1>1, <1>3
<1>6. /\ Newer(mem, imm)
      /\ \A m \in Levels : Newer(mem \cup imm, Entries(Range(files[m])))
      /\ \A g, h \in Range(files[0]) :
           g.num > h.num => Newer(Range(g.data), Range(h.data))
      /\ \A a, b \in Levels :
           a < b => Newer(Entries(Range(files[a])), Entries(Range(files[b])))
  BY DEF Record, NewerInv
<1>7. ASSUME NEW i \in DOMAIN r PROVE r[i] \subseteq Stored
  <2>1. CASE i \in {1, 2}
    BY <1>3, <2>1 DEF Stored
  <2>2. CASE i - 2 \in DOMAIN t /\ (i - 2) + 2 = i
    <3>1. PICK j \in DOMAIN t : j + 2 = i
      BY <2>2
    <3>2. r[i] \subseteq Entries(Range(files[t[j].level])) /\ t[j].level \in Levels
      BY <1>1, <1>3, <1>4, <3>1
    <3> QED
      BY <3>2 DEF Stored
  <2> QED
    BY <1>5, <2>1, <2>2
<1>8. ASSUME NEW a \in DOMAIN t, NEW b \in DOMAIN t, a < b
      PROVE  Newer(Range(t[a].f.data), Range(t[b].f.data))
  <2>1. PICK x, y : x = t[a] /\ y = t[b]
    OBVIOUS
  <2>2. /\ ReadBefore(x, y) /\ x.level \in Levels /\ y.level \in Levels
        /\ x.f \in Range(files[x.level]) /\ y.f \in Range(files[y.level])
        /\ x.f \in Searched(files, x.level, key)
        /\ y.f \in Searched(files, y.level, key)
        /\ Range(x.f.data) \subseteq Entries(Range(files[x.level]))
        /\ Range(y.f.data) \subseteq Entries(Range(files[y.level]))
    BY <1>1, <1>4, <1>8, <2>1
  <2>3. CASE x.level < y.level
    BY <1>6, <2>1, <2>2, <2>3 DEF Newer
  <2>4. CASE ~(x.level < y.level)
    <3>1. x.level = y.level /\ x.f.num > y.f.num
      BY <2>2, <2>4 DEF ReadBefore, NewestFirst
    <3>2. x.f.num \in Nat
      BY <2>2, LevelFacts, TableFacts DEF Parts
    <3>3. x.f # y.f
      BY <3>1, <3>2
    <3>4. x.level = 0
      BY <2>2, <3>1, <3>3, SearchedIs DEF Parts
    <3> QED
      BY <1>6, <2>1, <2>2, <3>1, <3>4
  <2> QED
    BY <2>3, <2>4
<1>9. ASSUME NEW i \in DOMAIN r, NEW j \in DOMAIN r, i < j
      PROVE  Newer(r[i], r[j])
  <2>1. i \in Nat /\ j \in Nat /\ j # 1 /\ (j = 2 => i = 1)
    BY <1>3, <1>9
  <2>2. CASE j = 2
    BY <1>3, <1>6, <2>1, <2>2
  <2>3. CASE j # 2
    <3>1. PICK b \in DOMAIN t : b + 2 = j
      BY <1>5, <2>1, <2>3
    <3>2. r[j] = Range(t[b].f.data)
      BY <1>3, <3>1
    <3>3. CASE i \in {1, 2}
      <4>1. r[i] \subseteq mem \cup imm
        BY <1>3, <3>3
      <4>2. Newer(mem \cup imm, Entries(Range(files[t[b].level])))
        BY <1>1, <1>6
      <4> QED
        BY <1>4, <3>2, <4>1, <4>2 DEF Newer
    <3>4. CASE i \notin {1, 2}
      <4>1. PICK a \in DOMAIN t : a + 2 = i
        BY <1>5, <3>4
      <4>2. a < b
        BY <1>1, <1>9, <3>1, <4>1
      <4>3. r[i] = Range(t[a].f.data)
        BY <1>3, <4>1
      <4> QED
        BY <1>8, <3>2, <4>2, <4>3
    <3> QED
      BY <3>3, <3>4
  <2> QED
    BY <2>2, <2>3
<1> QED
  BY <1>2, <1>7, <1>9

(* A read comes to the newest entry it may see, wherever that is: below    *)
(* level 0 the table that the binary search finds is the one that has it.  *)
LEMMA NewestIsSearched ==
  ASSUME Parts, Record, NEW k \in Nat, NEW s \in Nat,
         NEW key, key = LookupKey(k, s), NEW t, t = AllSearched(files, key),
         NEW m \in Stored, m.k = k, m.s <= s,
         \A x \in Stored : x.k = k /\ x.s <= s => x.s <= m.s
  PROVE  \E i \in DOMAIN Sources(t) : m \in Sources(t)[i]
<1>1. /\ Len(t) \in Nat /\ DOMAIN t = 1 .. Len(t)
      /\ \A l \in Levels : \A f \in Searched(files, l, key) :
           \E i \in DOMAIN t : t[i].level = l /\ t[i].f = f
  <2>1. LevelInv /\ ApartInv
    BY DEF Parts
  <2>2. Reads(t, key)
    BY <2>1, AllSearchedIs
  <2> QED
    BY <2>2 DEF Reads
<1>2. PICK r : r = Sources(t)
  OBVIOUS
<1>3. /\ DOMAIN r = 1 .. (Len(t) + 2) /\ r[1] = mem /\ r[2] = imm
      /\ \A i \in DOMAIN t : r[i + 2] = Range(t[i].f.data)
  BY <1>1, <1>2, SourcesAre
<1>4. CASE m \in mem \cup imm
  <2>1. 1 \in DOMAIN r /\ 2 \in DOMAIN r
    BY <1>1, <1>3
  <2> QED
    BY <1>2, <1>3, <1>4, <2>1
<1>5. CASE \E l \in Levels : m \in Entries(Range(files[l]))
  <2>1. PICK l \in Levels : m \in Entries(Range(files[l]))
    BY <1>5
  <2>2. PICK f \in Range(files[l]) : m \in Range(f.data)
    BY <2>1 DEF Entries
  <2>3. f \in ATable /\ Range(files[l]) \subseteq ATable
    BY LevelFacts DEF Parts
  <2>4. key.k = k /\ key.s = s /\ key.t = 1
    BY DEF LookupKey, Entry, Value
  <2>5. Covers(f, k)
    BY <2>2, <2>3, CoversOwn
  <2>6. f \in Searched(files, l, key)
    <3>1. CASE l = 0
      BY <2>2, <2>4, <2>5, <3>1 DEF Searched
    <3>2. CASE l # 0
      <4>1. PICK j \in DOMAIN files[l] : files[l][j] = f
        BY DEF Range
      <4>2. PICK i : i = FindFile(files[l], key)
        OBVIOUS
      <4>3. /\ i \in 1 .. (Len(files[l]) + 1)
            /\ \A n \in DOMAIN files[l] : Less(Largest(files[l][n]), key) <=> n < i
        BY <3>2, <4>2, SearchIs DEF Parts
      <4>4. Len(files[l]) \in Nat /\ DOMAIN files[l] = 1 .. Len(files[l])
        BY LevelFacts DEF Parts
      <4>5. m \in AnEntry /\ ~Less(m, key)
        <5>1. m \in AnEntry
          BY DEF Record, WrittenInv
        <5>2. m \in Holds({m}, key)
          BY <5>1, HoldsIs
        <5> QED
          BY <5>1, <5>2 DEF Holds
      <4>6. ~Less(Largest(f), key)
        <5>1. Largest(f) \in AnEntry /\ (m = Largest(f) \/ Less(m, Largest(f)))
          BY <2>2, <2>3, TableFacts
        <5> QED
          BY <4>5, <5>1, BeforeKey
      <4>7. i <= j
        BY <4>1, <4>3, <4>4, <4>6
      <4>8. i \in DOMAIN files[l]
        BY <4>1, <4>3, <4>4, <4>7
      <4>9. i = j
        <5> SUFFICES ASSUME i # j PROVE FALSE
          OBVIOUS
        <5>1. i < j
          BY <4>1, <4>4, <4>7, <4>8
        <5>2. PICK g : g = files[l][i]
          OBVIOUS
        <5>3. g \in Range(files[l]) /\ g \in ATable
          BY <2>3, <4>8, <5>2 DEF Range
        <5>4. Less(Largest(g), Smallest(f))
          BY <3>2, <4>1, <4>8, <5>1, <5>2, InLevelOrder DEF Parts
        <5>5. PICK x : x = Largest(g)
          OBVIOUS
        <5>6. x \in AnEntry /\ x \in Entries(Range(files[l]))
          BY <5>3, <5>5, TableFacts DEF Entries
        <5>7. Less(x, m)
          BY <2>2, <2>3, <5>4, <5>5, <5>6, PastTable, TableFacts, LessOrder
        <5>8. ~Less(x, key)
          BY <4>3, <4>8, <5>2, <5>5, <4>4
        <5>9. x.k \in Nat /\ m.k \in Nat /\ x.k <= m.k
          BY <4>5, <5>6, <5>7, LessOrder, EntryFields
        <5>10. ~(x.k < k)
          BY <2>4, <5>8 DEF Less
        <5>11. x.k = k
          BY <5>9, <5>10
        <5>12. x.s <= s
          <6>1. x \in Holds({x}, key)
            BY <2>4, <5>8, <5>11 DEF Holds
          <6> QED
            BY <5>6, <6>1, HoldsIs
        <5>13. x \in Stored
          BY <5>6 DEF Stored
        <5>14. x.s <= m.s
          BY <5>11, <5>12, <5>13
        <5>15. x.s >= m.s /\ x.s \in Nat /\ m.s \in Nat
          BY <4>5, <5>6, <5>7, <5>11, WithinKey
        <5>16. x = m
          BY <5>13, <5>14, <5>15 DEF Record, WrittenInv
        <5> QED
          BY <4>5, <5>7, <5>16, LessOrder
      <4>10. ~(key.k < Smallest(files[l][i]).k)
        <5>1. Smallest(f).k <= k /\ Smallest(f).k \in Nat
          BY <2>3, <2>5, TableKeys DEF Covers
        <5> QED
          BY <2>4, <4>1, <4>9, <5>1
      <4>11. i <= Len(files[l])
        BY <4>4, <4>8
      <4>12. Searched(files, l, key) =
               {files[l][y] : y \in {n \in {i} :
                  n <= Len(files[l]) /\ ~(key.k < Smallest(files[l][n]).k)}}
        BY <3>2, <4>2 DEF Searched
      <4> QED
        BY <4>1, <4>9, <4>10, <4>11, <4>12
    <3> QED
      BY <3>1, <3>2
  <2>7. PICK i \in DOMAIN t : t[i].f = f
    BY <1>1, <2>6
  <2>8. i + 2 \in DOMAIN r /\ m \in r[i + 2]
    BY <1>1, <1>3, <2>2, <2>7
  <2> QED
    BY <1>2, <2>8
<1> QED
  BY <1>4, <1>5 DEF Stored

LEMMA GetIs ==
  ASSUME Parts, Record, NEW k \in Nat, NEW s \in Nat
  PROVE  /\ (\A x \in Stored : ~(x.k = k /\ x.s <= s)) => Get(k, s) = {}
         /\ \A m \in Stored :
              /\ m.k = k /\ m.s <= s
              /\ \A x \in Stored : x.k = k /\ x.s <= s => x.s <= m.s
              => Get(k, s) = {e \in {m} : e.t = Value}
<1>1. PICK key, t : key = LookupKey(k, s) /\ t = AllSearched(files, key)
  OBVIOUS
<1>2. PICK r : r = Sources(t)
  OBVIOUS
<1>3. Get(k, s) = GetFrom(r, key)
  BY <1>1, <1>2 DEF Get, Sources
<1>4. /\ \A i \in DOMAIN r : r[i] \subseteq Stored
      /\ \A i, j \in DOMAIN r : i < j => Newer(r[i], r[j])
  BY <1>1, <1>2, SourcesNewestFirst
<1>5. /\ Stored \subseteq AnEntry /\ \A e, x \in Stored : e.s = x.s => e = x
      /\ \A e \in Stored : e.s \in Nat
  BY EntryFields DEF Record, WrittenInv
<1>6. DOMAIN r \in SUBSET Nat
  <2>1. Reads(t, key)
    BY <1>1, AllSearchedIs DEF Parts
  <2>2. Len(t) \in Nat /\ DOMAIN t = 1 .. Len(t)
    BY <2>1 DEF Reads
  <2>3. DOMAIN r = 1 .. (Len(t) + 2)
    BY <1>2, <2>2, SourcesAre
  <2> QED
    BY <2>2, <2>3
<1>7. ASSUME NEW i \in DOMAIN r
      PROVE  Holds(r[i], key) = {e \in r[i] : e.k = k /\ e.s <= s}
  <2>1. r[i] \in SUBSET AnEntry
    BY <1>4, <1>5
  <2> QED
    BY <1>1, <2>1, HoldsIs
<1>8. PICK D : D = Holding(r, key)
  OBVIOUS
<1>9. D = {i \in DOMAIN r : \E e \in r[i] : e.k = k /\ e.s <= s}
  BY <1>7, <1>8 DEF Holding
<1>10. ASSUME \A x \in Stored : ~(x.k = k /\ x.s <= s) PROVE Get(k, s) = {}
  <2>1. D = {}
    BY <1>4, <1>9, <1>10
  <2> QED
    BY <1>3, <1>8, <2>1 DEF GetFrom
<1>11. ASSUME NEW m \in Stored, m.k = k, m.s <= s,
              \A x \in Stored : x.k = k /\ x.s <= s => x.s <= m.s
       PROVE  Get(k, s) = {e \in {m} : e.t = Value}
  <2>1. PICK i \in DOMAIN r : m \in r[i]
    BY <1>1, <1>2, <1>11, NewestIsSearched
  <2>2. i \in D /\ D \in SUBSET Nat /\ D # {}
    BY <1>6, <1>9, <1>11, <2>1
  <2>3. Min(D) \in D /\ Min(D) <= i
    BY <2>2, MinIs
  <2>4. Min(D) = i
    <3> SUFFICES ASSUME Min(D) # i PROVE FALSE
      OBVIOUS
    <3>1. PICK j : j = Min(D)
      OBVIOUS
    <3>2. j \in DOMAIN r /\ j \in Nat /\ i \in Nat /\ j < i
      BY <1>6, <1>9, <2>2, <2>3, <3>1
    <3>3. PICK x \in r[j] : x.k = k /\ x.s <= s
      BY <1>9, <2>3, <3>1
    <3>4. x.s > m.s
      BY <1>4, <1>11, <2>1, <3>2, <3>3 DEF Newer
    <3>5. x \in Stored
      BY <1>4, <3>2, <3>3
    <3>6. x.s <= m.s /\ x.s \in Nat /\ m.s \in Nat
      BY <1>5, <1>11, <3>3, <3>5
    <3> QED
      BY <3>4, <3>6
  <2>5. PICK H : H = Holds(r[i], key)
    OBVIOUS
  <2>6. m \in H /\ H \subseteq Stored /\ \A x \in H : x.k = k /\ x.s <= s
    BY <1>4, <1>7, <1>11, <2>1, <2>5
  <2>7. \A x \in H : ~Less(x, m)
    <3> SUFFICES ASSUME NEW x \in H, Less(x, m) PROVE FALSE
      OBVIOUS
    <3>1. x \in AnEntry /\ m \in AnEntry /\ x.k = m.k /\ x.s <= m.s
      BY <1>5, <1>11, <2>6
    <3>2. x.s >= m.s /\ x.s \in Nat /\ m.s \in Nat
      BY <3>1, WithinKey
    <3>3. x = m
      BY <1>5, <2>6, <3>1, <3>2
    <3> QED
      BY <3>1, <3>3, LessOrder
  <2>8. ASSUME NEW e \in H, \A x \in H : ~Less(x, e) PROVE e = m
    <3> SUFFICES ASSUME e # m PROVE FALSE
      OBVIOUS
    <3>1. e \in AnEntry /\ m \in AnEntry /\ e.k = m.k /\ e.s <= m.s
      BY <1>5, <1>11, <2>6
    <3>2. e.s # m.s /\ e.s \in Nat /\ m.s \in Nat
      BY <1>5, <2>6
    <3>3. m.s > e.s
      BY <3>1, <3>2
    <3>4. Less(m, e)
      BY <3>1, <3>3, WithinKey
    <3> QED
      BY <2>6, <2>8, <3>4
  <2>9. Newest(r[i], key) = m
    <3>1. Newest(r[i], key) = CHOOSE e \in H : \A x \in H : ~Less(x, e)
      BY <2>5 DEF Newest
    <3> QED
      BY <2>6, <2>7, <2>8, <3>1
  <2>10. GetFrom(r, key) = {e \in {Newest(r[Min(D)], key)} : e.t = Value}
    BY <1>8, <2>2 DEF GetFrom
  <2> QED
    BY <1>3, <2>4, <2>9, <2>10
<1> QED
  BY <1>10, <1>11

(* Every read, of the latest state and of every snapshot still held,       *)
(* returns the value last written to the key by then, or nothing if there  *)
(* is none or it was deleted: no order of writes, flushes, snapshots and   *)
(* compactions drops, hides or resurrects an entry, unless a memtable was  *)
(* put below level 0 beside a compaction or a compaction revived an entry  *)
(* (db_impl.cc:878-999, 1121-1160, version_set.cc:326-421).                *)
THEOREM ReadsSeeHistory == Spec => []ReadsAreHistory
<1>1. TreeInv /\ HistoryInv => ReadsAreHistory
  <2> SUFFICES ASSUME Parts, Record, NEW k \in Keys,
                      NEW s \in {last} \cup Range(snapshots)
               PROVE  Get(k, s) = Visible(k, s)
    BY DEF TreeInv, HistoryInv, Parts, Record, ReadsAreHistory
  <2>1. k \in Nat /\ s \in Nat
    <3>1. last \in Nat /\ Range(snapshots) \subseteq Nat
      BY SizesAssumption, TablesOf DEF Parts, MemInv
    <3> QED
      BY <3>1, KeysAssumption
  <2>2. PICK es : es = {e \in written : e.k = k /\ e.s <= s}
    OBVIOUS
  <2>3. Visible(k, s) = {e \in es : e.t = Value /\ \A x \in es : x.s <= e.s}
    BY <2>2 DEF Visible
  <2>4. /\ Stored \subseteq written /\ written \subseteq AnEntry
        /\ \A e, x \in written : e.s = x.s => e = x
        /\ \A e \in written : e.s \in Nat
    BY EntryFields DEF Record, WrittenInv
  <2>5. CASE es = {}
    <3>1. Get(k, s) = {}
      BY <2>1, <2>2, <2>4, <2>5, GetIs
    <3> QED
      BY <2>3, <2>5, <3>1
  <2>6. CASE es # {}
    <3>1. PICK w \in es : \A e \in es : e.s <= w.s
      <4>1. es \in SUBSET AnEntry /\ \A e \in es : e.s <= s
        BY <2>2, <2>4
      <4> QED
        BY <2>1, <2>6, <4>1, LatestExists
    <3>2. w \in written /\ w.k = k /\ w.s <= s /\ Shown(w, s)
      BY <2>2, <3>1 DEF Shown
    <3>3. Visible(k, s) = {e \in {w} : e.t = Value}
      <4>1. \A e \in es : (\A x \in es : x.s <= e.s) => e = w
        BY <2>2, <2>4, <3>1
      <4> QED
        BY <2>3, <3>1, <4>1
    <3>4. CASE w \in Stored
      <4>1. \A x \in Stored : x.k = k /\ x.s <= s => x.s <= w.s
        BY <2>2, <2>4, <3>1
      <4>2. Get(k, s) = {e \in {w} : e.t = Value}
        BY <2>1, <3>2, <3>4, <4>1, GetIs
      <4> QED
        BY <3>3, <4>2
    <3>5. CASE w \notin Stored
      <4>1. w.t = Deletion /\ \A x \in Stored : x.k = w.k => x.s > w.s
        BY <3>2, <3>5 DEF Record, KeptInv
      <4>2. \A x \in Stored : ~(x.k = k /\ x.s <= s)
        <5> SUFFICES ASSUME NEW x \in Stored, x.k = k, x.s <= s PROVE FALSE
          OBVIOUS
        <5>1. x \in es
          BY <2>2, <2>4
        <5>2. x.s <= w.s /\ x.s > w.s /\ x.s \in Nat /\ w.s \in Nat
          BY <2>4, <3>1, <3>2, <4>1, <5>1
        <5> QED
          BY <5>2
      <4>3. Get(k, s) = {}
        BY <2>1, <4>2, GetIs
      <4>4. Visible(k, s) = {}
        BY <3>3, <4>1 DEF Value, Deletion
      <4> QED
        BY <4>3, <4>4
    <3> QED
      BY <3>4, <3>5
  <2> QED
    BY <2>5, <2>6
<1> QED
  BY <1>1, TreeInvariant, HistoryInvariant, PTL

=============================================================================
