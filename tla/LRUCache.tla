------------------------------ MODULE LRUCache ------------------------------
(***************************************************************************)
(* A shard of LevelDB's cache of blocks and of open tables                 *)
(* (ios/Pods/leveldb-library: util/cache.cc, db/table_cache.cc).           *)
(* Entries are shared between the cache and its clients by reference       *)
(* counts; several entries of one key may be alive, as when two clients    *)
(* miss it together and both insert it.                                    *)
(* Every operation holds the mutex; the two that evict entries hold it     *)
(* over the turns of their loops, each of which is a step. The hash of a   *)
(* key is the key. A bucket is the set of its entries: they have different *)
(* keys, so that their order only tells how far FindPointer walks.         *)
(***************************************************************************)
EXTENDS Integers, Sequences, FiniteSets, SequencesExt

CONSTANTS
  CacheKeys,    \* keys, natural numbers
  Charges,      \* charges of entries
  Capacities,   \* capacity_
  MinLength,    \* the least length_ of a HandleTable
  MaxCached,    \* bound: calls of Insert
  MaxHeld       \* bound: handles of an entry that clients have

ASSUME CacheConstants ==
  /\ CacheKeys \subseteq Nat /\ Charges \subseteq Nat
  /\ Capacities \subseteq Nat
  /\ MinLength \in Nat \ {0}

VARIABLES
  capacity,   \* -1 before SetCapacity
  ent,        \* LRUHandles: key, charge, in_cache, refs
  lru,        \* lru_, oldest first
  inUse,      \* in_use_
  list,       \* HandleTable::list_: length_ buckets of entries
  elems,      \* HandleTable::elems_
  usage,      \* usage_
  freed,      \* entries passed to their deleter
  held,       \* for each entry the handles clients have
  evicting,   \* "fit" in the loop of Insert, "all" in that of Prune, or "no"
  released    \* a handle was released after the last Insert

cacheVars == <<capacity, ent, lru, inUse, list, elems, usage, freed, held,
               evicting, released>>

CacheInit ==
  /\ capacity = -1 /\ ent = << >> /\ lru = << >> /\ inUse = {}
  /\ list = [b \in 1 .. MinLength |-> {}] /\ elems = 0
  /\ usage = 0 /\ freed = {} /\ held = << >>
  /\ evicting = "no" /\ released = FALSE

SetCapacity(c) ==
  /\ capacity = -1
  /\ capacity' = c
  /\ UNCHANGED <<ent, lru, inUse, list, elems, usage, freed, held, evicting,
                 released>>

-----------------------------------------------------------------------------
(* HandleTable                                                             *)

Bucket(t, k) == (k % Len(t)) + 1
(* The entry of a key, or 0, which is nullptr.                             *)
FindPointer(ents, bucket, k) ==
  IF \E i \in bucket : ents[i].key = k
    THEN CHOOSE i \in bucket : ents[i].key = k ELSE 0
LookupIn(ents, t, k) == FindPointer(ents, t[Bucket(t, k)], k)
TableRemove(ents, t, k) ==
  [t EXCEPT ![Bucket(t, k)] = @ \ {LookupIn(ents, t, k)}]

NewLength(n) ==
  LET grow[len \in Nat] == IF len < n THEN grow[2 * len] ELSE len
  IN  grow[MinLength]
Resized(ents, t, len) ==
  [b \in 1 .. len |-> {i \in UNION Range(t) : (ents[i].key % len) + 1 = b}]
Resize(ents, t, n) == IF n > Len(t) THEN Resized(ents, t, NewLength(n)) ELSE t

(* Insert puts entry i where the old one of its key was, if there is one.  *)
TableInsert(t, i, k, old) ==
  [t EXCEPT ![Bucket(t, k)] = (@ \ {old}) \cup {i}]

-----------------------------------------------------------------------------
(* LRUCache: what the operations do to a record of the shared state.       *)

Shared == [ent |-> ent, lru |-> lru, inUse |-> inUse, list |-> list,
           elems |-> elems, usage |-> usage, freed |-> freed]

LRU_Remove(c, i) ==
  [c EXCEPT !.lru = RemoveFirst(@, i), !.inUse = @ \ {i}]

Ref(c, i) ==
  LET moved == [LRU_Remove(c, i) EXCEPT !.inUse = @ \cup {i}]
  IN  [(IF c.ent[i].refs = 1 /\ c.ent[i].inCache THEN moved ELSE c)
         EXCEPT !.ent[i].refs = @ + 1]

Placed(c, i) ==
  IF c.ent[i].refs = 0 THEN [c EXCEPT !.freed = @ \cup {i}]
  ELSE IF c.ent[i].inCache /\ c.ent[i].refs = 1
    THEN [LRU_Remove(c, i) EXCEPT !.lru = Append(@, i)]
  ELSE c
Unref(c, i) == Placed([c EXCEPT !.ent[i].refs = @ - 1], i)

StillCharged(c, i) ==
  IF i = 0 THEN c
  ELSE Unref([LRU_Remove(c, i) EXCEPT !.ent[i].inCache = FALSE], i)

(* FinishErase, for an entry that is no longer in the table.               *)
FinishErase(c, i) ==
  IF i = 0 THEN c
  ELSE Unref([LRU_Remove(c, i) EXCEPT !.ent[i].inCache = FALSE,
                                      !.usage = @ - c.ent[i].charge], i)
Removed(c, k) ==
  [c EXCEPT !.list = TableRemove(c.ent, @, k),
            !.elems = IF LookupIn(c.ent, c.list, k) = 0 THEN @ ELSE @ - 1]
Erased(c, k) == FinishErase(Removed(c, k), LookupIn(c.ent, c.list, k))

Become(c) ==
  /\ ent' = c.ent /\ lru' = c.lru /\ inUse' = c.inUse /\ list' = c.list
  /\ elems' = c.elems /\ usage' = c.usage /\ freed' = c.freed

Unlocked == capacity >= 0 /\ evicting = "no"

Lookup(k) ==
  /\ Unlocked
  /\ LET i == LookupIn(ent, list, k)
     IN  /\ i # 0 /\ held[i] < MaxHeld
         /\ Become(Ref(Shared, i))
         /\ held' = [held EXCEPT ![i] = @ + 1]
  /\ UNCHANGED <<capacity, evicting, released>>

CacheRelease(i) ==
  /\ Unlocked /\ held[i] > 0
  /\ Become(Unref(Shared, i))
  /\ held' = [held EXCEPT ![i] = @ - 1]
  /\ released' = TRUE
  /\ UNCHANGED <<capacity, evicting>>

Handle(k, n, inCache) ==
  [key |-> k, charge |-> n, inCache |-> inCache,
   refs |-> IF inCache THEN 2 ELSE 1]

(* The new entry i, in the list and in the table, where it has taken the   *)
(* place of `old`.                                                         *)
Added(c, i, k, n, old) ==
  LET ents == Append(c.ent, Handle(k, n, TRUE))
      count == IF old = 0 THEN c.elems + 1 ELSE c.elems
  IN  [c EXCEPT !.ent = ents, !.inUse = @ \cup {i}, !.usage = @ + n,
                !.list = Resize(ents, TableInsert(@, i, k, old), count),
                !.elems = count]
Inserted(c, k, n) ==
  LET old == LookupIn(c.ent, c.list, k)
  IN  FinishErase(Added(c, Len(c.ent) + 1, k, n, old), old)

(* With a capacity of 0 the entry is the client's alone.                   *)
HandedOut(c, k, n) == [c EXCEPT !.ent = Append(@, Handle(k, n, FALSE))]

CacheInsert(k, n) ==
  /\ Unlocked /\ Len(ent) < MaxCached
  /\ Become(IF capacity > 0 THEN Inserted(Shared, k, n)
            ELSE HandedOut(Shared, k, n))
  /\ held' = Append(held, 1)
  /\ evicting' = "fit"
  /\ released' = FALSE
  /\ UNCHANGED capacity

CacheErase(k) ==
  /\ Unlocked
  /\ Become(Erased(Shared, k))
  /\ UNCHANGED <<capacity, held, evicting, released>>

Prune ==
  /\ Unlocked
  /\ evicting' = "all"
  /\ UNCHANGED <<capacity, ent, lru, inUse, list, elems, usage, freed, held,
                 released>>

(* One turn of the loop: the oldest entry that no client has goes, while   *)
(* the rest does not fit, or while there is one.                           *)
LoopsOn == lru # << >> /\ (evicting = "all" \/ usage > capacity)
Evict ==
  /\ evicting # "no"
  /\ \/ /\ LoopsOn
        /\ Become(Erased(Shared, ent[Head(lru)].key))
        /\ UNCHANGED evicting
     \/ /\ ~LoopsOn
        /\ evicting' = "no"
        /\ UNCHANGED <<ent, lru, inUse, list, elems, usage, freed>>
  /\ UNCHANGED <<capacity, held, released>>

CacheNext ==
  \/ \E c \in Capacities : SetCapacity(c)
  \/ \E k \in CacheKeys : Lookup(k) \/ CacheErase(k)
                          \/ \E n \in Charges : CacheInsert(k, n)
  \/ \E i \in DOMAIN ent : CacheRelease(i)
  \/ Prune \/ Evict

CacheSpec == CacheInit /\ [][CacheNext]_cacheVars

-----------------------------------------------------------------------------
(* Properties.                                                             *)

InCache(ents) == {i \in DOMAIN ents : ents[i].inCache}
(* What the entries of S are charged, one element for each unit.           *)
Units(ents, S) == UNION {{<<i, u>> : u \in 1 .. ents[i].charge} : i \in S}

(* No entry is freed, or its file closed, while a client has a handle of   *)
(* it, and none is freed twice or leaks: the count is that of the handles  *)
(* and of the cache's own reference (cache.cc:50-51, 225-237).             *)
RefsAreHeld ==
  \A i \in DOMAIN ent :
    /\ ent[i].refs = held[i] + (IF ent[i].inCache THEN 1 ELSE 0)
    /\ i \in freed <=> ent[i].refs = 0

(* The two lists, the table, its count and the usage agree on what is in   *)
(* the cache, whatever was replaced, erased or evicted while clients had   *)
(* it (cache.cc:28-38, 143), and only handles released since the last      *)
(* Insert leave more than the capacity in it that could be evicted.        *)
ListsAgree ==
  /\ Range(lru) = {i \in InCache(ent) : ent[i].refs = 1} /\ IsInjective(lru)
  /\ inUse = {i \in InCache(ent) : ent[i].refs >= 2}
  /\ usage = Cardinality(Units(ent, InCache(ent)))
  /\ UNION Range(list) = InCache(ent)
  /\ elems = Cardinality(InCache(ent))
  /\ \A i \in InCache(ent) : LookupIn(ent, list, ent[i].key) = i
  /\ usage > capacity /\ lru # << >> => released \/ evicting # "no"

CacheSound == RefsAreHeld /\ ListsAgree

-----------------------------------------------------------------------------
(* The inductive invariant.                                                *)

CacheEntry == [key : CacheKeys, charge : Charges, inCache : BOOLEAN, refs : Nat]
CacheState == [ent : Seq(CacheEntry), lru : Seq(Nat), inUse : SUBSET Nat,
               list : Seq(SUBSET Nat), elems : Nat, usage : Int,
               freed : SUBSET Nat]
CacheTypes(c, h) ==
  /\ c \in CacheState /\ c.list # << >> /\ c.freed \subseteq DOMAIN c.ent
  /\ h \in Seq(Nat) /\ Len(h) = Len(c.ent)

(* The counts of c, when clients have the handles h.                       *)
CountsOf(c, h) ==
  \A i \in DOMAIN c.ent :
    /\ c.ent[i].refs = h[i] + (IF c.ent[i].inCache THEN 1 ELSE 0)
    /\ i \in c.freed <=> c.ent[i].refs = 0

ListsOfCache(c) ==
  /\ Range(c.lru) = {i \in InCache(c.ent) : c.ent[i].refs = 1}
  /\ IsInjective(c.lru)
  /\ c.inUse = {i \in InCache(c.ent) : c.ent[i].refs >= 2}
  /\ c.usage = Cardinality(Units(c.ent, InCache(c.ent)))

(* The table has the entries of S, one for a key, each in its bucket.      *)
TableHas(c, S) ==
  /\ \A b \in DOMAIN c.list :
       c.list[b] = {i \in S : Bucket(c.list, c.ent[i].key) = b}
  /\ \A i, j \in S : c.ent[i].key = c.ent[j].key => i = j
  /\ c.elems = Cardinality(S)

(* Between the table's Remove or Insert and the end of FinishErase an      *)
(* entry x is in the cache but no longer in the table.                     *)
Consistent(c, h, x) ==
  /\ CacheTypes(c, h) /\ CountsOf(c, h) /\ ListsOfCache(c)
  /\ TableHas(c, InCache(c.ent) \ {x})

CacheInv ==
  /\ Consistent(Shared, held, 0)
  /\ capacity \in Nat \cup {-1} /\ evicting \in {"no", "fit", "all"}
  /\ released \in BOOLEAN
  /\ capacity = -1 => lru = << >> /\ evicting = "no"
  /\ usage > capacity /\ lru # << >> => released \/ evicting # "no"

=============================================================================
