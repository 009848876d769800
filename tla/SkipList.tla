------------------------------ MODULE SkipList ------------------------------
(***************************************************************************)
(* The skip list of LevelDB's memtable (ios/Pods/leveldb-library:          *)
(* db/skiplist.h). One thread at a time inserts, with DBImpl's mutex or    *)
(* the front of its queue of writers to see to that; iterators read        *)
(* without any lock while it does.                                         *)
(* A step is one load or one store of a link. Stores are seen in the order *)
(* in which they are released; max_height_, which is read and written      *)
(* relaxed, may be seen as any value it has had.                           *)
(***************************************************************************)
EXTENDS Integers, FiniteSets, FiniteSetsExt

CONSTANTS
  MaxKey,      \* keys are 1 .. MaxKey
  kMaxHeight

ASSUME ListAssumption == MaxKey \in Nat /\ kMaxHeight \in Nat \ {0}

Keys == 1 .. MaxKey
head == 0                  \* head_
NoNode == MaxKey + 1       \* nullptr; sorts after all keys
Garbage == MaxKey + 2      \* a link no one has written yet
Levels == 0 .. kMaxHeight - 1

VARIABLES
  next,       \* next_ of head_ and of every node that was allocated
  heights,    \* the values max_height_ has had
  inserted,   \* keys whose Insert has returned
  w,          \* the thread in Insert
  r           \* a thread with an Iterator

listVars == <<next, heights, inserted, w, r>>

Search(op, key, level) == [pc |-> "search", op |-> op, key |-> key,
                           x |-> head, level |-> level]
Idle == [pc |-> "idle", op |-> "", key |-> 0, x |-> head, level |-> 0]

ListInit ==
  /\ next = [n \in {head} |-> [i \in Levels |-> NoNode]]
  /\ heights = {1} /\ inserted = {}
  /\ w = [at |-> Idle, prev |-> [i \in Levels |-> head], height |-> 0, i |-> 0]
  /\ r = [at |-> Idle, node |-> NoNode, before |-> {}]

-----------------------------------------------------------------------------
(* The searches: a turn of the loop of FindGreaterOrEqual, FindLessThan    *)
(* and FindLast. The node to go on from, or the answer.                    *)

GoesOn(s, n) == IF s.op = "last" THEN n # NoNode ELSE n < s.key
Answer(s, n) == IF s.op = "notLess" THEN n ELSE s.x

Turn(s, n) ==
  IF GoesOn(s, n) THEN [s EXCEPT !.x = n]
  ELSE IF s.level > 0 THEN [s EXCEPT !.level = @ - 1]
  ELSE [s EXCEPT !.pc = "found", !.x = Answer(s, n)]

-----------------------------------------------------------------------------
(* Insert                                                                  *)

Insert(k) ==
  /\ w.at.pc = "idle" /\ k \notin DOMAIN next
  /\ w' = [w EXCEPT !.at = Search("notLess", k, Max(heights) - 1)]
  /\ UNCHANGED <<next, heights, inserted, r>>

InsertSearch ==
  /\ w.at.pc = "search"
  /\ LET n == next[w.at.x][w.at.level]
     IN  w' = [w EXCEPT !.at = Turn(w.at, n),
                 !.prev[w.at.level] = IF GoesOn(w.at, n) THEN @ ELSE w.at.x]
  /\ UNCHANGED <<next, heights, inserted, r>>

(* RandomHeight, max_height_ and the new node.                             *)
NewNode(h) ==
  /\ w.at.pc = "found"
  /\ w' = [w EXCEPT !.at.pc = "link", !.height = h, !.i = 0,
             !.prev = [i \in Levels |-> IF i < Max(heights) THEN @[i] ELSE head]]
  /\ heights' = IF h > Max(heights) THEN heights \cup {h} ELSE heights
  /\ next' = [n \in DOMAIN next \cup {w.at.key} |->
                IF n = w.at.key THEN [i \in 0 .. h - 1 |-> Garbage] ELSE next[n]]
  /\ UNCHANGED <<inserted, r>>

TopDown(i) == w.height - 1 - i
BottomUp(i) == i
Level == BottomUp(w.i)

Link ==
  /\ w.at.pc = "link"
  /\ next' = [next EXCEPT ![w.at.key][Level] = next[w.prev[Level]][Level]]
  /\ w' = [w EXCEPT !.at.pc = "publish"]
  /\ UNCHANGED <<heights, inserted, r>>

Publish ==
  /\ w.at.pc = "publish"
  /\ next' = [next EXCEPT ![w.prev[Level]][Level] = w.at.key]
  /\ IF w.i + 1 < w.height
     THEN /\ w' = [w EXCEPT !.at.pc = "link", !.i = @ + 1]
          /\ UNCHANGED inserted
     ELSE /\ w' = [w EXCEPT !.at = Idle, !.height = 0, !.i = 0,
                            !.prev = [i \in Levels |-> head]]
          /\ inserted' = inserted \cup {w.at.key}
  /\ UNCHANGED <<heights, r>>

-----------------------------------------------------------------------------
(* Iterator                                                                *)

Begin(op, key, h) ==
  /\ r' = [r EXCEPT !.at = Search(op, key, h - 1), !.before = inserted]
  /\ UNCHANGED <<next, heights, inserted, w>>

Valid == r.node # NoNode /\ r.at.pc = "end"
Ready == r.at.pc \in {"idle", "end"}

Seek(k, h) == Ready /\ Begin("notLess", k, h)
SeekToLast(h) == Ready /\ Begin("last", NoNode, h)
Prev(h) == Valid /\ Begin("less", r.node, h)

(* One load; the result of the call, or of its last load.                  *)
SetNode(op, key, n) ==
  r' = [r EXCEPT !.at = [pc |-> "end", op |-> op, key |-> key, x |-> head,
                         level |-> 0],
                 !.before = IF r.at.pc = "search" THEN @ ELSE inserted,
                 !.node = n]
SeekToFirst ==
  /\ Ready
  /\ SetNode("notLess", 1, next[head][0])
  /\ UNCHANGED <<next, heights, inserted, w>>
Next_ ==
  /\ Valid
  /\ SetNode("notLess", r.node + 1, next[r.node][0])
  /\ UNCHANGED <<next, heights, inserted, w>>

ReadSearch ==
  /\ r.at.pc = "search"
  /\ LET s == Turn(r.at, next[r.at.x][r.at.level])
     IN  IF s.pc = "found"
         THEN SetNode(s.op, s.key, IF s.x = head THEN NoNode ELSE s.x)
         ELSE r' = [r EXCEPT !.at = s]
  /\ UNCHANGED <<next, heights, inserted, w>>

ListNext ==
  \/ \E k \in Keys : Insert(k)
  \/ InsertSearch \/ Link \/ Publish
  \/ \E h \in 1 .. kMaxHeight : NewNode(h)
  \/ \E h \in heights : (\E k \in Keys : Seek(k, h)) \/ SeekToLast(h) \/ Prev(h)
  \/ SeekToFirst \/ Next_ \/ ReadSearch

ListSpec == ListInit /\ [][ListNext]_listVars

-----------------------------------------------------------------------------
(* Properties.                                                             *)

(* An iterator that reads while another thread inserts never follows a     *)
(* link that is not yet written, goes where it was sent, and passes over   *)
(* no key whose insertion had returned when the call began                 *)
(* (skiplist.h:15-28).                                                     *)
Skipped ==
  CASE r.at.op = "notLess" -> {k \in r.before : r.at.key <= k /\ k < r.node}
    [] r.at.op = "less" -> {k \in r.before : k < r.at.key
                              /\ (r.node = NoNode \/ r.node < k)}
    [] OTHER -> {k \in r.before : r.node = NoNode \/ r.node < k}

ReadersSeeInserted ==
  /\ r.at.x # Garbage /\ r.node # Garbage
  /\ r.at.pc = "end" =>
       /\ Skipped = {}
       /\ r.node # NoNode =>
            /\ r.node \in DOMAIN next
            /\ r.at.op = "notLess" => r.node >= r.at.key
            /\ r.at.op = "less" => r.node < r.at.key

-----------------------------------------------------------------------------
(* The inductive invariant behind it.                                      *)

At == [pc : {"idle", "search", "found", "link", "publish", "end"},
       op : {"", "notLess", "less", "last"}, key : Nat, x : Nat, level : Nat]

ListTypes ==
  /\ DOMAIN next \subseteq {head} \cup Keys /\ head \in DOMAIN next
  /\ DOMAIN next[head] = Levels
  /\ \A n \in DOMAIN next :
       \E h \in 1 .. kMaxHeight : DOMAIN next[n] = 0 .. h - 1
  /\ heights \subseteq 1 .. kMaxHeight
  /\ \E h \in heights : \A g \in heights : h >= g
  /\ w \in [at : At, prev : [Levels -> Nat], height : Nat, i : Nat]
  /\ r \in [at : At, node : Nat, before : SUBSET Keys]

(* The nodes on level i: the one being inserted is on those below w.i.     *)
Linking == w.at.pc \in {"link", "publish"}
Linked(i) ==
  {n \in DOMAIN next :
     i \in DOMAIN next[n] /\ ~(Linking /\ n = w.at.key /\ i >= w.i)}

(* Each level is in order, and no link passes over a node of its level.    *)
InOrder ==
  \A i \in Levels : \A n \in Linked(i) :
    /\ next[n][i] \in Linked(i) \cup {NoNode} /\ n < next[n][i]
    /\ \A k \in Linked(i) : k <= n \/ next[n][i] <= k

(* The new node belongs behind w.prev[l] on level l.                       *)
GoesBehind(l) ==
  /\ w.prev[l] \in Linked(l)
  /\ w.prev[l] < w.at.key /\ w.at.key < next[w.prev[l]][l]

(* Where Insert is. Above the height nobody has linked a node.             *)
WriterInv ==
  /\ \A i \in Levels : i >= Max(heights) => next[head][i] = NoNode
  /\ w.at.pc # "end"
  /\ w.at.pc \in {"search", "found"} =>
       /\ w.at.key \in Keys \ DOMAIN next /\ w.at.op = "notLess"
       /\ \A l \in 0 .. Max(heights) - 1 :
            w.at.pc = "found" \/ w.at.level < l => GoesBehind(l)
  /\ w.at.pc = "search" =>
       /\ w.at.level <= Max(heights) - 1
       /\ w.at.x \in Linked(w.at.level) /\ w.at.x < w.at.key
  /\ Linking =>
       /\ w.at.key \in Keys /\ w.at.key \in DOMAIN next
       /\ w.height \in 1 .. Max(heights) /\ w.i < w.height
       /\ DOMAIN next[w.at.key] = 0 .. w.height - 1
       /\ \A l \in w.i .. w.height - 1 : GoesBehind(l)
  /\ w.at.pc = "publish" =>
       next[w.at.key][w.i] = next[w.prev[w.i]][w.i]

(* Where the iterator is: always on a node of the level it reads.          *)
ReaderInv ==
  /\ r.before \subseteq inserted /\ inserted \subseteq Keys \cap Linked(0)
  /\ r.node \in Linked(0) \cup {NoNode} /\ r.node # head
  /\ r.at.pc \in {"idle", "search", "end"}
  /\ r.at.pc = "search" =>
       /\ r.at.op # "" /\ r.at.level \in Levels
       /\ r.at.x \in Linked(r.at.level)
       /\ r.at.op # "last" => r.at.x < r.at.key /\ r.at.key <= NoNode
  /\ r.at.pc # "search" => r.at.x = head

ListInv ==
  /\ ListTypes /\ InOrder /\ WriterInv /\ ReaderInv /\ ReadersSeeInserted

=============================================================================
