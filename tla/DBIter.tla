------------------------------- MODULE DBIter -------------------------------
(***************************************************************************)
(* Iterating over a LevelDB database (ios/Pods/leveldb-library:            *)
(* db/db_iter.cc over table/merger.cc over table/two_level_iterator.cc).   *)
(* The entries of a memtable and of a table, whose blocks may turn out to  *)
(* be unreadable, are merged; of the entries of a key the user sees the    *)
(* newest that the snapshot allows, unless it is a deletion. All three     *)
(* layers remember in which direction they went last.                      *)
(* Sampling reads for compactions and unparsable keys are left out.        *)
(***************************************************************************)
EXTENDS Integers, Sequences, FiniteSets, SequencesExt

CONSTANTS
  Keys,      \* user keys, positive numbers
  MaxSeq,    \* bound: the number of writes
  Snapshots, \* sequence numbers at which iterators are made
  PerBlock   \* how many entries a block of the table takes

Source == {1, 2}         \* the memtable and the table

VARIABLES
  blocks,   \* for each source its blocks, sequences of entries
  unread,   \* the blocks of the table that cannot be read
  wide,     \* keys of the index block are as large as they may be
  sequence, \* DBIter::sequence_, or 0 before there is an iterator
  m,        \* the MergingIterator: children, current_ (0 for nullptr), direction
  it,       \* the DBIter, and where a call of it is
  want      \* the user key the iterator should be at, 0 for none

vars == <<blocks, unread, wide, sequence, m, it, want>>
fixed == <<blocks, unread, wide, sequence>>

Less(a, b) == a.k < b.k \/ (a.k = b.k /\ a.s > b.s)
LessEq(a, b) == ~Less(b, a)

-----------------------------------------------------------------------------
(* TwoLevelIterator: a block, a place in it (0 when there is no valid      *)
(* data_iter_) and whether status() has an error. The index iterator is    *)
(* not valid at block 0.                                                   *)

Read(i, b) == IF i = 2 /\ b \in unread THEN << >> ELSE blocks[i][b]
At(i, b, p, err) ==
  [block |-> b, pos |-> p, err |-> err \/ (i = 2 /\ b \in unread)]
Valid(c) == c.pos # 0
KeyOf(i, c) == blocks[i][c.block][c.pos]

Error(i, from, to, err) == err \/ (i = 2 /\ unread \cap (from .. to) # {})

(* SkipEmptyDataBlocksForward and Backward.                                *)
Forward(i, c) ==
  LET more == {b \in c.block + 1 .. Len(blocks[i]) : Read(i, b) # << >>}
      b == Min(more)
  IN  IF Valid(c) \/ c.block = 0 THEN c
      ELSE IF more = {} THEN [block |-> 0, pos |-> 0,
                              err |-> Error(i, c.block, Len(blocks[i]), c.err)]
      ELSE [block |-> b, pos |-> 1, err |-> Error(i, c.block, b, c.err)]

Backward(i, c) ==
  LET more == {b \in 1 .. c.block - 1 : Read(i, b) # << >>}
      b == Max(more)
  IN  IF Valid(c) \/ c.block = 0 THEN c
      ELSE IF more = {} THEN [block |-> 0, pos |-> 0,
                              err |-> Error(i, 1, c.block, c.err)]
      ELSE [block |-> b, pos |-> Len(Read(i, b)),
            err |-> Error(i, b, c.block, c.err)]

(* Block::Iter::Seek in the index block: its keys are at least the last    *)
(* of a block and less than the first of the next.                         *)
IndexSeek(i, target) ==
  LET found == {b \in DOMAIN blocks[i] :
                  \/ LessEq(target, Last(blocks[i][b]))
                  \/ wide /\ (b = Len(blocks[i])
                              \/ Less(target, Head(blocks[i][b + 1])))}
  IN  IF found = {} THEN 0 ELSE Min(found)

DataSeek(data, target) ==
  LET found == {p \in DOMAIN data : LessEq(target, data[p])}
  IN  IF found = {} THEN 0 ELSE Min(found)

Placed(i, b, p, err) ==
  IF b = 0 THEN [block |-> 0, pos |-> 0, err |-> err] ELSE At(i, b, p, err)
Data(i, b) == IF b = 0 THEN << >> ELSE Read(i, b)

TLSeek(i, c, target) ==
  LET b == IndexSeek(i, target)
  IN  Forward(i, Placed(i, b, DataSeek(Data(i, b), target), c.err))
TLSeekToFirst(i, c) ==
  LET b == IF blocks[i] = << >> THEN 0 ELSE 1
  IN  Forward(i, Placed(i, b, IF Data(i, b) = << >> THEN 0 ELSE 1, c.err))
TLSeekToLast(i, c) ==
  LET b == Len(blocks[i])
  IN  Backward(i, Placed(i, b, Len(Data(i, b)), c.err))
TLNext(i, c) ==
  Forward(i, [c EXCEPT !.pos = IF @ = Len(Read(i, c.block)) THEN 0 ELSE @ + 1])
TLPrev(i, c) == Backward(i, [c EXCEPT !.pos = @ - 1])

-----------------------------------------------------------------------------
(* MergingIterator                                                         *)

KeyAt(ch, i) == KeyOf(i, ch[i])
ValidIn(ch) == {i \in Source : Valid(ch[i])}

FindSmallest(ch) ==
  [ch |-> ch, fwd |-> TRUE,
   cur |-> IF ValidIn(ch) = {} THEN 0
           ELSE CHOOSE i \in ValidIn(ch) :
                  \A j \in ValidIn(ch) : LessEq(KeyAt(ch, i), KeyAt(ch, j))]
FindLargest(ch) ==
  [ch |-> ch, fwd |-> FALSE,
   cur |-> IF ValidIn(ch) = {} THEN 0
           ELSE CHOOSE i \in ValidIn(ch) :
                  \A j \in ValidIn(ch) : LessEq(KeyAt(ch, j), KeyAt(ch, i))]

MSeekToFirst(x) == FindSmallest([i \in Source |-> TLSeekToFirst(i, x.ch[i])])
MSeekToLast(x) == FindLargest([i \in Source |-> TLSeekToLast(i, x.ch[i])])
MSeek(x, target) == FindSmallest([i \in Source |-> TLSeek(i, x.ch[i], target)])

Current(x) == KeyAt(x.ch, x.cur)

(* The other children, when the direction changes.                         *)
LeftBehind(i, c) == IF Valid(c) THEN TLPrev(i, c) ELSE c
SteppedBack(i, c) == IF Valid(c) THEN TLPrev(i, c) ELSE TLSeekToLast(i, c)
Ahead(x) == [i \in Source |-> IF i = x.cur THEN x.ch[i]
                              ELSE TLSeek(i, x.ch[i], Current(x))]
Behind(x) == [i \in Source |-> IF i = x.cur THEN x.ch[i]
               ELSE SteppedBack(i, TLSeek(i, x.ch[i], Current(x)))]

MNext(x) ==
  FindSmallest([(IF x.fwd THEN x.ch ELSE Ahead(x))
                  EXCEPT ![x.cur] = TLNext(x.cur, @)])
MPrev(x) ==
  FindLargest([(IF x.fwd THEN Behind(x) ELSE x.ch)
                 EXCEPT ![x.cur] = TLPrev(x.cur, @)])

-----------------------------------------------------------------------------
(* The database.                                                           *)

Entries(f) == {[k |-> f[s][1], s |-> s, t |-> f[s][2], in |-> f[s][3]] :
                 s \in DOMAIN f}
SortedIn(S, i) == SetToSortSeq({e \in S : e.in = i}, Less)
Split(es, n) ==
  [b \in 1 .. (Len(es) + n - 1) \div n |->
     SubSeq(es, (b - 1) * n + 1, IF b * n < Len(es) THEN b * n ELSE Len(es))]

NoChild == [block |-> 0, pos |-> 0, err |-> FALSE]
NewMerger == [ch |-> <<NoChild, NoChild>>, cur |-> 0, fwd |-> TRUE]
NewIter == [pc |-> "idle", valid |-> FALSE, fwd |-> TRUE, key |-> 0, value |-> 0,
            skipping |-> FALSE, type |-> "del"]

Init ==
  /\ blocks = <<<< >>, << >>>> /\ unread = {} /\ wide = FALSE /\ sequence = 0
  /\ m = NewMerger /\ it = NewIter /\ want = 0

NewIterator(f, n, bad, w, s) ==
  /\ LET table == Split(SortedIn(Entries(f), 2), n)
     IN  /\ blocks' = <<Split(SortedIn(Entries(f), 1), MaxSeq), table>>
         /\ unread' = bad \cap DOMAIN table
  /\ wide' = w /\ sequence' = s
  /\ UNCHANGED <<m, it, want>>

(* What the user should see: keys with the newest entry that counts.       *)
All == UNION {Range(b) : b \in Range(blocks[1]) \cup Range(blocks[2])}
NewestOf(k) ==
  {e \in All : e.k = k /\ e.s <= sequence
                 /\ \A f \in All : f.k = k /\ f.s <= sequence => f.s <= e.s}
Visible == {k \in Keys : \E e \in NewestOf(k) : e.t = "val"}
LeastKey(S) == IF S = {} THEN 0 ELSE Min(S)
GreatestKey(S) == IF S = {} THEN 0 ELSE Max(S)

-----------------------------------------------------------------------------
(* DBIter. A call runs until the pc is "idle" again.                       *)

Ready == sequence # 0 /\ it.pc = "idle"

Continue(x, pc) ==
  /\ m' = x
  /\ it' = [it EXCEPT !.fwd = TRUE, !.skipping = FALSE, !.value = 0,
              !.pc = IF x.cur = 0 THEN "idle" ELSE pc,
              !.valid = @ /\ x.cur # 0]

Seek(k) ==
  /\ Ready
  /\ Continue(MSeek(m, [k |-> k, s |-> sequence]), "next")
  /\ want' = LeastKey({v \in Visible : v >= k})
  /\ UNCHANGED fixed

SeekToFirst ==
  /\ Ready
  /\ Continue(MSeekToFirst(m), "next")
  /\ want' = LeastKey(Visible)
  /\ UNCHANGED fixed

SeekToLast ==
  /\ Ready
  /\ m' = MSeekToLast(m)
  /\ it' = [it EXCEPT !.fwd = FALSE, !.value = 0, !.type = "del", !.pc = "prev"]
  /\ want' = GreatestKey(Visible)
  /\ UNCHANGED fixed

(* Next, up to FindNextUserEntry.                                          *)
Reentered(x) == IF x.cur = 0 THEN MSeekToFirst(x) ELSE MNext(x)

Next_ ==
  /\ Ready /\ it.valid
  /\ want' = LeastKey({v \in Visible : v > want})
  /\ IF it.fwd
     THEN /\ it' = [it EXCEPT !.key = Current(m).k, !.skipping = TRUE,
                              !.pc = "next"]
          /\ UNCHANGED m
     ELSE /\ m' = Reentered(m)
          /\ it' = [it EXCEPT !.fwd = TRUE, !.skipping = TRUE,
                      !.valid = m'.cur # 0,
                      !.key = IF m'.cur = 0 THEN 0 ELSE @,
                      !.pc = IF m'.cur = 0 THEN "idle" ELSE "next"]
  /\ UNCHANGED fixed

(* One turn of the loop of FindNextUserEntry.                              *)
Hidden(e) == it.skipping /\ e.k <= it.key
Advance(x, r) ==
  /\ m' = x
  /\ it' = IF x.cur = 0
           THEN [r EXCEPT !.valid = FALSE, !.key = 0, !.pc = "idle"] ELSE r

FindNextUserEntry ==
  /\ it.pc = "next"
  /\ LET e == Current(m)
     IN  \/ /\ e.s <= sequence /\ e.t = "val" /\ ~Hidden(e)
            /\ it' = [it EXCEPT !.valid = TRUE, !.key = 0, !.pc = "idle"]
            /\ UNCHANGED m
         \/ /\ e.s <= sequence /\ e.t = "del"
            /\ Advance(MNext(m), [it EXCEPT !.key = e.k, !.skipping = TRUE])
         \/ /\ e.s > sequence \/ (e.t = "val" /\ Hidden(e))
            /\ Advance(MNext(m), it)
  /\ UNCHANGED <<fixed, want>>

(* Prev, up to FindPrevUserEntry: back over the entries of the key.        *)
Prev ==
  /\ Ready /\ it.valid
  /\ want' = GreatestKey({v \in Visible : v < want})
  /\ it' = IF it.fwd THEN [it EXCEPT !.key = Current(m).k, !.pc = "back"]
           ELSE [it EXCEPT !.type = "del", !.pc = "prev"]
  /\ UNCHANGED <<fixed, m>>

ScanBack ==
  /\ it.pc = "back"
  /\ m' = MPrev(m)
  /\ it' = IF m'.cur = 0 THEN [it EXCEPT !.valid = FALSE, !.key = 0,
                                         !.value = 0, !.pc = "idle"]
           ELSE IF Current(m').k < it.key
             THEN [it EXCEPT !.fwd = FALSE, !.type = "del", !.pc = "prev"]
           ELSE it
  /\ UNCHANGED <<fixed, want>>

(* One turn of FindPrevUserEntry, or its end.                              *)
Saves(e) ==
  IF e.s > sequence THEN it
  ELSE IF e.t = "del" THEN [it EXCEPT !.type = "del", !.key = 0, !.value = 0]
  ELSE [it EXCEPT !.type = "val", !.key = e.k, !.value = e.s]

Found == it.type = "val" /\ Current(m).s <= sequence /\ Current(m).k < it.key

FindPrevUserEntry ==
  /\ it.pc = "prev"
  /\ IF m.cur # 0 /\ ~Found
     THEN it' = Saves(Current(m)) /\ m' = MPrev(m)
     ELSE /\ it' = IF it.type = "del"
                   THEN [it EXCEPT !.valid = FALSE, !.fwd = TRUE, !.key = 0,
                                   !.value = 0, !.pc = "idle"]
                   ELSE [it EXCEPT !.valid = TRUE, !.pc = "idle"]
          /\ UNCHANGED m
  /\ UNCHANGED <<fixed, want>>

Contents == [1 .. MaxSeq -> Keys \X {"val", "del"} \X Source]

Next ==
  \/ /\ sequence = 0
     /\ \E f \in Contents, n \in PerBlock, bad \in {{}, {1}, {2}}, w \in BOOLEAN,
           s \in Snapshots : NewIterator(f, n, bad, w, s)
  \/ \E k \in Keys : Seek(k)
  \/ SeekToFirst \/ SeekToLast \/ Next_ \/ Prev
  \/ FindNextUserEntry \/ ScanBack \/ FindPrevUserEntry

-----------------------------------------------------------------------------
(* Properties.                                                             *)

Status == m.ch[1].err \/ m.ch[2].err
Key == IF it.fwd THEN Current(m).k ELSE it.key
ValueSeq == IF it.fwd THEN Current(m).s ELSE it.value

(* After any calls of Seek, SeekToFirst, SeekToLast, Next and Prev, in any *)
(* order and with any change of direction, the iterator is valid if and    *)
(* only if there is a key to be at, and then has that key and its newest   *)
(* value not newer than the snapshot (db_iter.cc:40-44), unless status()   *)
(* tells of a block that could not be read.                                *)
IteratorAgrees ==
  Ready /\ ~Status =>
    /\ it.valid <=> want # 0
    /\ it.valid => Key = want /\ \E e \in NewestOf(want) : e.s = ValueSeq

=============================================================================
