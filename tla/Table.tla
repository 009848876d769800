------------------------------- MODULE Table -------------------------------
(***************************************************************************)
(* Building and reading a table file of LevelDB (ios/Pods/leveldb-library: *)
(* table/table_builder.cc, block_builder.cc, filter_block.cc, block.cc,    *)
(* table.cc, util/comparator.cc and db/dbformat.cc).                       *)
(* Keys are strings of a small alphabet with a sequence number. A block    *)
(* keeps of a key what the one before it does not begin with, except at    *)
(* restart points; the index has a key between every two blocks; a filter  *)
(* covers the blocks that begin in one stretch of the file.                *)
(* Sizes count letters; compression, checksums and write errors are left   *)
(* out, and a filter is taken to match only the keys it was made of.       *)
(***************************************************************************)
EXTENDS Integers, Sequences, FiniteSets, SequencesExt, FiniteSetsExt

CONSTANTS
  Letters,          \* bytes 0 .. n, the greatest standing for 0xff
  MaxLength,        \* bound: letters of a user key
  Stored,           \* bound: user keys in the table
  MaxSeq,           \* sequence numbers are 1 .. MaxSeq
  RestartInterval,  \* block_restart_interval
  BlockSizes,       \* values of the option block_size
  FilterBase,       \* kFilterBase
  MaxEntries        \* bound: calls of Add

User == UNION {[1 .. n -> Letters] : n \in 1 .. MaxLength}
InternalKeys == {[u |-> x, s |-> n] : x \in User, n \in 1 .. MaxSeq}
kMaxSequenceNumber == MaxSeq + 1

VARIABLES
  blockSize,  \* r->options.block_size, 0 before there is a builder
  block,      \* data_block: entries and restarts, and its last_key_
  lastKey,    \* r->last_key
  done,       \* the blocks written, with their offsets
  index,      \* the index block
  pending,    \* pending_index_entry
  offset,     \* r->offset
  filterKeys, \* keys_ of the FilterBlockBuilder
  filters,    \* the filters it has made, sets of user keys
  added,      \* the keys added, in order
  closed,
  it,         \* a Block::Iter, and the block it is of
  at          \* where it should be: 0 for not valid

builder == <<blockSize, block, lastKey, done, index, pending, offset, filterKeys,
             filters, added, closed>>
vars == <<builder, it, at>>

-----------------------------------------------------------------------------
(* Comparators                                                             *)

Common(a, b) ==
  LET alike == {n \in 1 .. Len(a) : n <= Len(b) /\ a[n] = b[n]}
  IN  Max({n \in 0 .. Len(a) : 1 .. n \subseteq alike})

Before(a, b) ==      \* Slice::compare < 0
  LET n == Common(a, b)
  IN  IF n = Len(a) \/ n = Len(b) THEN Len(a) < Len(b) ELSE a[n + 1] < b[n + 1]

Less(a, b) == Before(a.u, b.u) \/ (a.u = b.u /\ a.s > b.s)

Increment(u, i) == [SubSeq(u, 1, i) EXCEPT ![i] = @ + 1]

UserSeparator(a, b) ==
  LET i == Common(a, b) + 1
  IN  IF i > Len(a) \/ i > Len(b) THEN a
      ELSE IF a[i] + 1 < b[i] THEN Increment(a, i) ELSE a

UserSuccessor(a) ==
  LET low == {i \in DOMAIN a : a[i] # Max(Letters)}
  IN  IF low = {} THEN a ELSE Increment(a, Min(low))

(* InternalKeyComparator: only what is shorter is worth it.                *)
Shorter(key, u) ==
  IF Len(u) < Len(key.u) /\ Before(key.u, u)
  THEN [u |-> u, s |-> kMaxSequenceNumber] ELSE key
FindShortestSeparator(start, limit) ==
  Shorter(start, UserSeparator(start.u, limit.u))
FindShortSuccessor(key) == Shorter(key, UserSuccessor(key.u))

-----------------------------------------------------------------------------
(* BlockBuilder. The letters of an internal key are its user key's and the *)
(* number, which is no letter.                                             *)

EmptyBlock == [entries |-> << >>, restarts |-> <<1>>, counter |-> 0, last |-> << >>]

Encode(key) == Append(key.u, -key.s)
Decode(x) == [u |-> Front(x), s |-> -Last(x)]

Entry(x, shared) == [shared |-> shared, delta |-> SubSeq(x, shared + 1, Len(x))]

AddTo(b, x, interval) ==
  IF b.counter < interval
  THEN [b EXCEPT !.entries = Append(@, Entry(x, Common(b.last, x))),
                 !.counter = @ + 1, !.last = x]
  ELSE [b EXCEPT !.entries = Append(@, Entry(x, 0)),
                 !.restarts = Append(@, Len(b.entries) + 1),
                 !.counter = 1, !.last = x]

SizeOf(b) ==
  MapThenSumSet(LAMBDA i : Len(b.entries[i].delta), DOMAIN b.entries)
    + Len(b.entries) + Len(b.restarts) + 1

-----------------------------------------------------------------------------
(* Block::Iter. Offsets of entries are their indices; one past the last is *)
(* restarts_.                                                              *)

Limit(b) == Len(b.entries) + 1
NoIter(b) == [cur |-> Limit(b), ri |-> Len(b.restarts) + 1, key |-> << >>]

(* The key of entry j, parsed from the restart point r on.                 *)
ParsedKey(b, r, j) ==
  FoldLeft(LAMBDA key, n : SubSeq(key, 1, n.shared) \o n.delta, << >>,
           SubSeq(b.entries, b.restarts[r], j))

(* ParseNextKey until entry j: the restart index is that of a restart      *)
(* point before the entry, if there is one.                                *)
ParsedTo(b, r, j) ==
  IF j >= Limit(b) THEN NoIter(b)
  ELSE [cur |-> j, key |-> ParsedKey(b, r, j),
        ri |-> Max({r} \cup {i \in DOMAIN b.restarts : b.restarts[i] < j})]

MidKey(b, i) == Decode(b.entries[b.restarts[i]].delta)

(* The binary search for the last restart point with a key < target.       *)
SeekRestart(b, target) ==
  LET search[l \in Nat, r \in Nat] ==
        IF l >= r THEN l
        ELSE LET mid == (l + r + 1) \div 2
             IN  IF Less(MidKey(b, mid), target) THEN search[mid, r]
                 ELSE search[l, mid - 1]
  IN  search[1, Len(b.restarts)]

LinearSeek(b, r, target) ==
  LET found == {j \in b.restarts[r] .. Len(b.entries) :
                  ~Less(Decode(ParsedKey(b, r, j)), target)}
  IN  ParsedTo(b, r, IF found = {} THEN Limit(b) ELSE Min(found))

IterSeek(b, target) == LinearSeek(b, SeekRestart(b, target), target)
IterSeekToFirst(b) == ParsedTo(b, 1, 1)
IterSeekToLast(b) == ParsedTo(b, Len(b.restarts), Len(b.entries))

(* Next goes on from the key the iterator has.                             *)
IterNext(b, x) ==
  IF x.cur + 1 >= Limit(b) THEN NoIter(b)
  ELSE LET n == b.entries[x.cur + 1]
       IN  [cur |-> x.cur + 1, key |-> SubSeq(x.key, 1, n.shared) \o n.delta,
            ri |-> Max({x.ri} \cup
                       {i \in DOMAIN b.restarts : b.restarts[i] < x.cur + 1})]

(* Prev goes back to a restart point before the entry.                     *)
Earlier(b, x) == {i \in 1 .. x.ri : b.restarts[i] < x.cur}
IterPrev(b, x) ==
  IF Earlier(b, x) = {} THEN NoIter(b)
  ELSE ParsedTo(b, Max(Earlier(b, x)), x.cur - 1)

-----------------------------------------------------------------------------
(* TableBuilder and FilterBlockBuilder                                     *)

Init ==
  /\ blockSize = 0
  /\ block = EmptyBlock /\ lastKey = [u |-> << >>, s |-> 0] /\ done = << >>
  /\ index = EmptyBlock /\ pending = FALSE /\ offset = 0
  /\ filterKeys = {} /\ filters = << >>
  /\ added = << >> /\ closed = FALSE /\ it = << >> /\ at = 0

NewBuilder(size) ==
  /\ blockSize = 0
  /\ blockSize' = size
  /\ UNCHANGED <<block, lastKey, done, index, pending, offset, filterKeys,
                 filters, added, closed, it, at>>

(* WriteBlock, and StartBlock of the filter: when the next block begins in *)
(* another stretch of the file, the keys so far have their filter, and the *)
(* stretches between have an empty one.                                    *)
Stretch(off) == off \div FilterBase
Written(b) == Append(done, [at |-> offset, data |-> b])
NextOffset(b) == offset + SizeOf(b) + 1

LateFilter(keys, n) ==
  filters \o [i \in 1 .. n - Len(filters) |->
                IF i = n - Len(filters) THEN keys ELSE {}]
Generated(keys, n) ==
  filters \o [i \in 1 .. n - Len(filters) |-> IF i = 1 THEN keys ELSE {}]
LeftOver(keys, n) == IF n > Len(filters) THEN {} ELSE keys

(* Add, with the index entry of the block before, now that the next key is *)
(* known, and with Flush when the block has become large enough.           *)
IndexWith(key) == AddTo(index, Encode(key), 1)

Take(b, keys) ==
  IF SizeOf(b) >= blockSize
  THEN /\ done' = Written(b) /\ offset' = NextOffset(b)
       /\ block' = EmptyBlock /\ pending' = TRUE
       /\ filters' = Generated(keys, Stretch(offset'))
       /\ filterKeys' = LeftOver(keys, Stretch(offset'))
  ELSE /\ block' = b /\ pending' = FALSE /\ filterKeys' = keys
       /\ UNCHANGED <<done, offset, filters>>

Add(key) ==
  /\ blockSize # 0 /\ ~closed /\ Len(added) < MaxEntries
  /\ added # << >> => Less(lastKey, key)
  /\ Take(AddTo(block, Encode(key), RestartInterval), filterKeys \cup {key.u})
  /\ index' = IF pending THEN IndexWith(FindShortestSeparator(lastKey, key))
              ELSE index
  /\ lastKey' = key /\ added' = Append(added, key)
  /\ UNCHANGED <<blockSize, closed, it, at>>

(* Finish: the last block, the last filter and the last key of the index.  *)
WithLast(fs, keys) == IF keys = {} THEN fs ELSE Append(fs, keys)

Finish ==
  /\ blockSize # 0 /\ ~closed /\ closed' = TRUE
  /\ IF block.entries = << >>
     THEN /\ filters' = WithLast(filters, filterKeys)
          /\ UNCHANGED <<done, offset>>
     ELSE /\ done' = Written(block) /\ offset' = NextOffset(block)
          /\ filters' = WithLast(Generated(filterKeys, Stretch(offset')),
                                 LeftOver(filterKeys, Stretch(offset')))
  /\ index' = IF added = << >> THEN index
              ELSE IndexWith(FindShortSuccessor(lastKey))
  /\ block' = EmptyBlock /\ pending' = FALSE /\ filterKeys' = {}
  /\ UNCHANGED <<blockSize, lastKey, added, it, at>>

-----------------------------------------------------------------------------
(* Table::InternalGet: what handle_result is called with.                  *)

KeyMayMatch(off, u) ==
  Stretch(off) < Len(filters) => u \in filters[Stretch(off) + 1]

Result(b, x) == IF x.cur = Limit(b) THEN << >> ELSE <<Decode(x.key)>>
GetIn(n, key) ==
  IF KeyMayMatch(done[n].at, key.u)
  THEN Result(done[n].data, IterSeek(done[n].data, key)) ELSE << >>
InternalGet(key) ==
  LET n == IterSeek(index, key).cur
  IN  IF n = Limit(index) THEN << >> ELSE GetIn(n, key)

-----------------------------------------------------------------------------
(* An iterator over a block, and where it should be.                       *)

Of(n) == done[n].data
KeysOf(n) ==
  LET first == MapThenSumSet(LAMBDA i : Len(Of(i).entries), 1 .. n - 1)
  IN  SubSeq(added, first + 1, first + Len(Of(n).entries))
First(n, key) ==
  LET found == {j \in DOMAIN KeysOf(n) : ~Less(KeysOf(n)[j], key)}
  IN  IF found = {} THEN 0 ELSE Min(found)

Moves(x, pos) ==
  /\ it' = [it EXCEPT !.x = x] /\ at' = pos
  /\ UNCHANGED builder

NewIterator(n) ==
  /\ closed /\ it = << >>
  /\ it' = [n |-> n, x |-> NoIter(Of(n))]
  /\ UNCHANGED <<builder, at>>

Seek(key) == Moves(IterSeek(Of(it.n), key), First(it.n, key))
SeekToFirst == Moves(IterSeekToFirst(Of(it.n)), 1)
SeekToLast == Moves(IterSeekToLast(Of(it.n)), Len(KeysOf(it.n)))
Next_ ==
  /\ at # 0
  /\ Moves(IterNext(Of(it.n), it.x), IF at = Len(KeysOf(it.n)) THEN 0 ELSE at + 1)
Prev == at # 0 /\ Moves(IterPrev(Of(it.n), it.x), at - 1)

Next ==
  \/ \E size \in BlockSizes : NewBuilder(size)
  \/ \E u \in Stored, s \in 1 .. MaxSeq : Add([u |-> u, s |-> s])
  \/ Finish
  \/ \E n \in DOMAIN done : NewIterator(n)
  \/ /\ it # << >>
     /\ \/ \E key \in InternalKeys : Seek(key)
        \/ SeekToFirst \/ SeekToLast \/ Next_ \/ Prev

-----------------------------------------------------------------------------
(* Properties.                                                             *)

AtOrAfter(key) == {j \in DOMAIN added : ~Less(added[j], key)}

(* A lookup in a finished table finds the newest entry of its user key not *)
(* newer than its number, if there is one, past the separators of the      *)
(* index, the restart points of the block and the filters of the file; and *)
(* it never answers with another entry than the first at or after the key. *)
GetFinds ==
  closed /\ it = << >> =>
    \A key \in InternalKeys :
      LET want == AtOrAfter(key)
          got  == InternalGet(key)
      IN  /\ got # << >> => want # {} /\ got[1] = added[Min(want)]
          /\ want # {} => (added[Min(want)].u = key.u => got # << >>)

(* An iterator over a block stays on the keys that were added, in whatever *)
(* order Seek, SeekToFirst, SeekToLast, Next and Prev are called.          *)
BlockIterates ==
  it # << >> =>
    /\ it.x.cur = Limit(Of(it.n)) <=> at = 0
    /\ at # 0 => it.x.cur = at /\ Decode(it.x.key) = KeysOf(it.n)[at]

TableReadsBack == GetFinds /\ BlockIterates

=============================================================================
