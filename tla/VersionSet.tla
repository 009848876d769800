----------------------------- MODULE VersionSet -----------------------------
(***************************************************************************)
(* The levels of tables of the LevelDB library that the iOS build vendors  *)
(* (ios/Pods/leveldb-library): db/version_set.cc, and the parts of         *)
(* db/db_impl.cc that flush a memtable and run a compaction.               *)
(* One background thread flushes and compacts. A compaction picks its      *)
(* inputs under the mutex, works without it on the version it picked, and  *)
(* installs its outputs on the version that is current by then: writes,    *)
(* snapshots and the flush of a memtable come in between.                  *)
(* The size of a table is the number of its entries; a value is named by   *)
(* the sequence number that wrote it. Errors and files are in DBImpl.      *)
(***************************************************************************)
EXTENDS Integers, Sequences, FiniteSets, SequencesExt, Functions

CONSTANTS
  Keys,           \* user keys, a set of positive integers
  NumLevels,      \* config::kNumLevels (7 in the code)
  L0Trigger,      \* config::kL0_CompactionTrigger (4)
  MemLevel,       \* config::kMaxMemCompactLevel (2)
  FileSize,       \* TargetFileSize
  GrandLimit,     \* MaxGrandParentOverlapBytes (10 tables)
  ExpandLimit,    \* ExpandedCompactionByteSizeLimit (25 tables)
  LevelLimit,     \* MaxBytesForLevel of a level above 0
  Manual,         \* the levels on which CompactRange is called
  Types,          \* which of Value and Deletion are written
  MaxSeq,         \* bound: writes
  MaxSnapshots,   \* bound: snapshots held at a time
  MaxManual       \* bound: calls of CompactRange

ASSUME KeysAssumption == Keys \subseteq Nat \ {0} /\ IsFiniteSet(Keys)
ASSUME SizesAssumption ==
  /\ NumLevels \in Nat \ {0, 1} /\ MemLevel \in 0 .. NumLevels - 1
  /\ {L0Trigger, FileSize, LevelLimit} \subseteq Nat \ {0}
  /\ {GrandLimit, ExpandLimit, MaxSeq, MaxSnapshots, MaxManual} \subseteq Nat
  /\ Manual \subseteq 0 .. NumLevels - 2 /\ Types \subseteq {0, 1}

Levels == 0 .. NumLevels - 1
None   == [level |-> -1]

VARIABLES
  last,       \* last_sequence_
  mem, imm,   \* the entries of the memtables
  files,      \* current_->files_: a sequence of tables for each level
  nextFile,   \* next_file_number_
  pointer,    \* compact_pointer_: the last internal key compacted, per level
  seek,       \* current_->file_to_compact_ and its level, or None
  running,    \* the Compaction being worked on, or None
  manual,     \* the range a CompactRange still has to do, or None
  snapshots,  \* the sequence numbers of snapshots_, oldest first
  calls,      \* history: how often CompactRange was called
  written,    \* history: every entry written
  below,      \* history: a memtable went below level 0 beside a compaction
  revived     \* history: a deletion was dropped, and what it deleted was not

vars == <<last, mem, imm, files, nextFile, pointer, seek, running, manual,
          snapshots, calls, written, below, revived>>

-----------------------------------------------------------------------------
(* Internal keys: by user key, then from the newest to the oldest.         *)

Entry(k, s, t) == [k |-> k, s |-> s, t |-> t]
Value == 1
Deletion == 0

Less(a, b) == a.k < b.k \/ (a.k = b.k /\ 2 * a.s + a.t > 2 * b.s + b.t)

Sorted(S, Op(_, _)) ==
  [i \in 1 .. Cardinality(S) |->
     CHOOSE e \in S : Cardinality({x \in S : Op(x, e)}) = i - 1]

(* A table file, and sets of them.                                         *)
Smallest(f) == f.data[1]
Largest(f)  == f.data[Len(f.data)]
Entries(fs) == UNION {Range(f.data) : f \in fs}
TotalFileSize(fs) == Cardinality(Entries(fs))  \* no entry is in two tables

BySmallestKey(f, g) ==
  \/ Less(Smallest(f), Smallest(g))
  \/ Smallest(f) = Smallest(g) /\ f.num < g.num

-----------------------------------------------------------------------------
(* Looking things up in a version v, a function from levels to tables.     *)

(* The binary search for the first table whose largest key is >= key: what *)
(* is left to search, from left to right, after each turn of the loop.     *)
Halve(fs, key, left, right) ==
  LET mid == (left + right) \div 2
  IN  IF left >= right THEN <<left, right>>
      ELSE IF Less(Largest(fs[mid + 1]), key) THEN <<mid + 1, right>>
      ELSE <<left, mid>>
FindFile(fs, key) ==
  LET search[n \in Nat] ==
        IF n = 0 THEN <<0, Len(fs)>>
        ELSE Halve(fs, key, search[n - 1][1], search[n - 1][2])
  IN  search[Len(fs)][2] + 1

Covers(f, k) == Smallest(f).k <= k /\ k <= Largest(f).k

NewestFirst(f, g) == f.num > g.num

(* The tables of one level that Version::Get reads for a key.              *)
Searched(v, l, key) ==
  IF l = 0 THEN {f \in Range(v[0]) : Covers(f, key.k)}
  ELSE {v[l][i] : i \in {j \in {FindFile(v[l], key)} :
                           j <= Len(v[l]) /\ ~(key.k < Smallest(v[l][j]).k)}}

(* All of them, in the order they are read in.                             *)
ReadBefore(a, b) ==
  a.level < b.level \/ (a.level = b.level /\ NewestFirst(a.f, b.f))
At(l, fs) == {[f |-> f, level |-> l] : f \in fs}
AllSearched(v, key) ==
  Sorted(UNION {At(l, Searched(v, l, key)) : l \in Levels}, ReadBefore)

(* What a table, or a memtable, holds for the key: the newest entry not    *)
(* newer than the snapshot. (Table::InternalGet, MemTable::Get)            *)
Holds(entries, key) == {e \in entries : e.k = key.k /\ ~Less(e, key)}
Newest(entries, key) ==
  CHOOSE e \in Holds(entries, key) :
    \A x \in Holds(entries, key) : ~Less(x, e)

HitIn(f, key) == Holds(Range(f.data), key) # {}

LookupKey(k, s) == Entry(k, s, Value)

(* DBImpl::Get: the memtables, then the tables, until the key is met.      *)
Holding(sources, key) ==
  {i \in DOMAIN sources : Holds(sources[i], key) # {}}
GetFrom(sources, key) ==
  IF Holding(sources, key) = {} THEN {}
  ELSE {e \in {Newest(sources[Min(Holding(sources, key))], key)} : e.t = Value}
Data(tables) == [i \in DOMAIN tables |-> Range(tables[i].f.data)]
Get(k, s) ==
  GetFrom(<<mem, imm>> \o Data(AllSearched(files, LookupKey(k, s))),
          LookupKey(k, s))

(* The first table read by a Get that had to read a second one.            *)
SeekOf(tables, key) ==
  IF Holds(mem \cup imm, key) = {} /\ Len(tables) >= 2
     /\ ~HitIn(tables[1].f, key)
  THEN tables[1] ELSE None
SeekFile(k, s) ==
  SeekOf(AllSearched(files, LookupKey(k, s)), LookupKey(k, s))

(* Version::OverlapInLevel, for user keys lo .. hi.                        *)
OverlapInLevel(v, l, lo, hi) ==
  IF l = 0
  THEN \E f \in Range(v[0]) : ~(lo > Largest(f).k) /\ ~(hi < Smallest(f).k)
  ELSE LET i == FindFile(v[l], LookupKey(lo, MaxSeq + 1))
       IN  i <= Len(v[l]) /\ ~(hi < Smallest(v[l][i]).k)

TouchesInside(f, lo, hi) == ~(Largest(f).k <= lo) /\ ~(Smallest(f).k >= hi)
Touches(f, lo, hi) == ~(Largest(f).k < lo) /\ ~(Smallest(f).k > hi)

(* At level 0 the range grows with every table found, until it is closed.  *)
Inputs(fs, range) == {f \in fs : Touches(f, range[1], range[2])}
Widened(fs, r) == <<Min({r[1]} \cup {Smallest(f).k : f \in Inputs(fs, r)}),
                    Max({r[2]} \cup {Largest(f).k : f \in Inputs(fs, r)})>>
Closure(fs, lo, hi) ==
  LET grown[n \in Nat] ==
        IF n = 0 THEN <<lo, hi>> ELSE Widened(fs, grown[n - 1])
  IN  grown[Cardinality(fs)]
GetOverlappingInputs(v, l, lo, hi) ==
  Inputs(Range(v[l]),
         IF l = 0 THEN Closure(Range(v[l]), lo, hi) ELSE <<lo, hi>>)

-----------------------------------------------------------------------------
(* Choosing what to compact.                                               *)

(* VersionSet::Finalize: the level with the highest score, as a fraction.  *)
MaxBytesForLevel[l \in Nat] ==
  IF l <= 1 THEN LevelLimit ELSE 10 * MaxBytesForLevel[l - 1]
Score(v, l) == IF l = 0 THEN <<Len(v[0]), L0Trigger>>
               ELSE <<TotalFileSize(Range(v[l])), MaxBytesForLevel[l]>>
Higher(a, b) == a[1] * b[2] > b[1] * a[2]
CompactionLevel(v) ==
  CHOOSE l \in 0 .. NumLevels - 2 :
    \A m \in 0 .. NumLevels - 2 :
      /\ ~Higher(Score(v, m), Score(v, l))
      /\ m < l => Higher(Score(v, l), Score(v, m))
AtLeastOne(score) == score[1] >= score[2]
SizeCompaction ==       \* the highest score is at least one
  \E l \in 0 .. NumLevels - 2 : AtLeastOne(Score(files, l))
NeedsCompaction == SizeCompaction \/ seek # None

GetRange(fs) ==
  [lo |-> CHOOSE e \in Entries(fs) : \A x \in Entries(fs) : ~Less(x, e),
   hi |-> CHOOSE e \in Entries(fs) : \A x \in Entries(fs) : ~Less(e, x)]

Overlapping(v, l, range) ==
  GetOverlappingInputs(v, l, range.lo.k, range.hi.k)

(* The tables that continue the last user key of the inputs, one by one.   *)
Continuing(levelFiles, key) ==
  {f \in levelFiles : Less(key, Smallest(f)) /\ Smallest(f).k = key.k}
FindSmallestBoundaryFile(levelFiles, key) ==
  {f \in Continuing(levelFiles, key) :
     \A g \in Continuing(levelFiles, key) : ~Less(Smallest(g), Smallest(f))}
AddBoundaryInputs(levelFiles, fs) ==
  LET extended[n \in Nat] ==
        IF n = 0 THEN fs
        ELSE extended[n - 1] \cup
             FindSmallestBoundaryFile(levelFiles, GetRange(extended[n - 1]).hi)
  IN  extended[Cardinality(levelFiles)]

(* VersionSet::SetupOtherInputs, a stage at a time.                        *)
Chosen(l, in0, in1, range) ==
  [level |-> l, in0 |-> in0, in1 |-> in1, largest |-> GetRange(in0).hi,
   grand |-> IF l + 2 < NumLevels
             THEN Sorted(Overlapping(files, l + 2, range), BySmallestKey)
             ELSE << >>,
   version |-> files,
   snapshot |-> IF snapshots = << >> THEN last ELSE snapshots[1]]

Choose(l, in0, in1) == Chosen(l, in0, in1, GetRange(in0 \cup in1))

(* More of this level, if that takes no more of the next one.              *)
Grown(l, in0, in1, exp0, exp1) ==
  IF /\ in1 # {}
     /\ Cardinality(exp0) > Cardinality(in0)
     /\ TotalFileSize(in1) + TotalFileSize(exp0) < ExpandLimit
     /\ Cardinality(exp1) = Cardinality(in1)
  THEN <<exp0, exp1>> ELSE <<in0, in1>>

Grow(l, in0, in1, exp0) ==
  Grown(l, in0, in1, exp0, Overlapping(files, l + 1, GetRange(exp0)))

ExpandInputs(l, in0, in1) ==
  Grow(l, in0, in1,
       AddBoundaryInputs(Range(files[l]),
                         Overlapping(files, l, GetRange(in0 \cup in1))))

WithNextLevel(l, in0) ==
  ExpandInputs(l, in0, Overlapping(files, l + 1, GetRange(in0)))

SetupOtherInputs(l, fs) ==
  \* both sets of inputs
  WithNextLevel(l, AddBoundaryInputs(Range(files[l]), fs))

Paired(l, inputs) == Choose(l, inputs[1], inputs[2])
Compaction(l, fs) == Paired(l, SetupOtherInputs(l, fs))

(* VersionSet::PickCompaction.                                             *)
After(l) ==
  {i \in DOMAIN files[l] :
     pointer[l] = None \/ Less(pointer[l], Largest(files[l][i]))}
NextFile(l) ==
  [level |-> l, f |-> files[l][IF After(l) = {} THEN 1 ELSE Min(After(l))]]
Candidate ==
  IF SizeCompaction THEN NextFile(CompactionLevel(files)) ELSE seek
PickCompaction(c) ==
  Compaction(c.level,
             IF c.level = 0
             THEN GetOverlappingInputs(files, 0, Smallest(c.f).k,
                                       Largest(c.f).k)
             ELSE {c.f})

(* VersionSet::CompactRange: at level 0 all tables, below not too many.    *)
UpTo(s, n) == {s[i] : i \in 1 .. n}
EnoughOf(s) ==
  UpTo(s, Min({i \in DOMAIN s : TotalFileSize(UpTo(s, i)) >= FileSize}))
Enough(fs) ==
  IF manual.level = 0 \/ TotalFileSize(fs) < FileSize THEN fs
  ELSE EnoughOf(Sorted(fs, BySmallestKey))
RangeInputs ==
  Enough(GetOverlappingInputs(files, manual.level, manual.lo, manual.hi))

IsTrivialMove(c) ==
  /\ Cardinality(c.in0) = 1 /\ c.in1 = {}
  /\ TotalFileSize(Range(c.grand)) <= GrandLimit

-----------------------------------------------------------------------------
(* DBImpl::DoCompactionWork: the merge of the inputs, entry by entry.      *)

IsBaseLevelForKey(c, k) ==
  \A l \in c.level + 2 .. NumLevels - 1 :
    \A f \in Range(c.version[l]) : ~Covers(f, k)

NewestSnapshot(c) == last
SmallestSnapshot(c) == c.snapshot

(* A deletion with nothing left to delete, as far as the code looks.       *)
Obsolete(c, e) ==
  e.t = Deletion /\ e.s <= SmallestSnapshot(c) /\ IsBaseLevelForKey(c, e.k)

(* An entry hidden from every snapshot by the one before, or obsolete.     *)
Drops(c, e, prev) ==
  \/ prev # {} /\ \A p \in prev : p.k = e.k /\ p.s <= SmallestSnapshot(c)
  \/ Obsolete(c, e)

(* ShouldStopBefore: grandparents passed since the output began.           *)
Passed(c, w, e) ==
  {i \in w.at + 1 .. Len(c.grand) :
     \A j \in w.at + 1 .. i : Less(Largest(c.grand[j]), e)}
Overlap(c, w, e) ==
  IF w.prev = {} THEN 0
  ELSE w.over + TotalFileSize({c.grand[i] : i \in Passed(c, w, e)})

Close(w) == IF w.open = << >> THEN w
            ELSE [w EXCEPT !.done = Append(@, w.open), !.open = << >>]

Grandparents(c, w, e) ==
  [w EXCEPT !.over = Overlap(c, w, e),
            !.at = @ + Cardinality(Passed(c, w, e)),
            !.keep = ~Drops(c, e, w.prev), !.prev = {e}]
StopBefore(w) ==
  IF w.over > GrandLimit THEN [Close(w) EXCEPT !.over = 0] ELSE w
Add(w, e) == IF w.keep THEN [w EXCEPT !.open = Append(@, e)] ELSE w
CloseFull(w) == IF w.keep /\ Len(w.open) >= FileSize THEN Close(w) ELSE w

Step(c, w, e) == CloseFull(Add(StopBefore(Grandparents(c, w, e)), e))

Start == [at |-> 0, over |-> 0, prev |-> {}, open |-> << >>, done |-> << >>,
          keep |-> FALSE]
Merged(c, input) ==
  LET work[n \in 0 .. Len(input)] ==
        IF n = 0 THEN Start ELSE Step(c, work[n - 1], input[n])
  IN  Close(work[Len(input)]).done
Merging(c) == Entries(c.in0 \cup c.in1)
Outputs(c) == Merged(c, Sorted(Merging(c), Less))

(* What is not merged may still need a deletion: an older entry of its key *)
(* in a table of the next level that is not among the inputs.              *)
Revives(c) ==
  \E e \in Merging(c) :
    /\ Obsolete(c, e)
    /\ \A p \in Merging(c) :
         p.k = e.k /\ p.s > e.s => p.s > SmallestSnapshot(c)
    /\ \E x \in Entries(Range(files[c.level + 1]) \ c.in1) :
         x.k = e.k /\ x.s < e.s

-----------------------------------------------------------------------------
(* Steps.                                                                  *)

Init ==
  /\ last = 0 /\ mem = {} /\ imm = {} /\ nextFile = 1
  /\ files = [l \in Levels |-> << >>] /\ pointer = [l \in Levels |-> None]
  /\ seek = None /\ running = None /\ manual = None
  /\ snapshots = << >> /\ calls = 0 /\ written = {} /\ below = FALSE
  /\ revived = FALSE

(* VersionSet::LogAndApply of an edit: tables leave and enter levels, and  *)
(* the new version has no table to compact for its seeks.                  *)
Apply(deleted, added) ==
  /\ files' = [l \in Levels |->
       Sorted({f \in Range(files[l]) : <<l, f>> \notin deleted}
                \cup {a[2] : a \in {x \in added : x[1] = l}}, BySmallestKey)]
  /\ seek' = None

Write(k, t) ==
  /\ last < MaxSeq
  /\ last' = last + 1
  /\ mem' = mem \cup {Entry(k, last + 1, t)}
  /\ written' = written \cup {Entry(k, last + 1, t)}
  /\ UNCHANGED <<imm, files, nextFile, pointer, seek, running, manual,
                 snapshots, calls, below, revived>>

(* MakeRoomForWrite starts a new memtable.                                 *)
Switch ==
  /\ imm = {} /\ mem # {}
  /\ imm' = mem /\ mem' = {}
  /\ UNCHANGED <<last, files, nextFile, pointer, seek, running, manual,
                 snapshots, calls, written, below, revived>>

(* Version::PickLevelForMemTableOutput                                     *)
PickLevel(lo, hi) ==
  LET free(l) == /\ ~OverlapInLevel(files, l, lo, hi)
                 /\ l + 1 < NumLevels =>
                      TotalFileSize(GetOverlappingInputs(files, l + 1, lo, hi))
                        <= GrandLimit
      fit == {l \in 0 .. MemLevel : \A m \in 1 .. l : free(m)}
  IN  IF OverlapInLevel(files, 0, lo, hi) THEN 0
      ELSE Max(fit)

(* CompactMemTable, by itself or from within a compaction.                 *)
Flush ==
  /\ imm # {}
  /\ \E f \in {[num |-> nextFile, data |-> Sorted(imm, Less)]} :
       \E l \in {PickLevel(Smallest(f).k, Largest(f).k)} :
         /\ Apply({}, {<<l, f>>})
         /\ below' = (below \/ (l > 0 /\ running # None))
  /\ nextFile' = nextFile + 1
  /\ imm' = {}
  /\ UNCHANGED <<last, mem, pointer, running, manual, snapshots, calls,
                 written, revived>>

(* BackgroundCompaction with no memtable to flush. A table that overlaps   *)
(* nothing is moved as it is; anything else is merged.                     *)
Begin(c) ==
  /\ pointer' = [pointer EXCEPT ![c.level] = c.largest]
  /\ running' = c
  /\ UNCHANGED <<files, seek>>

Move(c) ==
  /\ pointer' = [pointer EXCEPT ![c.level] = c.largest]
  /\ \E f \in c.in0 : Apply({<<c.level, f>>}, {<<c.level + 1, f>>})
  /\ UNCHANGED running

Armed == manual # None /\ manual.armed     \* manual_compaction_ is set

Pick ==
  /\ imm = {} /\ running = None /\ ~Armed /\ NeedsCompaction
  /\ \E f \in {Candidate} : \E c \in {PickCompaction(f)} :
       \/ IsTrivialMove(c) /\ Move(c)
       \/ ~IsTrivialMove(c) /\ Begin(c)
  /\ UNCHANGED <<last, mem, imm, nextFile, manual, snapshots, calls, written,
                 below, revived>>

NeverDone(m) == [m EXCEPT !.armed = FALSE]
Done(m) == None

PickManual ==
  /\ imm = {} /\ running = None /\ Armed
  /\ \E fs \in {RangeInputs} :
       \/ /\ fs # {}
          /\ \E c \in {Compaction(manual.level, fs)} : Begin(c)
          /\ manual' =
               [manual EXCEPT
                  !.lo = Largest(Last(Sorted(running'.in0, BySmallestKey))).k,
                  !.armed = FALSE]
       \/ /\ fs = {}
          /\ manual' = Done(manual)
          /\ UNCHANGED <<files, pointer, seek, running>>
  /\ UNCHANGED <<last, mem, imm, nextFile, snapshots, calls, written, below,
                 revived>>

(* InstallCompactionResults, on the version that is current by now.        *)
Finish ==
  /\ running # None
  /\ \E outs \in {Outputs(running)} :
         /\ Apply({<<running.level, f>> : f \in running.in0}
                    \cup {<<running.level + 1, f>> : f \in running.in1},
                  {<<running.level + 1,
                     [num |-> nextFile + i - 1, data |-> outs[i]]>> :
                     i \in DOMAIN outs})
         /\ nextFile' = nextFile + Len(outs)
  /\ pointer' = [pointer EXCEPT ![running.level] = running.largest]
  /\ running' = None
  /\ revived' = (revived \/ Revives(running))
  /\ UNCHANGED <<last, mem, imm, manual, snapshots, calls, written, below>>

(* A read charges a table for a useless seek; once that table has used up  *)
(* allowed_seeks it is the one to compact.                                 *)
UpdateStats(k, s) ==
  /\ seek = None
  /\ \E f \in {SeekFile(k, s)} : f # None /\ seek' = f
  /\ UNCHANGED <<last, mem, imm, files, nextFile, pointer, running, manual,
                 snapshots, calls, written, below, revived>>

GetSnapshot ==
  /\ Len(snapshots) < MaxSnapshots
  /\ snapshots' = Append(snapshots, last)
  /\ UNCHANGED <<last, mem, imm, files, nextFile, pointer, seek, running,
                 manual, calls, written, below, revived>>

ReleaseSnapshot(i) ==
  /\ snapshots' = RemoveAt(snapshots, i)
  /\ UNCHANGED <<last, mem, imm, files, nextFile, pointer, seek, running,
                 manual, calls, written, below, revived>>

(* TEST_CompactRange on one level, as CompactRange calls it.               *)
CompactRange(l) ==
  /\ manual = None /\ calls < MaxManual
  /\ calls' = calls + 1
  /\ manual' = [level |-> l, lo |-> 0, hi |-> Max(Keys) + 1, armed |-> TRUE]
  /\ UNCHANGED <<last, mem, imm, files, nextFile, pointer, seek, running,
                 snapshots, written, below, revived>>

(* Its loop, until the whole range is done.                                *)
CompactMore ==
  /\ manual # None /\ ~Armed /\ running = None
  /\ manual' = [manual EXCEPT !.armed = TRUE]
  /\ UNCHANGED <<last, mem, imm, files, nextFile, pointer, seek, running,
                 snapshots, calls, written, below, revived>>

Next ==
  \/ \E k \in Keys, t \in Types : Write(k, t)
  \/ Switch \/ Flush \/ Pick \/ PickManual \/ Finish
  \/ \E k \in Keys, s \in {last} \cup Range(snapshots) : UpdateStats(k, s)
  \/ GetSnapshot
  \/ \E i \in DOMAIN snapshots : ReleaseSnapshot(i)
  \/ \E l \in Manual : CompactRange(l)
  \/ CompactMore

Spec == Init /\ [][Next]_vars

(* The background thread, or a caller waiting for it, moves while there is *)
(* work. This is weak fairness of their steps, with ENABLED written out as *)
(* BgWork and the steps told by what they change.                          *)
BgWork == imm # {} \/ running # None \/ manual # None \/ NeedsCompaction
BgMoves == \/ files' # files \/ running' # running
           \/ manual # None /\ manual' # manual

FairSpec == Spec /\ ([]<>~BgWork \/ []<><<BgMoves>>_vars)

-----------------------------------------------------------------------------
(* Properties.                                                             *)

(* version_set.cc:747, "Must not overlap": below level 0 the tables of a   *)
(* level are sorted and disjoint, which every binary search relies on.     *)
LevelsDisjoint ==
  \A l \in Levels \ {0} : \A i \in 1 .. Len(files[l]) - 1 :
    Less(Largest(files[l][i]), Smallest(files[l][i + 1]))

(* As long as no memtable is put below level 0 while a compaction works on *)
(* an older version, no order of flushes, moves, merges and manual ranges  *)
(* makes two tables of a level overlap (version_set.cc:695-754).           *)
TreeOrdered == below \/ LevelsDisjoint

Visible(k, s) ==
  LET es == {e \in written : e.k = k /\ e.s <= s}
  IN  {e \in es : e.t = Value /\ \A x \in es : x.s <= e.s}

(* Every read, of the latest state and of every snapshot still held, sees  *)
(* what was written: no compaction drops, hides or resurrects an entry,    *)
(* whatever was written, flushed, taken or released while it ran, but in   *)
(* the two ways that `below' and `revived' record                          *)
(* (db_impl.cc:878-999, version_set.cc:326-421).                           *)
ReadsAreHistory ==
  below \/ revived \/ \A k \in Keys, s \in {last} \cup Range(snapshots) :
                         Get(k, s) = Visible(k, s)

(* db_impl.cc:958, "this deletion marker is obsolete and can be dropped":  *)
(* a key that was deleted, or was never written, is not found.             *)
DeletedStaysDeleted ==
  \A k \in Keys : Visible(k, last) = {} => Get(k, last) = {}

(* Without new writes the background thread comes to rest: no compaction   *)
(* undoes another one, and a range given to CompactRange is finished.      *)
CompactionSettles == <>[](~NeedsCompaction /\ running = None /\ manual = None)

-----------------------------------------------------------------------------
(* Why the tree stays in order: an inductive invariant.                    *)

AnEntry == [k : Keys, s : 1 .. MaxSeq, t : {Value, Deletion}]
ATable ==
  {f \in [num : Nat, data : Seq(AnEntry)] :
     /\ f.data # << >>
     /\ \A i, j \in DOMAIN f.data : i < j => Less(f.data[i], f.data[j])}

Apart(f, g) ==
  Less(Largest(f), Smallest(g)) \/ Less(Largest(g), Smallest(f))

(* A table with all of some entries on one side.                           *)
Beside(f, entries) ==
  \/ \A e \in entries : Less(Largest(f), e)
  \/ \A e \in entries : Less(e, Smallest(f))

MemInv ==
  /\ last \in 0 .. MaxSeq /\ snapshots \in Seq(Nat)
  /\ mem \subseteq AnEntry /\ IsFiniteSet(mem)
  /\ imm \subseteq AnEntry /\ IsFiniteSet(imm)

(* Each level is a list of tables in order, and no number is used twice.   *)
LevelInv ==
  /\ nextFile \in Nat
  /\ files \in [Levels -> Seq(ATable)]
  /\ \A l \in Levels : \A i, j \in DOMAIN files[l] :
       i < j => BySmallestKey(files[l][i], files[l][j])
  /\ \A l \in Levels : \A f \in Range(files[l]) : f.num < nextFile
  /\ \A l, m \in Levels : \A f \in Range(files[l]), g \in Range(files[m]) :
       f.num = g.num => f = g

ApartInv ==
  \A l \in Levels \ {0} : \A f, g \in Range(files[l]) : f = g \/ Apart(f, g)

(* What a compaction leaves on the level of its outputs is beside all that *)
(* it may put there.                                                       *)
RunInv ==
  running # None =>
    /\ running.level \in 0 .. NumLevels - 2
    /\ running.in0 \subseteq ATable /\ IsFiniteSet(running.in0)
    /\ running.in1 \subseteq ATable /\ IsFiniteSet(running.in1)
    /\ \A f \in Range(files[running.level + 1]) \ running.in1 :
         Beside(f, Entries(running.in0 \cup running.in1))

ChosenInv ==
  /\ seek # None => /\ seek.level \in 0 .. NumLevels - 2
                    /\ seek.f \in Range(files[seek.level])
  /\ manual # None => /\ manual.level \in 0 .. NumLevels - 2
                      /\ DOMAIN manual = {"level", "lo", "hi", "armed"}

TreeInv == below \/ (MemInv /\ LevelInv /\ ApartInv /\ RunInv /\ ChosenInv)

-----------------------------------------------------------------------------
(* Why a read sees the history: what else is inductive.                    *)

Stored == mem \cup imm \cup UNION {Entries(Range(files[l])) : l \in Levels}

(* For every key, all of one set of entries is newer than all of another.  *)
Newer(a, b) == \A e \in a, x \in b : e.k = x.k => e.s > x.s

(* The last entry of its key that was written by the time of s.            *)
Shown(e, s) ==
  e.s <= s /\ \A x \in written : x.k = e.k /\ x.s <= s => x.s <= e.s

WrittenInv ==
  /\ written \subseteq AnEntry /\ Stored \subseteq written
  /\ \A e \in written : e.s <= last
  /\ \A e, x \in written : e.s = x.s => e = x

(* A read meets the newest entry of its key first.                         *)
NewerInv ==
  /\ Newer(mem, imm)
  /\ \A l \in Levels : Newer(mem \cup imm, Entries(Range(files[l])))
  /\ \A f, g \in Range(files[0]) :
       f.num > g.num => Newer(Range(f.data), Range(g.data))
  /\ \A l, m \in Levels :
       l < m => Newer(Entries(Range(files[l])), Entries(Range(files[m])))

(* What some read may ask for is there, or it is a deletion and there is   *)
(* nothing left that it deletes.                                           *)
KeptInv ==
  \A s \in {last} \cup Range(snapshots) : \A e \in written :
    Shown(e, s) =>
      \/ e \in Stored
      \/ e.t = Deletion /\ \A x \in Stored : x.k = e.k => x.s > e.s

SnapshotInv ==
  /\ \A i \in DOMAIN snapshots : snapshots[i] <= last
  /\ \A i, j \in DOMAIN snapshots : i < j => snapshots[i] <= snapshots[j]

(* The version a compaction works on, as far as it still looks at it.      *)
WorkInv ==
  running # None =>
    /\ running.in0 \subseteq Range(files[running.level])
    /\ running.in1 \subseteq Range(files[running.level + 1])
    /\ \A l \in running.level + 2 .. NumLevels - 1 :
         Range(running.version[l]) = Range(files[l])
    /\ Newer(Entries(Range(files[running.level]) \ running.in0),
             Entries(running.in0))
    /\ running.snapshot \in Nat
    /\ \A s \in {last} \cup Range(snapshots) : running.snapshot <= s

ManualInv ==
  manual # None /\ Keys # {} => manual.lo \in Nat /\ manual.hi \in Nat

HistoryInv ==
  below \/ revived
    \/ /\ WrittenInv /\ NewerInv /\ KeptInv
       /\ SnapshotInv /\ WorkInv /\ ManualInv

=============================================================================
