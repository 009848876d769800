------------------------------- MODULE Repair -------------------------------
(***************************************************************************)
(* RepairDB (ios/Pods/leveldb-library: db/repair.cc): a database that      *)
(* cannot be opened gets a new descriptor from the files that are left.    *)
(* Logs become tables, tables that cannot be read to their end are copied  *)
(* as far as they can, everything replaced is moved to the directory       *)
(* "lost". Any call of the environment may fail, and the process may be    *)
(* killed between any two changes to the directory; the repair is then run *)
(* again. A file is its number, its kind, the sequence numbers of the      *)
(* entries that can be read from it, and whether reading meets an error.   *)
(***************************************************************************)
EXTENDS Integers, FiniteSets, FiniteSetsExt

CONSTANTS
  MaxEntry,     \* bound: entries, with the sequence numbers 1 .. MaxEntry
  MaxNumber,    \* bound: numbers of the files a repair begins with
  MaxRuns,      \* bound: calls of RepairDB
  MaxFailures   \* bound: calls of the environment that fail

ASSUME RepairAssumption == MaxEntry \in Nat /\ MaxNumber \in Nat

Entries == 1 .. MaxEntry
Numbers == 1 .. MaxNumber

VARIABLES
  dir, lost,        \* the files of the two directories
  current,          \* the manifest that CURRENT names, or 0
  repairPc,         \* where the repair is; "ok" and "failed" are its results
  manifests_, logs_, table_numbers_, tables_, next_file_number_,
  item,             \* the log being converted, or the table being repaired
  made,             \* the number of the table being written
  there,            \* history: the entries there were
  excused,          \* history: entries in a file on which a call failed, or
                    \* whose copy was cut by a kill
  runs, failures   \* history: calls of RepairDB, failed calls

dirs == <<dir, lost, current>>
repairWork == <<manifests_, logs_, table_numbers_, tables_,
                next_file_number_, item, made>>
repairHist == <<there, excused, runs, failures>>
repairVars == <<dirs, repairPc, repairWork, repairHist>>

LogOf(n, s)      == [n |-> n, kind |-> "log", has |-> s, bad |-> FALSE]
TableOf(n, s, b) == [n |-> n, kind |-> "table", has |-> s, bad |-> b]
(* What a descriptor says: the tables, and the next file number.           *)
Manifest(n, ts, next, last) ==
  [n |-> n, kind |-> "manifest", lists |-> ts, next |-> next, last |-> last]

OfKind(k) == {f \in dir : f.kind = k}
Data(files) == {f \in files : f.kind # "manifest"}
In(files) == UNION {f.has : f \in Data(files)}
NumbersOf(files) == {f.n : f \in files}
File(n) == CHOOSE f \in dir : f.kind # "manifest" /\ f.n = n

Without(files, f) == files \ {f}
(* Creating or renaming to a name replaces the file of that name.          *)
Put(files, f) == {g \in files : g.n # f.n \/ g.kind # f.kind} \cup {f}

Contents(n) ==
  {LogOf(n, s) : s \in SUBSET Entries}
  \cup {TableOf(n, s, TRUE) : s \in SUBSET Entries}
  \cup {TableOf(n, s, FALSE) : s \in (SUBSET Entries) \ {{}}}

RepairInit ==
  /\ dir = {} /\ lost = {} /\ current = 0 /\ repairPc = "new"
  /\ manifests_ = {} /\ logs_ = {} /\ table_numbers_ = {} /\ tables_ = {}
  /\ next_file_number_ = 1 /\ item = 0 /\ made = 0
  /\ there = {} /\ excused = {} /\ runs = 0 /\ failures = 0

(* The database to repair: files under any of the numbers, of which at     *)
(* most one table is damaged, and a descriptor.                            *)
Broken ==
  /\ repairPc = "new"
  /\ \E ns \in (SUBSET Numbers) \ {{}} :
       \E f \in [ns -> UNION {Contents(n) : n \in ns}] :
         /\ \A n \in ns : f[n].n = n
         /\ Cardinality({n \in ns : f[n].bad}) <= 1
         /\ dir' = {f[n] : n \in ns} \cup {Manifest(MaxNumber + 1, {}, 0, 0)}
         /\ there' = UNION {f[n].has : n \in ns}
  /\ current' = MaxNumber + 1
  /\ repairPc' = "idle"
  /\ UNCHANGED <<lost, repairWork, excused, runs, failures>>

Fine == UNCHANGED repairHist

(* A call fails on a file with these entries.                              *)
Fails(s) ==
  /\ failures < MaxFailures
  /\ failures' = failures + 1
  /\ excused' = excused \cup s
  /\ UNCHANGED <<there, runs>>

-----------------------------------------------------------------------------
(* FindFiles: descriptors do not count for the next file number.           *)

LastInUse(numbers) == Max(numbers \cup {1})
AfterLast(numbers) == Max(numbers \cup {0}) + 1

FindFiles ==
  /\ repairPc \in {"idle", "ok", "failed"} /\ runs < MaxRuns
  /\ runs' = runs + 1
  /\ manifests_' = OfKind("manifest")
  /\ logs_' = OfKind("log")
  /\ table_numbers_' = NumbersOf(OfKind("table"))
  /\ tables_' = {}
  /\ next_file_number_' = AfterLast(NumbersOf(OfKind("log") \cup OfKind("table")))
  /\ repairPc' = "logs"
  /\ UNCHANGED <<dirs, item, made, there, excused, failures>>

(* ConvertLogToTable: nothing to write, a table begun, or no log opened.   *)
Convert(l) ==
  /\ repairPc = "logs" /\ l \in logs_
  /\ item' = l.n
  /\ logs_' = logs_ \ {l}
  /\ \/ /\ Fails(l.has)
        /\ repairPc' = "archive"
        /\ UNCHANGED <<dir, next_file_number_, made>>
     \/ /\ l.has = {}
        /\ next_file_number_' = next_file_number_ + 1
        /\ repairPc' = "archive"
        /\ Fine
        /\ UNCHANGED <<dir, made>>
     \/ /\ l.has # {}
        /\ made' = next_file_number_
        /\ next_file_number_' = next_file_number_ + 1
        /\ dir' = Put(dir, TableOf(next_file_number_, {}, TRUE))
        /\ repairPc' = "build"
        /\ Fine
  /\ UNCHANGED <<lost, current, manifests_, table_numbers_, tables_>>

(* BuildTable has written and synced the table, or deletes what it wrote.  *)
Build ==
  /\ repairPc = "build"
  /\ \/ /\ dir' = Put(dir, TableOf(made, File(item).has, FALSE))
        /\ table_numbers_' = table_numbers_ \cup {made}
        /\ Fine
     \/ /\ Fails(File(item).has)
        /\ dir' = Without(dir, File(made))
        /\ UNCHANGED table_numbers_
  /\ repairPc' = "archive"
  /\ UNCHANGED <<lost, current, manifests_, logs_, tables_,
                 next_file_number_, item, made>>

(* ArchiveFile, whose own failure is ignored.                              *)
Archive(f) == dir' = Without(dir, f) /\ lost' = Put(lost, f)
Archived(f) == \/ Archive(f) /\ Fine
               \/ Fails({}) /\ UNCHANGED <<dir, lost>>

ArchiveLog ==
  /\ repairPc = "archive"
  /\ Archived(File(item))
  /\ repairPc' = "logs"
  /\ UNCHANGED <<current, repairWork>>

-----------------------------------------------------------------------------
(* ExtractMetaData: ScanTable of each table, RepairTable where it fails.   *)

(* The file is readable to its end, and is listed.                         *)
Scan(n) ==
  /\ repairPc = "logs" /\ logs_ = {} /\ n \in table_numbers_
  /\ ~File(n).bad
  /\ table_numbers_' = table_numbers_ \ {n}
  /\ tables_' = tables_ \cup {n}
  /\ Fine
  /\ UNCHANGED <<dirs, repairPc, manifests_, logs_, next_file_number_, item,
                 made>>

(* GetFileSize fails.                                                      *)
ScanDrops(n) ==
  /\ repairPc = "logs" /\ logs_ = {} /\ n \in table_numbers_
  /\ table_numbers_' = table_numbers_ \ {n}
  /\ Fails(File(n).has)
  /\ Archive(File(n))
  /\ UNCHANGED <<current, repairPc, manifests_, logs_, tables_,
                 next_file_number_, item, made>>

(* RepairTable: the copy is begun, or cannot be created.                   *)
RepairTable(n) ==
  /\ repairPc = "logs" /\ logs_ = {} /\ n \in table_numbers_
  /\ File(n).bad
  /\ table_numbers_' = table_numbers_ \ {n}
  /\ next_file_number_' = next_file_number_ + 1
  /\ \/ /\ Fails(File(n).has)
        /\ UNCHANGED <<dir, repairPc, item, made>>
     \/ /\ item' = n /\ made' = next_file_number_
        /\ dir' = Put(dir, TableOf(next_file_number_, {}, TRUE))
        /\ repairPc' = "copy"
        /\ Fine
  /\ UNCHANGED <<lost, current, manifests_, logs_, tables_>>

(* The source is archived before the copy is finished; what was read from  *)
(* it is still in the builder.                                             *)
ArchiveSource ==
  /\ repairPc = "copy"
  /\ Archived(File(item))
  /\ repairPc' = "finish"
  /\ UNCHANGED <<current, repairWork>>

(* The table copied, which a failed call has left where it was.            *)
Originals(files) == {f \in files : f.kind = "table" /\ f.n = item}
Source ==
  CHOOSE f \in IF Originals(dir) # {} THEN Originals(dir) ELSE Originals(lost) :
    TRUE

(* Finish and Close; a table with nothing to save is abandoned, and its    *)
(* empty file stays.                                                       *)
FinishCopy ==
  /\ repairPc = "finish"
  /\ \/ /\ Source.has = {}
        /\ repairPc' = "logs"
        /\ Fine
        /\ UNCHANGED dir
     \/ /\ Source.has # {}
        /\ dir' = Put(dir, TableOf(made, Source.has, FALSE))
        /\ repairPc' = "rename"
        /\ Fine
     \/ /\ Fails(Source.has)
        /\ dir' = Without(dir, File(made))
        /\ repairPc' = "logs"
  /\ UNCHANGED <<lost, current, repairWork>>

RenameCopy ==
  /\ repairPc = "rename"
  /\ \/ /\ dir' = Put(Without(dir, File(made)),
                       TableOf(item, File(made).has, FALSE))
        /\ tables_' = tables_ \cup {item}
        /\ Fine
     \/ /\ Fails(File(made).has)
        /\ dir' = Without(dir, File(made))
        /\ UNCHANGED tables_
  /\ repairPc' = "logs"
  /\ UNCHANGED <<lost, current, manifests_, logs_, table_numbers_,
                 next_file_number_, item, made>>

-----------------------------------------------------------------------------
(* WriteDescriptor                                                         *)

(* The temporary file, which no later repair looks at, is written.         *)
WriteDescriptor ==
  /\ repairPc = "logs" /\ logs_ = {} /\ table_numbers_ = {}
  /\ \/ Fine /\ repairPc' = "discard"
     \/ Fails({}) /\ repairPc' = "failed"
  /\ UNCHANGED <<dirs, repairWork>>

Discard(f) ==
  /\ repairPc = "discard" /\ f \in manifests_
  /\ manifests_' = manifests_ \ {f}
  /\ Archived(f)
  /\ UNCHANGED <<current, repairPc, logs_, table_numbers_, tables_,
                 next_file_number_, item, made>>

Listed == Manifest(1, tables_, next_file_number_,
            Max({0} \cup UNION {File(n).has : n \in tables_}))

Install ==
  /\ repairPc = "discard" /\ manifests_ = {}
  /\ \/ Fine /\ dir' = Put(dir, Listed) /\ repairPc' = "current"
     \/ Fails({}) /\ repairPc' = "failed" /\ UNCHANGED dir
  /\ UNCHANGED <<lost, current, repairWork>>

SetCurrentFile ==
  /\ repairPc = "current"
  /\ \/ Fine /\ current' = 1 /\ repairPc' = "ok"
     \/ Fails({}) /\ repairPc' = "failed" /\ UNCHANGED current
  /\ UNCHANGED <<dir, lost, repairWork>>

-----------------------------------------------------------------------------
(* The process is killed. What the builder of a copy had is gone.          *)
KillRepair ==
  /\ repairPc \notin {"new", "idle", "ok", "failed"}
  /\ repairPc' = "idle"
  /\ excused' = excused \cup (IF repairPc = "finish" THEN Source.has ELSE {})
  /\ UNCHANGED <<dirs, repairWork, there, runs, failures>>

RepairNext ==
  \/ Broken \/ FindFiles \/ Build \/ ArchiveLog \/ ArchiveSource \/ FinishCopy
  \/ RenameCopy \/ WriteDescriptor \/ Install \/ SetCurrentFile
  \/ KillRepair
  \/ \E l \in logs_ : Convert(l)
  \/ \E n \in table_numbers_ : Scan(n) \/ ScanDrops(n) \/ RepairTable(n)
  \/ \E f \in manifests_ : Discard(f)

RepairSpec == RepairInit /\ [][RepairNext]_repairVars

-----------------------------------------------------------------------------
(* Properties.                                                             *)

(* The descriptor a repair ends with can be opened: its tables are there   *)
(* and readable, no number it will hand out is in use, no sequence number  *)
(* is used again; and it has every entry there was, however often earlier  *)
(* repairs were killed, but for those in a file on which a call failed or  *)
(* whose copy was cut (repair.cc:294-317, where the source is archived     *)
(* before the copy is finished).                                           *)
RepairOpens ==
  repairPc = "ok" =>
    \E m \in OfKind("manifest") :
      /\ m.n = current
      /\ m.lists \subseteq NumbersOf({f \in OfKind("table") : ~f.bad})
      /\ \A f \in OfKind("log") \cup OfKind("table") : f.n < m.next
      /\ there \ excused \subseteq UNION {File(n).has : n \in m.lists}
      /\ \A n \in m.lists : \A s \in File(n).has : s <= m.last

(* At every moment, and so wherever a repair is killed, the next one finds *)
(* those entries in the directory; only the source of a copy that is being *)
(* finished is elsewhere.                                                  *)
RepairKeeps ==
  there \ excused \subseteq
    In(dir) \cup (IF repairPc = "finish" THEN Source.has ELSE {})

RepairSound == RepairOpens /\ RepairKeeps

-----------------------------------------------------------------------------
(* Why a repair loses nothing. The files a repair still has to convert or  *)
(* to scan, those it will list and the one in its hands have every entry   *)
(* it has to keep, at every step.                                          *)

DataFile == [n : Nat, kind : {"log", "table"}, has : SUBSET Entries,
             bad : BOOLEAN]
Working == repairPc \notin {"new", "idle", "failed"}

RepairTypes ==
  /\ \A f \in Data(dir) \cup Data(lost) : f \in DataFile
  /\ next_file_number_ \in Nat \ {0} /\ {item, made} \subseteq Nat
  /\ there \subseteq Entries

(* No two files that can be read have the same number, and the numbers     *)
(* handed out during a repair are new.                                     *)
OneOfEach == \A f, g \in Data(dir) : f.n = g.n => f = g
NumbersBelow ==
  \A f \in Data(dir) :
    f.n < next_file_number_ \/ (~Working /\ f.n <= MaxNumber)

ListsOf ==
  /\ logs_ \subseteq OfKind("log")
  /\ manifests_ \subseteq OfKind("manifest")
  /\ table_numbers_ \subseteq NumbersOf(OfKind("table"))
  /\ tables_ \subseteq NumbersOf({f \in OfKind("table") : ~f.bad})
  /\ table_numbers_ \cap tables_ = {}
  /\ repairPc \in {"copy", "finish", "rename", "discard", "current", "ok"} =>
       logs_ = {}
  /\ repairPc \in {"discard", "current", "ok"} => table_numbers_ = {}
  /\ repairPc \in {"current", "ok"} => Listed \in dir
  /\ repairPc = "ok" => current = 1

Begun(b) == /\ \E f \in OfKind("table") : f.n = made /\ f.bad = b
            /\ made \notin table_numbers_ \cup tables_

(* What is in the hands of the repair.                                     *)
InHand ==
  /\ repairPc \in {"build", "archive"} =>
       \E f \in OfKind("log") : f.n = item /\ f \notin logs_
  /\ repairPc \in {"build", "copy", "finish"} => Begun(TRUE)
  /\ repairPc = "rename" => Begun(FALSE)
  /\ repairPc \in {"build", "copy", "finish", "rename"} => item # made
  /\ repairPc \in {"copy", "finish", "rename"} =>
       /\ item < next_file_number_ /\ item \notin table_numbers_ \cup tables_
       /\ \A f \in Data(dir) : f.n = item => f.kind = "table" /\ f.bad
  /\ repairPc = "copy" => Originals(dir) # {}
  /\ repairPc = "finish" => Originals(dir) # {} \/ \E f \in Originals(lost) : Originals(lost) = {f}

Held ==
  IF repairPc \in {"build", "copy"} THEN File(item).has
  ELSE IF repairPc = "finish" THEN Source.has
  ELSE IF repairPc = "rename" THEN File(made).has
  ELSE {}

Kept ==
  there \ excused \subseteq
    IF Working THEN In(logs_) \cup Held \cup
                    UNION {File(n).has : n \in table_numbers_ \cup tables_}
    ELSE In(dir)

RepairInv ==
  /\ RepairTypes /\ OneOfEach /\ NumbersBelow /\ Kept
  /\ Working => ListsOf /\ InHand

=============================================================================
