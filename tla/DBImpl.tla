------------------------------- MODULE DBImpl -------------------------------
(***************************************************************************)
(* Writing, flushing, crashing and reopening a LevelDB database            *)
(* (ios/Pods/leveldb-library: db/db_impl.cc, and Recover, LogAndApply and  *)
(* AddLiveFiles of db/version_set.cc).                                     *)
(* Writers form a queue whose front logs a group of batches without the    *)
(* mutex; one background thread flushes the full memtable and compacts;    *)
(* a crash of the process, or of the machine, may come between any two     *)
(* changes of the disk, while DB::Open recovers too.                       *)
(* A write is one entry, named by the write and by its sequence number.    *)
(* Which tables a compaction takes, and the level a flush goes to, are     *)
(* left open here: VersionSet has them. reuse_logs and paranoid_checks     *)
(* are off, as by default.                                                 *)
(***************************************************************************)
EXTENDS Integers, Sequences, FiniteSets, SequencesExt, Functions

CONSTANTS
  MaxWrites,    \* bound: calls of Write
  MemLimit,     \* entries that fill a memtable (write_buffer_size)
  MaxGroup,     \* batches in a group (the 1 MB of BuildBatchGroup)
  L0Trigger,    \* config::kL0_CompactionTrigger
  L0Stop,       \* config::kL0_StopWritesTrigger
  MaxCrashes,   \* bound: crashes and closes
  MaxFaults,    \* bound: failing calls of the file system
  MaxReaders    \* bound: versions held by iterators at a time

ASSUME LimitsAssumption ==
  /\ {MemLimit, MaxGroup, L0Trigger, L0Stop} \subseteq Nat \ {0}
  /\ L0Trigger <= L0Stop
  /\ {MaxWrites, MaxCrashes, MaxFaults, MaxReaders} \subseteq Nat

Writes == 1 .. MaxWrites

VARIABLES
  \* the disk
  logs,       \* log files: their records, and how many of them are synced
  tables,     \* table files: their entries, or Partial
  manifests,  \* descriptor files: the same, a record being a set of one
              \* VersionEdit
  current,    \* the descriptor CURRENT names, or 0
  \* VersionSet and DBImpl
  phase,      \* "down", a step of DB::Open, "open" or "corrupt"
  toReplay,   \* the logs Recover has still to read
  version,    \* current_: pairs of a table and its level (0, or 1 for below)
  held,       \* the versions iterators keep alive
  nextFile, lastSeq, minLog, manifestNum,
  mem, imm,   \* entries; imm is << >> for nullptr
  logNum,     \* logfile_number_
  pending,    \* pending_outputs_
  bgError, shutting, scheduled,
  queue,      \* writers_
  wr,         \* for each write, its Writer and where its thread is
  ahead,      \* which of log_ and descriptor_log_ has counted a failed append
              \* in block_offset_, and so is ahead of its file
  bg,         \* where the background thread is, and its locals
  \* history
  crashes, faults,
  safe,       \* the writes that have to be there
  torn,       \* an append to a log failed
  spoilt      \* a descriptor was written to after a failed append to it

disk    == <<logs, tables, manifests, current>>
control == <<phase, toReplay, shutting, scheduled, bgError>>
numbers == <<nextFile, lastSeq, minLog, manifestNum, logNum>>
data    == <<version, held, mem, imm, pending>>
history == <<crashes, faults, safe, torn, spoilt>>
vars    == <<disk, control, numbers, data, queue, wr, bg, history, ahead>>

Partial == {}            \* a table still being written: no other is empty
Junk    == {}            \* what a failed append may leave in a file
None    == [in |-> {}, out |-> {}, base |-> {}]

Idle   == [pc |-> "idle", num |-> 0, edit |-> << >>, kind |-> "", comp |-> None]
NewWr  == [pc |-> "new", sync |-> FALSE, null |-> FALSE, force |-> FALSE,
           group |-> 0]

-----------------------------------------------------------------------------
(* Files.                                                                  *)

Without(f, S) == Restrict(f, DOMAIN f \ S)
Put(f, n, x) == [m \in DOMAIN f \cup {n} |-> IF m = n THEN x ELSE f[m]]
EmptyFile == [recs |-> << >>, synced |-> 0]
Appended(file, rec) == [file EXCEPT !.recs = Append(@, rec)]
Synced(file) == [file EXCEPT !.synced = Len(file.recs)]

(* log::Writer: after a failed append the records are laid out for blocks  *)
(* that are not those of the file (log_writer.cc:106, env_posix.cc:319),   *)
(* and sooner or later one of them crosses a block the reader sees.        *)
Astray(who, file) ==
  {file} \cup (IF who \in ahead THEN {Appended(file, Junk)} ELSE {})

(* log::Reader: what follows a torn record, or one that crosses its        *)
(* blocks, is not read.                                                    *)
Readable(recs) ==
  LET junk == {i \in DOMAIN recs : recs[i] = Junk}
  IN  IF junk = {} THEN recs ELSE SubSeq(recs, 1, Min(junk) - 1)
EntriesOf(recs) == UNION Range(Readable(recs))

L0(v) == {t \in v : t[2] = 0}
L1(v) == v \ L0(v)
Nums(v) == {t[1] : t \in v}
Ids(entries) == {e.id : e \in entries}

(* AddLiveFiles: every version some reader or the compaction still holds.  *)
Live(v) == Nums(v) \cup (UNION {Nums(h) : h \in held})
             \cup Nums(bg.comp.base) \cup pending

(* DeleteObsoleteFiles, with the state it finds.                           *)
Collect(ts, live, log) ==
  /\ tables' = Without(ts, DOMAIN ts \ live)
  /\ logs' = Without(logs, {n \in DOMAIN logs : n < log})
  /\ manifests' = Without(manifests, {n \in DOMAIN manifests : n < manifestNum})

NeedsCompaction(v) == Cardinality(L0(v)) >= L0Trigger

(* MaybeScheduleCompaction                                                 *)
Schedule(busy, err, im, v) ==
  busy \/ (~shutting /\ ~err /\ (im # << >> \/ NeedsCompaction(v)))

(* background_work_finished_signal_.SignalAll()                            *)
NoSignal(w) == w
SignalAll(w) ==
  [i \in Writes |-> IF w[i].pc = "wait" THEN [w[i] EXCEPT !.pc = "room"]
                    ELSE w[i]]

-----------------------------------------------------------------------------
(* DB::Open. It holds the mutex throughout: only a crash interferes.       *)

Init ==
  /\ logs = << >> /\ tables = << >> /\ manifests = << >> /\ current = 0
  /\ phase = "down" /\ toReplay = {} /\ shutting = FALSE
  /\ scheduled = FALSE /\ bgError = FALSE
  /\ nextFile = 2 /\ lastSeq = 0 /\ minLog = 0 /\ manifestNum = 0
  /\ logNum = 0 /\ version = {} /\ held = {} /\ mem = {} /\ imm = << >>
  /\ pending = {} /\ queue = << >> /\ wr = [i \in Writes |-> NewWr]
  /\ bg = Idle /\ crashes = 0 /\ faults = 0 /\ safe = {} /\ torn = FALSE
  /\ spoilt = FALSE /\ ahead = {}

Open ==
  /\ phase = "down"
  /\ phase' = IF current = 0 THEN "create" ELSE "recover"
  /\ UNCHANGED <<disk, toReplay, shutting, scheduled, bgError, numbers, data,
                 queue, wr, bg, history, ahead>>

FirstEdit == [add |-> {}, del |-> {}, log |-> 0, next |-> 2, last |-> 0]

(* NewDB: the descriptor is closed and not synced before CURRENT names it. *)
NewDB ==
  /\ \/ /\ phase = "create"
        /\ manifests' = Put(manifests, 1,
             Appended(EmptyFile, {FirstEdit}))
        /\ phase' = "install"
        /\ UNCHANGED current
     \/ /\ phase = "install"
        /\ current' = 1
        /\ phase' = "recover"
        /\ UNCHANGED manifests
  /\ UNCHANGED <<logs, tables, toReplay, shutting, scheduled, bgError, numbers,
                 data, queue, wr, bg, history, ahead>>

(* Builder::Apply and SaveTo, for all the edits of a descriptor.           *)
EditOf(rec) == CHOOSE x \in rec : TRUE
Saved(recs) ==
  {t \in UNION {EditOf(r).add : r \in Range(recs)} :
     \E i \in DOMAIN recs :
       /\ t \in EditOf(recs[i]).add
       /\ \A j \in i + 1 .. Len(recs) : t \notin EditOf(recs[j]).del}

FileNumbers == DOMAIN logs \cup DOMAIN tables \cup DOMAIN manifests

(* VersionSet::Recover and the check for missing files: a file of any kind *)
(* with its number passes for a table. A record after a torn one makes the *)
(* descriptor corrupt, or is not seen at all.                              *)
Recover ==
  /\ phase = "recover"
  /\ LET m == manifests[current].recs
         good == Readable(m)
         st == EditOf(Last(good))
     IN  \/ /\ \/ good = << >>
               \/ Len(m) > Len(good) + 1
               \/ ~(Nums(Saved(good)) \subseteq FileNumbers)
            /\ phase' = "corrupt"
            /\ UNCHANGED <<toReplay, numbers, version>>
         \/ /\ good # << >>
            /\ Nums(Saved(good)) \subseteq FileNumbers
            /\ version' = Saved(good)
            /\ nextFile' = st.next + 1 /\ manifestNum' = st.next
            /\ lastSeq' = st.last /\ minLog' = st.log /\ logNum' = 0
            /\ toReplay' = {n \in DOMAIN logs : n >= st.log}
            /\ phase' = "replay"
  /\ UNCHANGED <<disk, shutting, scheduled, bgError, held, mem, imm, pending,
                 queue, wr, bg, history, ahead>>

MarkFileNumberUsed(next, n) == IF next <= n THEN n + 1 ELSE next

DescribedSequence(es) == lastSeq
MaxSequence(es) == Max({lastSeq} \cup {e.s : e \in es})

(* RecoverLogFile: the records of the oldest log become a table.           *)
RecoverLogFile ==
  /\ phase = "replay" /\ toReplay # {}
  /\ LET n == Min(toReplay)
         es == EntriesOf(logs[n].recs)
         used == IF es = {} THEN 0 ELSE 1
     IN  /\ IF es = {} THEN UNCHANGED <<tables, version>>
            ELSE /\ tables' = Put(tables, nextFile, es)
                 /\ version' = version \cup {<<nextFile, 0>>}
         /\ lastSeq' = MaxSequence(es)
         /\ nextFile' = MarkFileNumberUsed(nextFile + used, n)
         /\ toReplay' = toReplay \ {n}
  /\ UNCHANGED <<logs, manifests, current, phase, shutting, scheduled, bgError,
                 minLog, manifestNum, logNum, held, mem, imm, pending, queue,
                 wr, bg, history, ahead>>

(* The new log: NewWritableFile truncates a file of that name.             *)
NewLog ==
  /\ phase = "replay" /\ toReplay = {}
  /\ logs' = Put(logs, nextFile, EmptyFile)
  /\ logNum' = nextFile /\ nextFile' = nextFile + 1
  /\ phase' = "describe"
  /\ ahead' = ahead \ {"log"}
  /\ UNCHANGED <<tables, manifests, current, toReplay, shutting, scheduled,
                 bgError, lastSeq, minLog, manifestNum, data, queue, wr, bg,
                 history>>

Edit(add, del, log) ==
  [add |-> add, del |-> del, log |-> log, next |-> nextFile, last |-> lastSeq]

Written(file) == file
Durably(file) == Synced(file)

(* The first LogAndApply: a new descriptor, synced, then CURRENT, then the *)
(* files that are no longer needed go.                                     *)
Describe ==
  /\ \/ /\ phase = "describe"
        /\ manifests' = Put(manifests, manifestNum,
             Durably(Appended(EmptyFile, {Edit(version, {}, logNum)})))
        /\ phase' = "name"
        /\ ahead' = ahead \ {"descriptor"}
        /\ UNCHANGED <<logs, tables, current, minLog, scheduled>>
     \/ /\ phase = "name"
        /\ current' = manifestNum /\ minLog' = logNum
        /\ phase' = "clean"
        /\ UNCHANGED <<logs, tables, manifests, scheduled, ahead>>
     \/ /\ phase = "clean"
        /\ Collect(tables, Live(version), minLog)
        /\ scheduled' = Schedule(FALSE, FALSE, << >>, version)
        /\ phase' = "open"
        /\ UNCHANGED <<current, minLog, ahead>>
  /\ UNCHANGED <<toReplay, shutting, bgError, nextFile, lastSeq, manifestNum,
                 logNum, data, queue, wr, bg, history>>

-----------------------------------------------------------------------------
(* DBImpl::Write                                                           *)

Wr(i, pc) == [wr EXCEPT ![i].pc = pc]
Leader == Head(queue)

Enqueue(i, sync, null) ==
  /\ phase = "open" /\ ~shutting /\ wr[i].pc = "new"
  /\ \A j \in Writes : j < i => wr[j].pc # "new"
  /\ queue' = Append(queue, i)
  /\ wr' = [wr EXCEPT ![i] =
              [pc |-> IF queue = << >> THEN "room" ELSE "queued",
               sync |-> sync, null |-> null, force |-> null, group |-> 0]]
  /\ UNCHANGED <<disk, control, numbers, data, bg, history, ahead>>

(* BuildBatchGroup: how many writers the front takes with it.              *)
AnySync(first, w) == TRUE
SyncFits(first, w) == w.sync => first.sync
GroupSize ==
  LET ok(n) == /\ \A k \in 2 .. n : SyncFits(wr[Leader], wr[queue[k]])
               /\ Cardinality({k \in 1 .. n : ~wr[queue[k]].null}) <= MaxGroup
  IN  Max({n \in 1 .. Len(queue) : ok(n)})
Batches == {k \in 1 .. wr[Leader].group : ~wr[queue[k]].null}
GroupEntries ==
  {[id |-> queue[k], s |-> lastSeq + Cardinality({j \in Batches : j <= k})] :
     k \in Batches}

(* The end of Write: the group is told, and the next in the queue woken.   *)
Returned(w, n) ==
  [i \in Writes |->
     IF \E k \in 1 .. n : queue[k] = i
       THEN [NewWr EXCEPT !.pc = "done", !.sync = w[i].sync]
     ELSE IF n < Len(queue) /\ queue[n + 1] = i THEN [w[i] EXCEPT !.pc = "room"]
     ELSE w[i]]
Return(w, n) ==
  /\ wr' = Returned(w, n)
  /\ queue' = SubSeq(queue, n + 1, Len(queue))

HasRoom == ~wr[Leader].force /\ Cardinality(mem) < MemLimit

(* One turn of MakeRoomForWrite, with the mutex.                           *)
MakeRoomForWrite ==
  /\ queue # << >> /\ wr[Leader].pc = "room"
  /\ \/ /\ bgError
        /\ Return(wr, 1)
        /\ UNCHANGED <<logs, mem, imm, logNum, nextFile, scheduled, ahead>>
     \/ /\ ~bgError /\ HasRoom /\ wr[Leader].null
        /\ Return(wr, 1)
        /\ UNCHANGED <<logs, mem, imm, logNum, nextFile, scheduled, ahead>>
     \/ /\ ~bgError /\ HasRoom /\ ~wr[Leader].null
        /\ wr' = [wr EXCEPT ![Leader].pc = "append", ![Leader].group = GroupSize]
        /\ UNCHANGED <<logs, mem, imm, logNum, nextFile, scheduled, queue,
                       ahead>>
     \/ /\ ~bgError /\ ~HasRoom
        /\ imm # << >> \/ Cardinality(L0(version)) >= L0Stop
        /\ wr' = Wr(Leader, "wait")
        /\ UNCHANGED <<logs, mem, imm, logNum, nextFile, scheduled, queue,
                       ahead>>
     \/ /\ ~bgError /\ ~HasRoom /\ imm = << >>
        /\ Cardinality(L0(version)) < L0Stop
        /\ logs' = Put(logs, nextFile, EmptyFile)
        /\ logNum' = nextFile /\ nextFile' = nextFile + 1
        /\ ahead' = ahead \ {"log"}
        /\ imm' = <<mem>> /\ mem' = {}
        /\ wr' = [wr EXCEPT ![Leader].force = FALSE]
        /\ scheduled' = Schedule(scheduled, FALSE, imm', version)
        /\ UNCHANGED queue
  /\ UNCHANGED <<tables, manifests, current, phase, toReplay, shutting,
                 bgError, lastSeq, minLog, manifestNum, version, held, pending,
                 bg, history>>

(* The new log cannot be made: the number is given back, the write fails.  *)
NoLog ==
  /\ queue # << >> /\ wr[Leader].pc = "room" /\ faults < MaxFaults
  /\ ~bgError /\ ~HasRoom /\ imm = << >> /\ Cardinality(L0(version)) < L0Stop
  /\ Return(wr, 1)
  /\ faults' = faults + 1
  /\ UNCHANGED <<disk, control, numbers, data, bg, crashes, safe, torn, spoilt,
                 ahead>>

(* AddRecord, without the mutex.                                           *)
At(pc) == queue # << >> /\ wr[Leader].pc = pc

AppendRecord ==
  /\ At("append")
  /\ \E file \in Astray("log", logs[logNum]) :
       logs' = [logs EXCEPT ![logNum] = Appended(file, GroupEntries)]
  /\ wr' = Wr(Leader, IF wr[Leader].sync THEN "sync" ELSE "insert")
  /\ UNCHANGED <<tables, manifests, current, control, numbers, data, queue, bg,
                 history, ahead>>

SyncLog ==
  /\ At("sync")
  /\ logs' = [logs EXCEPT ![logNum] = Synced(@)]
  /\ wr' = Wr(Leader, "insert")
  /\ UNCHANGED <<tables, manifests, current, control, numbers, data, queue, bg,
                 history, ahead>>

(* The memtable, the last sequence number, and back to the callers.        *)
InsertInto ==
  /\ At("insert")
  /\ mem' = mem \cup GroupEntries
  /\ lastSeq' = lastSeq + Cardinality(Batches)
  /\ safe' = safe \cup {queue[k] : k \in Batches}
  /\ Return(wr, wr[Leader].group)
  /\ UNCHANGED <<disk, control, nextFile, minLog, manifestNum, logNum, version,
                 held, imm, pending, bg, crashes, faults, torn, spoilt,
                 ahead>>

(* A failed append may leave part of the record, or nothing; the writer    *)
(* counts all of it. The sequence numbers are used up, and the database    *)
(* goes on.                                                                *)
AppendFails ==
  /\ At("append") /\ faults < MaxFaults
  /\ \E left \in {<< >>, <<Junk>>} :
       logs' = [logs EXCEPT ![logNum].recs = @ \o left]
  /\ torn' = TRUE /\ ahead' = ahead \cup {"log"}
  /\ lastSeq' = lastSeq + Cardinality(Batches)
  /\ Return(wr, wr[Leader].group)
  /\ faults' = faults + 1
  /\ UNCHANGED <<tables, manifests, current, control, nextFile, minLog,
                 manifestNum, logNum, data, bg, crashes, safe, spoilt>>

(* RecordBackgroundError                                                   *)
Alarmed(w) == IF bgError THEN w ELSE SignalAll(w)

(* After a failed sync nobody knows what the log holds: no more writes.    *)
SyncFails ==
  /\ At("sync") /\ faults < MaxFaults
  /\ bgError' = TRUE
  /\ lastSeq' = lastSeq + Cardinality(Batches)
  /\ Return(Alarmed(wr), wr[Leader].group)
  /\ faults' = faults + 1
  /\ UNCHANGED <<disk, phase, toReplay, shutting, scheduled, nextFile, minLog,
                 manifestNum, logNum, data, bg, crashes, safe, torn, spoilt,
                 ahead>>

-----------------------------------------------------------------------------
(* The background thread.                                                  *)

(* The end of BackgroundCall, or of a flush within a compaction.           *)
BackgroundCallEnds(w, err, im, v) ==
  /\ scheduled' = Schedule(FALSE, err, im, v)
  /\ wr' = SignalAll(w)
  /\ bg' = Idle
Ends(w, err, im, v) ==
  IF bg.kind = "flush" /\ bg.comp # None
  THEN /\ wr' = SignalAll(w)
       /\ bg' = [bg EXCEPT !.pc = "compact", !.kind = ""]
       /\ UNCHANGED scheduled
  ELSE BackgroundCallEnds(w, err, im, v)

MayWork == bg.pc = "idle" /\ scheduled /\ ~shutting /\ ~bgError

NothingToDo ==
  /\ bg.pc = "idle" /\ scheduled
  /\ shutting \/ bgError \/ (imm = << >> /\ ~NeedsCompaction(version))
  /\ BackgroundCallEnds(wr, bgError, imm, version)
  /\ UNCHANGED <<disk, phase, toReplay, shutting, bgError, numbers, data, queue,
                 history, ahead>>

(* CompactMemTable, by itself or from within DoCompactionWork, which does  *)
(* not ask whether there was an error: a table file is begun.              *)
Unprotected(n) == pending
Protected(n) == pending \cup {n}

FlushBegins ==
  /\ imm # << >>
  /\ MayWork \/ (bg.pc = "compact" /\ ~shutting)
  /\ bg' = [bg EXCEPT !.pc = "flush", !.kind = "flush", !.num = nextFile]
  /\ nextFile' = nextFile + 1
  /\ pending' = Protected(nextFile)
  /\ tables' = IF imm[1] = {} THEN tables ELSE Put(tables, nextFile, Partial)
  /\ UNCHANGED <<logs, manifests, current, control, lastSeq, minLog,
                 manifestNum, logNum, version, held, mem, imm, queue, wr,
                 history, ahead>>

Fail ==
  /\ bgError' = TRUE
  /\ Ends(Alarmed(wr), TRUE, imm, version)

(* The table is built, and an edit prepared; at shutdown it is not used.   *)
FlushBuilt(l) ==
  /\ bg.pc = "flush"
  /\ tables' = IF bg.num \in DOMAIN tables THEN Put(tables, bg.num, imm[1])
               ELSE tables
  /\ pending' = pending \ {bg.num}
  /\ \/ /\ shutting
        /\ Fail
     \/ /\ ~shutting
        /\ bg' = [bg EXCEPT !.pc = "log",
             !.edit = Edit(IF imm[1] = {} THEN {} ELSE {<<bg.num, l>>}, {},
                           logNum)]
        /\ UNCHANGED <<bgError, scheduled, wr>>
  /\ UNCHANGED <<logs, manifests, current, phase, toReplay, shutting, numbers,
                 version, held, mem, imm, queue, history, ahead>>

FlushFails ==
  /\ bg.pc = "flush" /\ faults < MaxFaults
  /\ faults' = faults + 1
  /\ tables' = Without(tables, {bg.num})
  /\ pending' = pending \ {bg.num}
  /\ Fail
  /\ UNCHANGED <<logs, manifests, current, phase, toReplay, shutting, numbers,
                 version, held, mem, imm, queue, crashes, safe, torn, spoilt,
                 ahead>>

(* A compaction of some tables of level 0 and some below; one table alone  *)
(* may just be moved.                                                      *)
CompactionBegins ==
  /\ MayWork /\ imm = << >> /\ NeedsCompaction(version)
  /\ \E S \in (SUBSET L0(version)) \ {{}}, T \in SUBSET L1(version) :
       \/ bg' = [bg EXCEPT !.pc = "compact",
                   !.comp = [in |-> S \cup T, out |-> {}, base |-> version]]
       \/ /\ Cardinality(S) = 1 /\ T = {}
          /\ bg' = [bg EXCEPT !.pc = "log", !.kind = "move",
               !.edit = Edit({<<t[1], 1>> : t \in S}, S, minLog)]
  /\ UNCHANGED <<disk, control, numbers, data, queue, wr, history, ahead>>

OpenCompactionOutputFile ==
  /\ bg.pc = "compact" /\ bg.comp.out = {} /\ ~shutting
  /\ bg' = [bg EXCEPT !.comp.out = {nextFile}]
  /\ nextFile' = nextFile + 1
  /\ pending' = Protected(nextFile)
  /\ tables' = Put(tables, nextFile, Partial)
  /\ UNCHANGED <<logs, manifests, current, control, lastSeq, minLog,
                 manifestNum, logNum, version, held, mem, imm, queue, wr,
                 history, ahead>>

Contents(n) ==
  IF n \in DOMAIN tables THEN tables[n] ELSE {}

FinishCompaction ==
  /\ bg.pc = "compact" /\ bg.comp.out # {} /\ ~shutting
  /\ tables' = [n \in DOMAIN tables |->
                  IF n \in bg.comp.out
                  THEN UNION {Contents(m) : m \in Nums(bg.comp.in)}
                  ELSE tables[n]]
  /\ bg' = [bg EXCEPT !.pc = "log", !.kind = "merge",
       !.edit = Edit({<<n, 1>> : n \in bg.comp.out}, bg.comp.in, minLog)]
  /\ UNCHANGED <<logs, manifests, current, control, numbers, data, queue, wr,
                 history, ahead>>

CompactionFails ==
  /\ bg.pc = "compact"
  /\ \/ shutting /\ UNCHANGED faults
     \/ ~shutting /\ faults < MaxFaults /\ faults' = faults + 1
  /\ pending' = pending \ bg.comp.out
  /\ bgError' = TRUE
  /\ BackgroundCallEnds(Alarmed(wr), TRUE, imm, version)
  /\ UNCHANGED <<disk, phase, toReplay, shutting, numbers, version, held, mem,
                 imm, queue, crashes, safe, torn, spoilt, ahead>>

(* LogAndApply: the record, its sync, and the new version.                 *)
LogEdit ==
  /\ bg.pc = "log"
  /\ \E file \in Astray("descriptor", manifests[manifestNum]) :
       manifests' = [manifests EXCEPT ![manifestNum] = Appended(file, {bg.edit})]
  /\ spoilt' = (spoilt \/ "descriptor" \in ahead)
  /\ bg' = [bg EXCEPT !.pc = "sync"]
  /\ UNCHANGED <<logs, tables, current, control, numbers, data, queue, wr,
                 crashes, faults, safe, torn, ahead>>

Apply ==
  /\ bg.pc = "sync"
  /\ version' = (version \ bg.edit.del) \cup bg.edit.add
  /\ minLog' = bg.edit.log
  /\ imm' = IF bg.kind = "flush" THEN << >> ELSE imm
  /\ pending' = IF bg.kind = "merge" THEN pending \ bg.comp.out ELSE pending
  /\ LET synced == [manifests EXCEPT ![manifestNum] = Synced(@)]
         live == Nums(version') \cup (UNION {Nums(h) : h \in held}) \cup pending'
                   \cup (IF bg.kind = "flush" THEN Nums(bg.comp.base) ELSE {})
     IN  IF bgError \/ bg.kind = "move"
         THEN manifests' = synced /\ UNCHANGED <<tables, logs>>
         ELSE /\ tables' = Without(tables, DOMAIN tables \ live)
              /\ logs' = Without(logs, {n \in DOMAIN logs : n < minLog'})
              /\ manifests' = Without(synced, {n \in DOMAIN manifests :
                                                 n < manifestNum})
  /\ Ends(wr, bgError, imm', version')
  /\ UNCHANGED <<current, phase, toReplay, shutting, bgError, nextFile, lastSeq,
                 manifestNum, logNum, held, mem, queue, history, ahead>>

LogFails ==
  /\ bg.pc \in {"log", "sync"} /\ faults < MaxFaults
  /\ faults' = faults + 1
  /\ \E left \in IF bg.pc = "log" THEN {<< >>, <<Junk>>} ELSE {<< >>} :
       /\ manifests' = [manifests EXCEPT ![manifestNum].recs = @ \o left]
       /\ spoilt' = (spoilt \/ (left # << >> /\ "descriptor" \in ahead))
  /\ ahead' = IF bg.pc = "log" THEN ahead \cup {"descriptor"} ELSE ahead
  /\ pending' = IF bg.kind = "merge" THEN pending \ bg.comp.out ELSE pending
  /\ Fail
  /\ UNCHANGED <<logs, tables, current, phase, toReplay, shutting, numbers,
                 version, held, mem, imm, queue, crashes, safe, torn>>

-----------------------------------------------------------------------------
(* Readers, and the end of the process.                                    *)

NewIterator ==
  /\ phase = "open" /\ ~shutting /\ Cardinality(held) < MaxReaders
  /\ version \notin held
  /\ held' = held \cup {version}
  /\ UNCHANGED <<disk, control, numbers, version, mem, imm, pending, queue, wr,
                 bg, history, ahead>>

DeleteIterator ==
  /\ \E h \in held : held' = held \ {h}
  /\ UNCHANGED <<disk, control, numbers, version, mem, imm, pending, queue, wr,
                 bg, history, ahead>>

(* Nothing in memory is left; a call of Write never returns.               *)
Gone ==
  /\ phase' = "down" /\ toReplay' = {} /\ shutting' = FALSE
  /\ scheduled' = FALSE /\ bgError' = FALSE
  /\ nextFile' = 2 /\ lastSeq' = 0 /\ minLog' = 0 /\ manifestNum' = 0
  /\ logNum' = 0 /\ version' = {} /\ held' = {} /\ mem' = {} /\ imm' = << >>
  /\ pending' = {} /\ queue' = << >> /\ bg' = Idle
  /\ wr' = [i \in Writes |->
              IF wr[i].pc \in {"new", "done"} THEN wr[i]
              ELSE [NewWr EXCEPT !.pc = "lost"]]
  /\ crashes' = crashes + 1 /\ ahead' = {}

(* ~DBImpl waits for the background thread; the memtable is not flushed.   *)
Close ==
  /\ phase = "open" /\ ~shutting /\ queue = << >> /\ held = {}
  /\ crashes < MaxCrashes
  /\ shutting' = TRUE
  /\ UNCHANGED <<disk, phase, toReplay, scheduled, bgError, numbers, data,
                 queue, wr, bg, history, ahead>>

Closed ==
  /\ shutting /\ ~scheduled /\ crashes < MaxCrashes
  /\ Gone
  /\ UNCHANGED <<disk, faults, safe, torn, spoilt>>

Crash ==
  /\ phase \notin {"down", "corrupt"} /\ crashes < MaxCrashes
  /\ Gone
  /\ UNCHANGED <<disk, faults, safe, torn, spoilt>>

(* Of every file some prefix is left that holds at least what was synced.  *)
Cut(files, cut) ==
  [n \in DOMAIN files |->
     [recs |-> SubSeq(files[n].recs, 1, cut[n]), synced |-> cut[n]]]
Cuts(files) ==
  {cut \in [DOMAIN files -> UNION {0 .. Len(files[n].recs) :
                                     n \in DOMAIN files}] :
     \A n \in DOMAIN files : /\ files[n].synced <= cut[n]
                             /\ cut[n] <= Len(files[n].recs)}

PowerLoss ==
  /\ phase \notin {"down", "corrupt"} /\ crashes < MaxCrashes
  /\ \E cut \in Cuts(logs) : logs' = Cut(logs, cut)
  /\ \E cut \in Cuts(manifests) : manifests' = Cut(manifests, cut)
  /\ safe' = {i \in safe : wr[i].sync}
  /\ Gone
  /\ UNCHANGED <<tables, current, faults, torn, spoilt>>

(* An error while opening: a descriptor not yet named is deleted.          *)
OpenFails ==
  /\ phase \in {"create", "install", "recover", "replay", "describe", "name"}
  /\ crashes < MaxCrashes /\ faults < MaxFaults
  /\ faults' = faults + 1
  /\ manifests' = Without(manifests, CASE phase = "create" -> {1}
                                       [] phase = "name" -> {manifestNum}
                                       [] OTHER -> {})
  /\ Gone
  /\ UNCHANGED <<logs, tables, current, safe, torn, spoilt>>

-----------------------------------------------------------------------------
Opening == Open \/ NewDB \/ Recover \/ RecoverLogFile \/ NewLog \/ Describe

Writing == \/ MakeRoomForWrite \/ AppendRecord \/ SyncLog \/ InsertInto
           \/ NoLog \/ AppendFails \/ SyncFails

Background ==
  \/ NothingToDo \/ FlushBegins \/ FlushFails \/ CompactionBegins
  \/ \E l \in {0, 1} : FlushBuilt(l)
  \/ OpenCompactionOutputFile \/ FinishCompaction \/ CompactionFails
  \/ LogEdit \/ Apply \/ LogFails

Next ==
  \/ Opening \/ Writing \/ Background
  \/ \E i \in Writes, sync \in BOOLEAN : Enqueue(i, sync, FALSE)
  \/ \E i \in Writes : Enqueue(i, FALSE, TRUE)   \* TEST_CompactMemTable
  \/ NewIterator \/ DeleteIterator
  \/ Close \/ Closed \/ Crash \/ PowerLoss \/ OpenFails

Spec == Init /\ [][Next]_vars

-----------------------------------------------------------------------------
(* Properties.                                                             *)

Present == mem \cup (UNION Range(imm))
             \cup (UNION {Contents(n) : n \in Nums(version)})

(* include/leveldb/options.h, WriteOptions::sync: a write that returned OK *)
(* is there after every crash of the process, and one with sync after a    *)
(* crash of the machine, wherever in flushing, compacting, logging or      *)
(* recovering it came. (Once an append to a log has failed, whatever it    *)
(* left there, the records behind it may not be read again.)               *)
Durable == phase = "open" /\ ~torn => safe \subseteq Ids(Present)

(* No table of the current version, of a version an iterator holds, or of  *)
(* the inputs of the compaction is ever deleted or half written, whatever  *)
(* was being built when DeleteObsoleteFiles ran (db_impl.cc:223-278).      *)
TablesThere ==
  phase = "open" =>
    \A n \in Nums(version \cup (UNION held) \cup bg.comp.in) :
      n \in DOMAIN tables /\ tables[n] # Partial

(* A database that was opened once can be opened again: the descriptor is  *)
(* readable and no table it names is missing. There are two exceptions:    *)
(* NewDB does not sync the first descriptor (db_impl.cc:195-207), and a    *)
(* compaction in which a flush failed goes on and writes its own edit to a *)
(* descriptor whose writer is ahead of it (db_impl.cc:907-918).            *)
OpensAgain == phase = "corrupt" => spoilt \/ current = 1

(* Two entries never have the same sequence number, so that neither hides  *)
(* the other by accident: numbers are not used again after a failed write, *)
(* a crash or a recovery that found part of the logs.                      *)
FreshSequence ==
  phase = "open" =>
    /\ \A e, f \in Present : e.s = f.s => e = f
    /\ \A e \in Present : e.s <= lastSeq

(* No call of Write is left behind: the front of the queue always runs or  *)
(* waits, and it waits only while the background thread has a call to end, *)
(* which signals; a full memtable, a full level 0 and a background error   *)
(* all end that way (db_impl.cc:1185-1370, 669-686).                       *)
WaitersAreWoken ==
  queue # << >> =>
    /\ wr[Leader].pc # "queued"
    /\ wr[Leader].pc = "wait" => scheduled

-----------------------------------------------------------------------------
(* Why the writers are woken: an inductive invariant.                      *)

AtFront == {"room", "wait", "append", "sync", "insert"}
Writer  == [pc : AtFront \cup {"new", "queued", "done", "lost"},
            sync : BOOLEAN, null : BOOLEAN, force : BOOLEAN, group : Nat]

(* Every writer stands once in the queue, and only the first one runs.     *)
QueueInv ==
  /\ wr \in [Writes -> Writer]
  /\ queue \in Seq(Writes)
  /\ \A j, k \in 1 .. Len(queue) : queue[j] = queue[k] => j = k
  /\ queue # << >> => wr[queue[1]].pc \in AtFront
  /\ \A k \in 2 .. Len(queue) : wr[queue[k]].pc = "queued"

Locals(b) == /\ DOMAIN b = {"pc", "num", "edit", "kind", "comp"}
             /\ DOMAIN b.comp = {"in", "out", "base"}

(* The background thread is scheduled as long as there is work for it.     *)
WakeInv ==
  /\ queue # << >> => phase = "open" /\ ~shutting
  /\ phase # "open" => /\ bg.pc = "idle" /\ imm = << >>
                       /\ ~scheduled /\ ~bgError /\ ~shutting
  /\ bg.pc # "idle" => scheduled
  /\ /\ phase = "open" /\ ~shutting /\ ~bgError
     /\ imm # << >> \/ NeedsCompaction(version)
     => scheduled
  /\ queue # << >> /\ wr[queue[1]].pc = "wait" => scheduled

(* A record of descriptor n adds finitely many tables, and leaves the next *)
(* file a number above n.                                                  *)
GoodEdit(n, e) == IsFiniteSet(e.add) /\ e.next \in Nat /\ n < e.next
GoodRecord(n, r) == r = Junk \/ \E e \in r : r = {e} /\ GoodEdit(n, e)
GoodFile(n, f) ==
  /\ n \in Nat
  /\ DOMAIN f = {"recs", "synced"}
  /\ f.recs \in Seq(Range(f.recs))
  /\ \A i \in 1 .. Len(f.recs) : GoodRecord(n, f.recs[i])

AllGood(files) == \A n \in DOMAIN files : GoodFile(n, files[n])

(* CURRENT names a descriptor that is there, older than the one DB::Open   *)
(* is about to write; the version has finitely many tables.                *)
DescriptorInv ==
  /\ {nextFile, manifestNum} \subseteq Nat
  /\ DOMAIN logs \subseteq Nat /\ toReplay \subseteq Nat
  /\ AllGood(manifests)
  /\ current # 0 => current \in DOMAIN manifests
  /\ phase \in {"create", "install"} => current = 0
  /\ phase = "install" => 1 \in DOMAIN manifests
  /\ phase \in {"recover", "replay", "describe", "name", "clean", "open"} =>
       current # 0
  /\ phase \in {"replay", "describe", "name"} => current < manifestNum
  /\ phase \in {"replay", "describe", "name", "clean", "open"} =>
       manifestNum < nextFile
  /\ phase = "name" => manifestNum \in DOMAIN manifests
  /\ phase \in {"clean", "open"} => current = manifestNum
  /\ IsFiniteSet(version) /\ IsFiniteSet(bg.comp.out) /\ Locals(bg)
  /\ bg.pc \in {"log", "sync"} => GoodEdit(manifestNum, bg.edit)

WriteInv == QueueInv /\ WakeInv /\ DescriptorInv

-----------------------------------------------------------------------------
(* Why the tables are there, and the database opens again.                 *)

(* What may be read of a descriptor: all of it, or, after a power loss,    *)
(* what was synced and some of the rest.                                   *)
Readings(f) == {Readable(SubSeq(f.recs, 1, k)) : k \in f.synced .. Len(f.recs)}
NextOf(recs) == EditOf(Last(recs)).next

(* The tables of a version are written, with numbers below next.           *)
Sound(ts, next, v) ==
  \A n \in Nums(v) : n \in Nat /\ n < next /\ n \in DOMAIN ts /\ ts[n] # Partial

(* However much of the descriptor is read, the tables it names are there,  *)
(* and the next file number is above them; that number only grows.         *)
OnDisk(ts, f) ==
  /\ f.synced \in Nat /\ f.synced <= Len(f.recs)
  /\ \A recs \in Readings(f) \ {<< >>} :
       /\ NextOf(recs) <= NextOf(Readable(f.recs))
       /\ Sound(ts, NextOf(recs), Saved(recs))
Below(next, f) == \A recs \in Readings(f) \ {<< >>} : NextOf(recs) <= next
NoJunk(recs) == \A i \in 1 .. Len(recs) : recs[i] # Junk

(* The descriptor on the disk and the version in memory.                   *)
VersionInv ==
  /\ current # 0 => OnDisk(tables, manifests[current])
  /\ phase = "install" => manifests[1] = Appended(EmptyFile, {FirstEdit})
  /\ phase \in {"replay", "describe", "name", "clean", "open"} =>
       /\ Sound(tables, nextFile, version)
       /\ Below(nextFile, manifests[current])
  /\ phase = "name" =>
       manifests[manifestNum] =
         Durably(Appended(EmptyFile, {Edit(version, {}, logNum)}))
  /\ phase \in {"clean", "open"} /\ ~bgError =>
       /\ NoJunk(manifests[current].recs)
       /\ Saved(manifests[current].recs) =
            IF bg.pc = "sync" THEN (version \ bg.edit.del) \cup bg.edit.add
            ELSE version
  /\ phase = "clean" =>
       Readings(manifests[current]) = {manifests[current].recs}
  /\ phase # "open" => held = {}
  /\ \A h \in held : Sound(tables, nextFile, h)

(* No version names the table.                                             *)
Unused(n) ==
  /\ n \notin Nums(version) /\ n \notin Nums(bg.comp.base)
  /\ \A h \in held : n \notin Nums(h)
  /\ \A recs \in Readings(manifests[current]) : n \notin Nums(Saved(recs))

(* What the background thread builds.                                      *)
BuildInv ==
  /\ bg.pc = "idle" => bg.comp = None
  /\ bg.pc = "compact" \/ bg.comp # None => bg.comp.in # {}
  /\ bg.comp.in \subseteq bg.comp.base
  /\ Sound(tables, nextFile, bg.comp.base)
  /\ \A n \in bg.comp.out : /\ n \in Nat /\ n < nextFile
                            /\ n \in pending /\ n \in DOMAIN tables
  /\ bg.pc = "flush" =>
       /\ imm # << >> /\ (imm[1] # {} => bg.num \in DOMAIN tables)
       /\ bg.num \in Nat /\ bg.num < nextFile
       /\ bg.num \notin bg.comp.out /\ Unused(bg.num) /\ bg.kind = "flush"
  /\ bg.pc \in {"log", "sync"} =>
       /\ bg.kind \in {"flush", "move", "merge"}
       /\ Sound(tables, bg.edit.next, bg.edit.add)
       /\ bg.edit.next <= nextFile
  /\ bg.pc = "log" => Below(bg.edit.next, manifests[current])

(* A writer is ahead of its file only while the database is open, and that *)
(* of the descriptor only after an error.                                  *)
AheadInv ==
  /\ phase # "open" => ahead = {}
  /\ "descriptor" \in ahead => bgError
  /\ phase \in {"clean", "open"} /\ "descriptor" \notin ahead =>
       NoJunk(manifests[current].recs)

(* What Recover finds in a descriptor other than NewDB's.                  *)
ReopenInv ==
  /\ current \notin {0, 1} => << >> \notin Readings(manifests[current])
  /\ ~spoilt /\ current # 0 =>
       LET recs == manifests[current].recs
       IN  \A i \in 1 .. Len(recs) : recs[i] = Junk => i = Len(recs)
  /\ OpensAgain

TableInv == WriteInv /\ VersionInv /\ BuildInv /\ AheadInv /\ ReopenInv

-----------------------------------------------------------------------------
(* Why nothing is lost.                                                    *)

LogOf(recs) == EditOf(Last(recs)).log
Entries(v) == UNION {Contents(n) : n \in Nums(v)}
LogFile(f) == /\ DOMAIN f = {"recs", "synced"} /\ f.recs \in Seq(Range(f.recs))
              /\ f.synced \in Nat /\ f.synced <= Len(f.recs)
LogsBelow(n, f) == \A recs \in Readings(f) \ {<< >>} : LogOf(recs) <= n

(* The log files and their numbers: a new log never takes the place of one *)
(* that is to be read again.                                               *)
LogInv ==
  /\ \A n \in DOMAIN logs : LogFile(logs[n])
  /\ {minLog, logNum} \subseteq Nat
  /\ current # 0 => \A recs \in Readings(manifests[current]) \ {<< >>} :
                      LogOf(recs) \in Nat /\ LogOf(recs) <= NextOf(recs)
  /\ phase # "open" => mem = {}
  /\ imm = << >> \/ imm = <<imm[1]>>
  /\ phase = "replay" =>
       toReplay \subseteq DOMAIN logs /\ DOMAIN logs \subseteq 0 .. nextFile - 1 \cup toReplay
  /\ phase \in {"describe", "name", "clean", "open"} =>
       logNum \in DOMAIN logs /\ logNum < nextFile /\ DOMAIN logs \subseteq 0 .. logNum
  /\ phase \in {"describe", "name", "clean"} => logs[logNum] = EmptyFile
  /\ phase = "clean" =>
       LET recs == manifests[current].recs
       IN  minLog = logNum /\ recs # << >> /\ LogOf(recs) = logNum
  /\ phase = "open" => minLog <= logNum /\ LogsBelow(logNum, manifests[current])
  /\ bg.pc \in {"log", "sync"} =>
       bg.edit.log \in Nat /\ bg.edit.log <= bg.edit.next /\ bg.edit.log <= logNum

(* The group of the writer at the front, while it is being written.        *)
GroupInv ==
  queue # << >> /\ wr[Leader].pc \in {"append", "sync", "insert"} =>
    /\ wr[Leader].group \in 1 .. Len(queue) /\ ~wr[Leader].null
    /\ \A k \in 2 .. wr[Leader].group : wr[queue[k]].sync => wr[Leader].sync

(* A table being written by a compaction is in no version yet.             *)
OutputInv ==
  bg.pc \in {"compact", "flush"} \/ (bg.pc \in {"log", "sync"} /\ bg.kind = "flush")
  => \A n \in bg.comp.out :
       Unused(n) /\ (bg.pc \in {"log", "sync"} => n \notin Nums(bg.edit.add))

FilesInv == LogInv /\ GroupInv /\ OutputInv

Whole(n) == EntriesOf(logs[n].recs)
OnlySynced(n) == EntriesOf(SubSeq(logs[n].recs, 1, logs[n].synced))

(* A recovery finds the write: one that reads all records, or, if the write*)
(* was synced, these records and what is synced of the logs.               *)
Found(i, recs) ==
  \/ i \in Ids(Entries(Saved(recs)))
  \/ \E n \in DOMAIN logs : LogOf(recs) <= n /\ i \in Ids(Whole(n))
FoundSynced(i, recs) ==
  \/ i \in Ids(Entries(Saved(recs)))
  \/ \E n \in DOMAIN logs : LogOf(recs) <= n /\ i \in Ids(OnlySynced(n))
FoundAgain(f) ==
  \A i \in safe :
    /\ Readable(f.recs) # << >> => Found(i, Readable(f.recs))
    /\ wr[i].sync => \A recs \in Readings(f) \ {<< >>} : FoundSynced(i, recs)

(* The write is in the log in use, and on the disk if it has to be.        *)
InLog(i) == /\ i \in Ids(Whole(logNum))
            /\ wr[i].sync => i \in Ids(OnlySynced(logNum))

RecoveryInv ==
  /\ \A n \in DOMAIN logs : NoJunk(logs[n].recs)
  /\ \A i \in safe : i \in Writes /\ wr[i].pc = "done"
  /\ current = 0 => safe = {}
  /\ current # 0 => FoundAgain(manifests[current])
  /\ phase = "replay" =>
       \A i \in safe : \/ i \in Ids(Entries(version))
                       \/ \E n \in toReplay : i \in Ids(Whole(n))
  /\ phase \in {"describe", "name", "clean", "open"} => safe \subseteq Ids(Present)
  /\ phase = "open" => \A i \in safe : i \in Ids(mem) => InLog(i)

(* What the group has written is in the log.                               *)
GroupLogged ==
  queue # << >> =>
    /\ wr[Leader].pc \in {"sync", "insert"} => GroupEntries \subseteq Whole(logNum)
    /\ wr[Leader].pc = "insert" /\ wr[Leader].sync =>
         GroupEntries \subseteq OnlySynced(logNum)

(* What the descriptor says, while the background thread may go on: no     *)
(* more tables are gone from it than from the version, nor more logs.      *)
DescriptorHas(v, log) ==
  LET recs == manifests[current].recs
  IN  NoJunk(recs) => recs # << >> /\ v \subseteq Saved(recs) /\ log <= LogOf(recs)
EditInv ==
  /\ phase = "open" /\ (bg.pc # "idle" \/ ~bgError) =>
       IF bg.pc = "sync"
       THEN DescriptorHas((version \ bg.edit.del) \cup bg.edit.add, bg.edit.log)
       ELSE DescriptorHas(version, minLog)
  /\ bg.pc \in {"log", "sync"} =>
       IF bg.kind = "flush"
       THEN /\ bg.edit.del = {} /\ bg.edit.log = logNum
            /\ imm # << >> /\ imm[1] \subseteq Entries(bg.edit.add)
       ELSE /\ Entries(bg.edit.del) \subseteq Entries(bg.edit.add)
            /\ bg.edit.log = minLog

DurableInv ==
  /\ "log" \in ahead => torn
  /\ ~torn => RecoveryInv /\ GroupLogged /\ EditInv

-----------------------------------------------------------------------------
(* Why no sequence number is used twice.                                   *)

LastOf(recs) == EditOf(Last(recs)).last
Bounded(es, s) == \A e \in es : e.s \in Nat /\ e.s <= s
Alike(es) == \A e, f \in es : e.s = f.s => e = f

(* However much of the descriptor is read, the last sequence number in it  *)
(* bounds the entries of its tables, and that number only grows.           *)
Described(f) ==
  \A recs \in Readings(f) \ {<< >>} :
    /\ LastOf(recs) \in Nat /\ LastOf(recs) <= LastOf(Readable(f.recs))
    /\ Bounded(Entries(Saved(recs)), LastOf(recs))
LastBelow(s, f) == \A recs \in Readings(f) \ {<< >>} : LastOf(recs) <= s

(* The entries a compaction reads, those of an edit on its way to the      *)
(* descriptor, and those of a group that is in the log only.               *)
Based == Entries(bg.comp.base)
Added == IF bg.pc \in {"log", "sync"} THEN Entries(bg.edit.add) ELSE {}
Fleeting ==
  IF queue # << >> /\ wr[Leader].pc \in {"sync", "insert"} THEN GroupEntries ELSE {}

(* What some recovery may find: the tables of a reading of the descriptor, *)
(* and the logs that it does not yet leave behind.                         *)
Named ==
  IF current = 0 THEN {}
  ELSE UNION {Entries(Saved(recs)) : recs \in Readings(manifests[current])}
MayReplay(n) ==
  \/ phase = "open"
  \/ /\ current # 0
     /\ \E recs \in Readings(manifests[current]) \ {<< >>} : LogOf(recs) <= n
Logged == UNION {Whole(n) : n \in {n \in DOMAIN logs : MayReplay(n)}}

(* All entries that may ever be read again.                                *)
World == Present \cup Based \cup Added \cup Named \cup Logged \cup Fleeting

SequenceInv ==
  /\ lastSeq \in Nat
  /\ current = 0 => DOMAIN logs = {}
  /\ current # 0 => Described(manifests[current])
  /\ phase = "replay" => \A n \in toReplay : MayReplay(n)
  /\ phase \in {"replay", "describe", "name", "clean", "open"} =>
       LastBelow(lastSeq, manifests[current])
  /\ Bounded(Present \cup Based, lastSeq)
  /\ bg.pc \in {"log", "sync"} =>
       /\ bg.edit.last \in Nat /\ bg.edit.last <= lastSeq
       /\ Bounded(Added, bg.edit.last)
  /\ bg.pc = "log" => LastBelow(bg.edit.last, manifests[current])

(* Only the group being written is above the last sequence number.         *)
WorldInv ==
  /\ Alike(World)
  /\ phase = "open" => \A e \in World : e \in Fleeting \/ e.s <= lastSeq
=============================================================================
