------------------------------ MODULE PosixEnv ------------------------------
(***************************************************************************)
(* What LevelDB's threads share in its environment for POSIX               *)
(* (ios/Pods/leveldb-library: util/env_posix.cc): the limits on mapped and *)
(* open files, the lock that keeps a second process away from a database,  *)
(* the queue of the background thread, and the buffer of a file being      *)
(* written. These four share no state with one another: a behaviour        *)
(* chooses one of them first.                                              *)
(* The kernel's part (fcntl locks, write, mmap) is external.               *)
(***************************************************************************)
EXTENDS Integers, Sequences, FiniteSets

CONSTANTS
  Threads,      \* threads that open and close files
  MaxMmaps,     \* MaxMmaps()
  MaxOpenFiles, \* MaxOpenFiles()
  Procs,        \* processes that use one database
  Callers,      \* threads of each of them that lock and unlock it
  MaxWork,      \* bound: calls of Schedule
  BufferBytes,  \* kWritableFileBufferSize
  Sizes,        \* sizes of the data appended
  MaxBytes      \* bound: bytes appended

(* The limits may be 0, as they are for mapped files on a 32-bit system.   *)
ASSUME EnvConstants ==
  /\ IsFiniteSet(Threads) /\ MaxMmaps \in Nat /\ MaxOpenFiles \in Nat
  /\ BufferBytes \in Nat \ {0} /\ Sizes \subseteq Nat

VARIABLES
  object,       \* "none", "limits", "locks", "work" or "file"
  \* the limiters and, for each thread, its call and its file
  mmaps, fds,   \* acquires_allowed_ of mmap_limiter_ and fd_limiter_
  call,         \* where the thread is in its call
  kind,         \* its file: "none", "mmap", "fd" or "reopen"
  \* the lock file
  owner,        \* the process with the kernel's lock, or 0
  locked,       \* processes whose PosixLockTable has the file
  lk,           \* where each caller is; "held" is having a FileLock
  \* the background thread
  queue,        \* background_work_queue_
  bg,           \* "none", "start", "waiting", "signalled" or "running"
  scheduled, ran, \* history: items scheduled, items begun
  \* a PosixWritableFile; its bytes are numbered as they are appended
  buf, written, \* buf_ and what write() took
  appended,     \* history: bytes handed to Append
  failed        \* history: some call returned an error

limits == <<mmaps, fds, call, kind>>
locks  == <<owner, locked, lk>>
work   == <<queue, bg, scheduled, ran>>
file   == <<buf, written, appended, failed>>
envVars == <<object, limits, locks, work, file>>

EnvInit ==
  /\ object = "none"
  /\ mmaps = MaxMmaps /\ fds = MaxOpenFiles
  /\ call = [t \in Threads |-> "idle"] /\ kind = [t \in Threads |-> "none"]
  /\ owner = 0 /\ locked = {} /\ lk = [c \in Procs \X Callers |-> "idle"]
  /\ queue = << >> /\ bg = "none" /\ scheduled = 0 /\ ran = << >>
  /\ buf = << >> /\ written = << >> /\ appended = 0 /\ failed = FALSE

-----------------------------------------------------------------------------
(* NewRandomAccessFile and the files it makes. Acquire is two operations   *)
(* on an atomic counter when it fails; so is what comes between them.      *)

To(t, pc) == call' = [call EXCEPT ![t] = pc]
Becomes(t, k) == kind' = [kind EXCEPT ![t] = k]

(* Acquire: fetch_sub, and fetch_add again when nothing was left.          *)
AcquireMmap(t) ==
  /\ call[t] = "idle" /\ kind[t] = "none"
  /\ mmaps' = mmaps - 1
  /\ To(t, IF mmaps > 0 THEN "map" ELSE "undo-mmap")
  /\ UNCHANGED <<fds, kind>>

UndoMmap(t) ==
  /\ call[t] = "undo-mmap"
  /\ mmaps' = mmaps + 1
  /\ To(t, "no-mmap")
  /\ UNCHANGED <<fds, kind>>

(* The constructor of PosixRandomAccessFile.                               *)
AcquireFd(t) ==
  /\ call[t] = "no-mmap"
  /\ fds' = fds - 1
  /\ \/ fds > 0 /\ To(t, "idle") /\ Becomes(t, "fd")
     \/ fds <= 0 /\ To(t, "undo-fd") /\ UNCHANGED kind
  /\ UNCHANGED mmaps

UndoFd(t) ==
  /\ call[t] = "undo-fd"
  /\ fds' = fds + 1
  /\ To(t, "idle") /\ Becomes(t, "reopen")
  /\ UNCHANGED mmaps

Map(t) ==
  /\ call[t] = "map"
  /\ To(t, "idle") /\ Becomes(t, "mmap")
  /\ UNCHANGED <<mmaps, fds>>

(* GetFileSize or mmap fails.                                              *)
MapFails(t) ==
  /\ call[t] = "map"
  /\ mmaps' = mmaps + 1
  /\ To(t, "idle")
  /\ UNCHANGED <<fds, kind>>

(* The destructors: the region or the descriptor goes, then Release.       *)
Destroy(t) ==
  /\ call[t] = "idle" /\ kind[t] # "none"
  /\ Becomes(t, "none")
  /\ To(t, CASE kind[t] = "mmap" -> "release-mmap"
             [] kind[t] = "fd" -> "release-fd"
             [] OTHER -> "idle")
  /\ UNCHANGED <<mmaps, fds>>

Release(t) ==
  /\ \/ call[t] = "release-mmap" /\ mmaps' = mmaps + 1 /\ UNCHANGED fds
     \/ call[t] = "release-fd" /\ fds' = fds + 1 /\ UNCHANGED mmaps
  /\ To(t, "idle")
  /\ UNCHANGED kind

LimitsNext ==
  \E t \in Threads : \/ AcquireMmap(t) \/ UndoMmap(t) \/ AcquireFd(t)
                     \/ UndoFd(t) \/ Map(t) \/ MapFails(t)
                     \/ Destroy(t) \/ Release(t)

-----------------------------------------------------------------------------
(* LockFile and UnlockFile, on one file. fcntl locks belong to a process:  *)
(* closing any descriptor of the file gives up the lock of the process.    *)

Goes(c, pc) == lk' = [lk EXCEPT ![c] = pc]
Dropped(p) == IF owner = p THEN 0 ELSE owner      \* external: close()

OpenLock(c) ==
  /\ lk[c] = "idle"
  /\ Goes(c, "opened")
  /\ UNCHANGED <<owner, locked>>

InsertLock(c) ==
  /\ lk[c] = "opened"
  /\ \/ /\ c[1] \notin locked
        /\ locked' = locked \cup {c[1]}
        /\ Goes(c, "inserted")
        /\ UNCHANGED owner
     \/ /\ c[1] \in locked            \* "already held by process"
        /\ owner' = Dropped(c[1])
        /\ Goes(c, "idle")
        /\ UNCHANGED locked

SetLock(c) ==
  /\ lk[c] = "inserted"
  /\ \/ /\ owner \in {0, c[1]}
        /\ owner' = c[1]
        /\ Goes(c, "held")
     \/ /\ owner \notin {0, c[1]}     \* the close here has nothing to drop
        /\ Goes(c, "remove")
        /\ UNCHANGED owner
  /\ UNCHANGED locked

RemoveLock(c) ==
  /\ lk[c] \in {"remove", "unlocked"}
  /\ locked' = locked \ {c[1]}
  /\ Goes(c, IF lk[c] = "remove" THEN "idle" ELSE "close")
  /\ UNCHANGED owner

Unlock(c) ==
  /\ lk[c] = "held"
  /\ owner' = Dropped(c[1])
  /\ Goes(c, "unlocked")
  /\ UNCHANGED locked

CloseLock(c) ==
  /\ lk[c] = "close"
  /\ owner' = Dropped(c[1])
  /\ Goes(c, "idle")
  /\ UNCHANGED locked

LocksNext ==
  \E c \in Procs \X Callers : \/ OpenLock(c) \/ InsertLock(c) \/ SetLock(c)
                              \/ RemoveLock(c) \/ Unlock(c) \/ CloseLock(c)

-----------------------------------------------------------------------------
(* Schedule and BackgroundThreadMain.                                      *)

SignalNever(b) == b
Signalled(b) == IF b = "waiting" THEN "signalled" ELSE b

Schedule ==
  /\ scheduled < MaxWork
  /\ scheduled' = scheduled + 1
  /\ queue' = Append(queue, scheduled + 1)
  /\ bg' = IF bg = "none" THEN "start"
           ELSE IF queue = << >> THEN Signalled(bg) ELSE bg
  /\ UNCHANGED ran

(* The thread has the mutex at the head of its loop: after it started, was *)
(* woken, or has run an item.                                              *)
Loops == bg \in {"start", "signalled", "running"}

Wait ==
  /\ Loops /\ queue = << >>
  /\ bg' = "waiting"
  /\ UNCHANGED <<queue, scheduled, ran>>

Run ==
  /\ Loops /\ queue # << >>
  /\ bg' = "running"
  /\ ran' = Append(ran, Head(queue))
  /\ queue' = Tail(queue)
  /\ UNCHANGED scheduled

WorkNext == Schedule \/ Wait \/ Run

-----------------------------------------------------------------------------
(* PosixWritableFile                                                       *)

Min2(a, b) == IF a < b THEN a ELSE b
Bytes(a, n) == [i \in 1 .. n |-> a + i]

(* WriteUnbuffered: all of it, or an error after a part.                   *)
Unbuffered(data, n) == written' = written \o SubSeq(data, 1, n)

(* Append: what fits into the buffer, then the buffer is written, then the *)
(* rest is kept or, when it is large, written too.                         *)
Rest(data) == SubSeq(data, Min2(Len(data), BufferBytes - Len(buf)) + 1, Len(data))
Full(data) == buf \o SubSeq(data, 1, Min2(Len(data), BufferBytes - Len(buf)))

AppendFits(data) ==
  /\ Rest(data) = << >>
  /\ buf' = Full(data)
  /\ UNCHANGED <<written, failed>>

AppendFlushes(data) ==
  /\ Rest(data) # << >> /\ Len(Rest(data)) < BufferBytes
  /\ Unbuffered(Full(data), Len(Full(data)))
  /\ buf' = Rest(data)
  /\ UNCHANGED failed

AppendDirect(data) ==
  /\ Len(Rest(data)) >= BufferBytes
  /\ Unbuffered(Full(data) \o Rest(data), Len(Full(data)) + Len(Rest(data)))
  /\ buf' = << >>
  /\ UNCHANGED failed

AppendFails(data, n) ==
  /\ Rest(data) # << >> /\ n < Len(Full(data))
  /\ Unbuffered(Full(data), n)
  /\ buf' = << >>
  /\ failed' = TRUE

DirectFails(data, n) ==
  /\ Len(Rest(data)) >= BufferBytes /\ n < Len(Rest(data))
  /\ Unbuffered(Full(data) \o Rest(data), Len(Full(data)) + n)
  /\ buf' = << >>
  /\ failed' = TRUE

AppendNext(n) ==
  /\ appended + n <= MaxBytes
  /\ appended' = appended + n
  /\ \/ AppendFits(Bytes(appended, n))
     \/ AppendFlushes(Bytes(appended, n))
     \/ AppendDirect(Bytes(appended, n))
     \/ \E k \in 0 .. MaxBytes : \/ AppendFails(Bytes(appended, n), k)
                                 \/ DirectFails(Bytes(appended, n), k)

(* Flush, and what Sync and Close do to the buffer: it is empty            *)
(* afterwards, also when part of it could not be written.                  *)
Flush ==
  /\ buf # << >>
  /\ \E n \in 0 .. Len(buf) :
       Unbuffered(buf, n) /\ failed' = (failed \/ n < Len(buf))
  /\ buf' = << >>
  /\ UNCHANGED appended

FileNext == (\E n \in Sizes : AppendNext(n)) \/ Flush

-----------------------------------------------------------------------------
Choose ==
  /\ object = "none"
  /\ object' \in {"limits", "locks", "work", "file"}
  /\ UNCHANGED <<limits, locks, work, file>>

EnvNext ==
  \/ Choose
  \/ object = "limits" /\ LimitsNext /\ UNCHANGED <<object, locks, work, file>>
  \/ object = "locks" /\ LocksNext /\ UNCHANGED <<object, limits, work, file>>
  \/ object = "work" /\ WorkNext /\ UNCHANGED <<object, limits, locks, file>>
  \/ object = "file" /\ FileNext /\ UNCHANGED <<object, limits, locks, work>>

EnvSpec == EnvInit /\ [][EnvNext]_envVars

-----------------------------------------------------------------------------
(* Properties.                                                             *)

Using(k) == Cardinality({t \in Threads : kind[t] = k})
Between(pcs) == Cardinality({t \in Threads : call[t] \in pcs})

(* Whatever the threads interleave, and when mapping fails, no more files  *)
(* are mapped or kept open than the limits allow, and nothing acquired is  *)
(* lost (env_posix.cc:66-94, 504-534).                                     *)
LimitsHold ==
  /\ Using("mmap") <= MaxMmaps /\ Using("fd") <= MaxOpenFiles
  /\ mmaps = MaxMmaps - Using("mmap")
               - Between({"map", "undo-mmap", "release-mmap"})
  /\ fds = MaxOpenFiles - Using("fd") - Between({"undo-fd", "release-fd"})

(* Every item is run once, in the order of the calls of Schedule, and the  *)
(* thread is never left asleep on a queue that has work                    *)
(* (env_posix.cc:761-802).                                                 *)
WorkIsRun ==
  /\ ran \o queue = [i \in 1 .. scheduled |-> i]
  /\ queue # << >> => bg \notin {"none", "waiting"}

(* As long as no call has failed, what was appended is in the file and the *)
(* buffer, once and in order; after a failure nothing that was lost comes  *)
(* back, and nothing is there twice (env_posix.cc:262-340).                *)
FileKeepsOrder ==
  /\ ~failed => written \o buf = Bytes(0, appended)
  /\ \A i, j \in DOMAIN (written \o buf) :
       i < j => (written \o buf)[i] < (written \o buf)[j]

(* Threads that share the environment share it safely.                     *)
EnvSound == LimitsHold /\ WorkIsRun /\ FileKeepsOrder

(* include/leveldb/env.h:151, "If somebody else already holds the lock,    *)
(* finishes immediately with a failure": two callers never have the lock   *)
(* of a database at once.                                                  *)
OneHasTheLock == Cardinality({c \in Procs \X Callers : lk[c] = "held"}) <= 1

-----------------------------------------------------------------------------
(* The inductive invariant behind EnvSound.                                *)

(* The threads that, with these files and calls, have a file of kind k or  *)
(* are on the way to or from one.                                          *)
Taken(files, at, k, pcs) ==
  {t \in Threads : files[t] = k \/ at[t] \in pcs}

(* The counter is what is not taken; what is taken and not about to be     *)
(* undone is within the limit.                                             *)
LimitsInv ==
  /\ mmaps \in Int /\ fds \in Int
  /\ call \in [Threads -> {"idle", "map", "undo-mmap", "no-mmap", "undo-fd",
                            "release-mmap", "release-fd"}]
  /\ kind \in [Threads -> {"none", "mmap", "fd", "reopen"}]
  /\ \A t \in Threads : call[t] # "idle" => kind[t] = "none"
  /\ mmaps = MaxMmaps
       - Cardinality(Taken(kind, call, "mmap",
                           {"map", "undo-mmap", "release-mmap"}))
  /\ Cardinality(Taken(kind, call, "mmap", {"map", "release-mmap"}))
       <= MaxMmaps
  /\ fds = MaxOpenFiles
       - Cardinality(Taken(kind, call, "fd", {"undo-fd", "release-fd"}))
  /\ Cardinality(Taken(kind, call, "fd", {"release-fd"})) <= MaxOpenFiles

WorkInv ==
  /\ queue \in Seq(Nat) /\ ran \in Seq(Nat) /\ scheduled \in Nat
  /\ bg \in {"none", "start", "waiting", "signalled", "running"}
  /\ WorkIsRun

FileInv ==
  /\ written \in Seq(Nat) /\ buf \in Seq(Nat) /\ appended \in Nat
  /\ failed \in BOOLEAN
  /\ Len(buf) <= BufferBytes
  /\ \A i \in DOMAIN (written \o buf) : (written \o buf)[i] <= appended
  /\ FileKeepsOrder

EnvInv == LimitsInv /\ WorkInv /\ FileInv

=============================================================================
