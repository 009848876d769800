--------------------------- MODULE DBDurableProofs --------------------------
(***************************************************************************)
(* Proof that LevelDB loses no write that has to be there, whatever        *)
(* crashes, power losses and failing calls come between its steps, and     *)
(* that no two writes ever get the same sequence number.                   *)
(***************************************************************************)
EXTENDS DBImplProofs

-----------------------------------------------------------------------------
(* What is read of a log.                                                  *)

LEMMA PrefixOf ==
  ASSUME NEW recs, recs \in Seq(Range(recs)), NEW k \in 0 .. Len(recs),
         NEW part, part = SubSeq(recs, 1, k)
  PROVE  /\ part \in Seq(Range(part)) /\ Len(part) = k
         /\ \A i \in 1 .. k : part[i] = recs[i]
<1> DEFINE S == Range(recs)
<1>1. Len(recs) \in Nat /\ \A i \in 1 .. k : recs[i] \in S
  BY LenProperties
<1> HIDE DEF S
<1>2. CASE k = 0
  <2>1. part = << >>
    BY <1>2, SubSeqEmpty
  <2>2. part \in Seq(S) /\ Len(part) = 0
    BY <2>1
  <2>3. QED
    BY <1>2, <2>2, SeqOfRange
<1>3. CASE k # 0
  <2>1. /\ part \in Seq(S) /\ Len(part) = k
        /\ \A i \in 1 .. k : part[i] = recs[i]
    BY <1>1, <1>3, SubSeqProperties
  <2>2. QED
    BY <2>1, SeqOfRange
<1>4. QED
  BY <1>2, <1>3

(* The entries of the records before the first torn one.                   *)
LEMMA EntriesAre ==
  ASSUME NEW recs, recs \in Seq(Range(recs)), NEW x
  PROVE  x \in EntriesOf(recs) <=>
           \E i \in 1 .. Len(recs) :
             x \in recs[i] /\ \A j \in 1 .. i : recs[j] # Junk
<1>1. Len(recs) \in Nat /\ DOMAIN recs = 1 .. Len(recs)
  BY LenProperties
<1>2. CASE NoJunk(recs)
  <2>1. Readable(recs) = recs
    BY <1>2, ReadableWhole
  <2>2. \A i \in 1 .. Len(recs) : \A j \in 1 .. i : recs[j] # Junk
    BY <1>1, <1>2 DEF NoJunk
  <2>3. QED
    BY <1>1, <2>1, <2>2 DEF EntriesOf, Range
<1>3. CASE ~NoJunk(recs)
  <2>1. PICK m \in 1 .. Len(recs) :
           recs[m] = Junk /\ \A i \in 1 .. m - 1 : recs[i] # Junk
    BY <1>3, FirstJunk
  <2>2. PICK part : part = SubSeq(recs, 1, m - 1)
    OBVIOUS
  <2>3. Readable(recs) = part
    BY <2>1, <2>2, ReadableUpTo
  <2>4. m - 1 \in 0 .. Len(recs)
    BY <1>1
  <2>5. /\ part \in Seq(Range(part)) /\ Len(part) = m - 1
        /\ \A i \in 1 .. m - 1 : part[i] = recs[i]
    BY <2>2, <2>4, PrefixOf
  <2>6. DOMAIN part = 1 .. m - 1
    BY <2>5, LenProperties
  <2>7. x \in EntriesOf(recs) <=> \E i \in 1 .. m - 1 : x \in recs[i]
    BY <2>3, <2>5, <2>6 DEF EntriesOf, Range
  <2>8. ASSUME NEW i \in 1 .. m - 1
        PROVE  i \in 1 .. Len(recs) /\ \A j \in 1 .. i : recs[j] # Junk
    BY <1>1, <2>1
  <2>9. ASSUME NEW i \in 1 .. Len(recs), \A j \in 1 .. i : recs[j] # Junk
        PROVE  i \in 1 .. m - 1
    <3>1. ~(m <= i)
      BY <1>1, <2>1, <2>9
    <3>2. QED
      BY <1>1, <3>1
  <2>10. QED
    BY <2>7, <2>8, <2>9
<1>4. QED
  BY <1>2, <1>3

LEMMA EntriesOfPrefix ==
  ASSUME NEW recs, recs \in Seq(Range(recs)), NEW k \in 0 .. Len(recs),
         NEW part, part = SubSeq(recs, 1, k)
  PROVE  /\ EntriesOf(part) \subseteq EntriesOf(recs)
         /\ NoJunk(recs) => NoJunk(part)
         /\ \A m \in 0 .. k : SubSeq(part, 1, m) = SubSeq(recs, 1, m)
<1>1. /\ part \in Seq(Range(part)) /\ Len(part) = k /\ Len(recs) \in Nat
      /\ \A i \in 1 .. k : part[i] = recs[i]
  BY PrefixOf, LenProperties
<1>2. \A i \in 1 .. k : i \in 1 .. Len(recs) /\ \A j \in 1 .. i : j \in 1 .. k
  BY <1>1
<1>3. ASSUME NEW x \in EntriesOf(part) PROVE x \in EntriesOf(recs)
  <2>1. PICK i \in 1 .. k : x \in part[i] /\ \A j \in 1 .. i : part[j] # Junk
    BY <1>1, EntriesAre
  <2>2. x \in recs[i] /\ \A j \in 1 .. i : recs[j] # Junk
    BY <1>1, <1>2, <2>1
  <2>3. QED
    BY <1>2, <2>2, EntriesAre
<1>4. NoJunk(recs) => NoJunk(part)
  BY <1>1, <1>2 DEF NoJunk
<1>5. ASSUME NEW m \in 0 .. k PROVE SubSeq(part, 1, m) = SubSeq(recs, 1, m)
  <2>1. PICK p, q : p = SubSeq(part, 1, m) /\ q = SubSeq(recs, 1, m)
    OBVIOUS
  <2>2. m \in 0 .. Len(recs) /\ m \in 0 .. Len(part)
    BY <1>1
  <2>3. /\ p \in Seq(Range(p)) /\ Len(p) = m /\ \A i \in 1 .. m : p[i] = part[i]
    <3>1. part \in Seq(Range(part)) /\ m \in 0 .. Len(part) /\ p = SubSeq(part, 1, m)
      BY <1>1, <2>1, <2>2
    <3>2. QED
      BY <3>1, PrefixOf, Zenon
  <2>4. /\ q \in Seq(Range(q)) /\ Len(q) = m /\ \A i \in 1 .. m : q[i] = recs[i]
    BY <2>1, <2>2, PrefixOf
  <2>5. \A i \in 1 .. m : p[i] = q[i]
    BY <1>1, <2>3, <2>4
  <2>6. p = q
    <3>1. PICK S : S = Range(p) \cup Range(q)
      OBVIOUS
    <3>2. p \in Seq(S) /\ q \in Seq(S)
      BY <2>3, <2>4, <3>1, SeqMonotonic
    <3>3. QED
      BY <2>3, <2>4, <2>5, <3>2, SeqEqual
  <2>7. QED
    BY <2>1, <2>6
<1>6. QED
  BY <1>3, <1>4, <1>5

LEMMA EntriesAppended ==
  ASSUME NEW recs, recs \in Seq(Range(recs)), NEW x, NEW more,
         more = Append(recs, x)
  PROVE  /\ EntriesOf(recs) \subseteq EntriesOf(more)
         /\ EntriesOf(more) \subseteq EntriesOf(recs) \cup x
         /\ NoJunk(recs) /\ x # Junk => NoJunk(more) /\ x \subseteq EntriesOf(more)
<1>1. /\ more \in Seq(Range(more)) /\ Len(more) = Len(recs) + 1
      /\ Len(recs) \in Nat
      /\ NoJunk(recs) /\ x # Junk => NoJunk(more)
  BY ReadableAppend, LenProperties
<1>2. more[Len(recs) + 1] = x /\ \A i \in 1 .. Len(recs) : more[i] = recs[i]
  <2>1. recs \in Seq(Range(recs) \cup {x}) /\ x \in Range(recs) \cup {x}
    BY SeqMonotonic
  <2>2. QED
    BY <2>1, AppendProperties
<1>3. ASSUME NEW y \in EntriesOf(recs) PROVE y \in EntriesOf(more)
  <2>1. PICK i \in 1 .. Len(recs) : y \in recs[i] /\ \A j \in 1 .. i : recs[j] # Junk
    BY EntriesAre
  <2>2. /\ i \in 1 .. Len(more) /\ y \in more[i]
        /\ \A j \in 1 .. i : more[j] # Junk
    BY <1>1, <1>2, <2>1
  <2>3. QED
    BY <1>1, <2>2, EntriesAre
<1>4. ASSUME NEW y \in EntriesOf(more) PROVE y \in EntriesOf(recs) \cup x
  <2>1. PICK i \in 1 .. Len(more) : y \in more[i] /\ \A j \in 1 .. i : more[j] # Junk
    BY <1>1, EntriesAre
  <2>2. CASE i = Len(recs) + 1
    BY <1>2, <2>1, <2>2
  <2>3. CASE i # Len(recs) + 1
    <3>1. i \in 1 .. Len(recs) /\ y \in recs[i]
      BY <1>1, <1>2, <2>1, <2>3
    <3>2. \A j \in 1 .. i : recs[j] # Junk
      BY <1>1, <1>2, <2>1, <3>1
    <3>3. QED
      BY <3>1, <3>2, EntriesAre
  <2>4. QED
    BY <2>2, <2>3
<1>5. ASSUME NoJunk(recs), x # Junk, NEW y \in x PROVE y \in EntriesOf(more)
  <2>1. Readable(more) = more
    BY <1>1, <1>5, ReadableWhole
  <2>2. x \in Range(more)
    <3>1. DOMAIN more = 1 .. Len(recs) + 1 /\ Len(recs) + 1 \in 1 .. Len(recs) + 1
      BY <1>1, LenProperties
    <3>2. QED
      BY <1>2, <3>1 DEF Range
  <2>3. QED
    BY <1>5, <2>1, <2>2 DEF EntriesOf
<1>6. QED
  BY <1>1, <1>3, <1>4, <1>5

-----------------------------------------------------------------------------
(* The group of writers.                                                   *)

Busy == queue # << >> /\ wr[Leader].pc \in {"append", "sync", "insert"}

(* A group that is being written was so before, and is the same.           *)
GroupGoesOn ==
  Busy' =>
    /\ Busy /\ Leader' = Leader /\ Len(queue) <= Len(queue')
    /\ wr'[Leader].group = wr[Leader].group
    /\ \A k \in 1 .. Len(queue) :
         /\ queue'[k] = queue[k] /\ wr'[queue[k]].null = wr[queue[k]].null
         /\ wr'[queue[k]].sync = wr[queue[k]].sync
SamePlace == Busy' => wr'[Leader].pc = wr[Leader].pc

LEMMA GroupWoken ==
  ASSUME QueueInv, queue' = queue, Woken(wr')
  PROVE  GroupGoesOn /\ SamePlace
<1> SUFFICES ASSUME Busy' PROVE GroupGoesOn /\ SamePlace
  BY DEF GroupGoesOn, SamePlace
<1>1. /\ queue # << >> /\ Leader = queue[1] /\ Leader' = Leader
      /\ Len(queue) \in Nat /\ \A k \in 1 .. Len(queue) : queue[k] \in Writes
      /\ 1 \in 1 .. Len(queue)
  BY DEF Busy, Leader, QueueInv
<1>2. wr'[queue[1]].pc \in {"append", "sync", "insert"}
  BY <1>1 DEF Busy
<1>3. wr'[queue[1]] = wr[queue[1]]
  BY <1>1, <1>2 DEF Woken
<1>4. ASSUME NEW k \in 1 .. Len(queue) PROVE wr'[queue[k]] = wr[queue[k]]
  <2>1. CASE k = 1
    BY <1>3, <2>1
  <2>2. CASE k # 1
    <3>1. k \in 2 .. Len(queue) /\ queue[k] \in Writes
      BY <1>1, <2>2
    <3>2. wr[queue[k]].pc = "queued"
      BY <3>1 DEF QueueInv
    <3>3. QED
      BY <3>1, <3>2 DEF Woken
  <2>3. QED
    BY <2>1, <2>2
<1>5. QED
  BY <1>1, <1>2, <1>3, <1>4 DEF GroupGoesOn, SamePlace, Busy

LEMMA GroupReturns ==
  ASSUME QueueInv, NEW n \in Nat, NEW w, Woken(w), Return(w, n)
  PROVE  ~Busy'
<1>1. QueueInv' /\ (queue' # << >> => wr'[queue'[1]].pc = "room")
  BY QueueShortened
<1>2. queue' # << >> => Leader' = queue'[1]
  BY <1>1 DEF QueueInv, Leader
<1>3. QED
  BY <1>1, <1>2 DEF Busy

(* The group that the first writer takes with it.                          *)
GroupBegins ==
  /\ MakeRoomForWrite /\ queue' = queue /\ queue # << >> /\ ~wr[Leader].null
  /\ logs' = logs /\ mem' = mem /\ imm' = imm
  /\ wr' = [wr EXCEPT ![Leader].pc = "append", ![Leader].group = GroupSize]

LEMMA GroupWriting ==
  ASSUME QueueInv, Writing
  PROVE  \/ GroupGoesOn /\ (SamePlace \/ AppendRecord \/ SyncLog)
         \/ GroupBegins
<1>0. /\ queue # << >> /\ Leader = queue[1] /\ queue[1] \in Writes
      /\ wr[queue[1]] \in Writer /\ wr \in [Writes -> Writer]
  <2>1. queue # << >>
    BY DEF Writing, MakeRoomForWrite, AppendRecord, SyncLog, InsertInto, NoLog,
       AppendFails, SyncFails, At
  <2>2. QED
    BY <2>1 DEF QueueInv, Leader
<1>1. wr[Leader].group \in Nat /\ 1 \in Nat
  BY <1>0 DEF Writer
<1>2. ~Busy' => GroupGoesOn /\ SamePlace
  BY DEF GroupGoesOn, SamePlace
<1>3. CASE InsertInto \/ AppendFails \/ SyncFails \/ NoLog
  <2>1. \/ Return(wr, wr[Leader].group) \/ Return(wr, 1)
        \/ Return(Alarmed(wr), wr[Leader].group)
    BY <1>3 DEF InsertInto, AppendFails, SyncFails, NoLog
  <2>2. ~Busy'
    BY <1>1, <2>1, WokenForms, GroupReturns
  <2>3. QED
    BY <1>2, <2>2
<1>4. CASE AppendRecord \/ SyncLog
  <2>1. /\ queue' = queue /\ wr[Leader].pc \in {"append", "sync"}
        /\ \E pc \in {"sync", "insert"} : wr' = [wr EXCEPT ![Leader].pc = pc]
    BY <1>4 DEF AppendRecord, SyncLog, Wr, At
  <2>2. \A i \in Writes : /\ wr'[i].null = wr[i].null /\ wr'[i].sync = wr[i].sync
                          /\ wr'[i].group = wr[i].group
    BY <1>0, <2>1 DEF Writer
  <2>3. Leader' = Leader /\ \A k \in 1 .. Len(queue) : queue[k] \in Writes
    BY <2>1 DEF Leader, QueueInv
  <2>4. Len(queue) <= Len(queue')
    BY <2>1 DEF QueueInv
  <2>5. GroupGoesOn
    BY <1>0, <2>1, <2>2, <2>3, <2>4 DEF GroupGoesOn, Busy
  <2>6. QED
    BY <1>4, <2>5
<1>5. CASE MakeRoomForWrite
  <2>1. CASE Return(wr, 1)
    BY <1>1, <1>2, <2>1, WokenForms, GroupReturns
  <2>2. CASE wr' = Wr(Leader, "wait") /\ queue' = queue
    <3>1. wr'[Leader].pc = "wait"
      BY <1>0, <2>2 DEF Wr, Writer
    <3>2. Leader' = Leader
      BY <2>2 DEF Leader
    <3>3. QED
      BY <1>2, <3>1, <3>2 DEF Busy
  <2>3. CASE /\ wr' = [wr EXCEPT ![Leader].force = FALSE] /\ queue' = queue
             /\ wr[Leader].pc = "room"
    <3>1. wr'[Leader].pc = "room"
      BY <1>0, <2>3 DEF Writer
    <3>2. Leader' = Leader
      BY <2>3 DEF Leader
    <3>3. QED
      BY <1>2, <3>1, <3>2 DEF Busy
  <2>4. CASE GroupBegins
    BY <2>4
  <2>5. QED
    BY <1>0, <1>5, <2>1, <2>2, <2>3, <2>4 DEF MakeRoomForWrite, GroupBegins
<1>6. QED
  BY <1>3, <1>4, <1>5 DEF Writing

LEMMA GroupJoined ==
  ASSUME QueueInv, NEW i \in Writes, NEW sync \in BOOLEAN, NEW null \in BOOLEAN,
         Enqueue(i, sync, null)
  PROVE  GroupGoesOn /\ SamePlace
<1> SUFFICES ASSUME Busy' PROVE GroupGoesOn /\ SamePlace
  BY DEF GroupGoesOn, SamePlace
<1>1. /\ queue' = Append(queue, i) /\ wr[i].pc = "new"
      /\ wr' = [wr EXCEPT ![i] =
              [pc |-> IF queue = << >> THEN "room" ELSE "queued",
               sync |-> sync, null |-> null, force |-> null, group |-> 0]]
  BY DEF Enqueue
<1>2. /\ queue \in Seq(Writes) /\ wr \in [Writes -> Writer] /\ Len(queue) \in Nat
      /\ Len(queue') = Len(queue) + 1
      /\ \A k \in 1 .. Len(queue) : queue'[k] = queue[k] /\ queue[k] \in Writes
      /\ queue'[Len(queue) + 1] = i
  BY <1>1, AppendProperties DEF QueueInv
<1>3. \A k \in 1 .. Len(queue) : queue[k] # i
  <2>1. \A k \in 1 .. Len(queue) : wr[queue[k]].pc # "new"
    BY <1>2 DEF QueueInv, AtFront
  <2>2. QED
    BY <1>1, <2>1
<1>4. \A k \in 1 .. Len(queue) : wr'[queue[k]] = wr[queue[k]]
  BY <1>1, <1>2, <1>3
<1>5. Leader' = queue'[1]
  BY <1>2 DEF Leader, Busy
<1>6. queue # << >>
  <2>1. SUFFICES ASSUME queue = << >> PROVE FALSE
    OBVIOUS
  <2>2. Len(queue) = 0
    BY <2>1
  <2>3. Leader' = i
    BY <1>2, <1>5, <2>2
  <2>4. wr'[i].pc = "room"
    BY <1>1, <1>2, <2>1
  <2>5. QED
    BY <2>3, <2>4 DEF Busy
<1>7. Leader = queue[1] /\ 1 \in 1 .. Len(queue) /\ Len(queue) <= Len(queue')
  BY <1>2, <1>6 DEF Leader
<1>8. QED
  BY <1>2, <1>4, <1>5, <1>6, <1>7 DEF GroupGoesOn, SamePlace, Busy

(* A group goes on in every step, unless it begins.                        *)
LEMMA GroupNext ==
  ASSUME QueueInv, [Next]_vars
  PROVE  \/ GroupGoesOn /\ (SamePlace \/ AppendRecord \/ SyncLog)
         \/ GroupBegins
<1>1. CASE Writing
  BY <1>1, GroupWriting
<1>2. CASE \/ Opening \/ FlushBegins \/ CompactionBegins \/ FinishCompaction
           \/ OpenCompactionOutputFile \/ LogEdit
           \/ NewIterator \/ DeleteIterator \/ Close \/ UNCHANGED vars
  BY <1>2, QueueUntouched, WokenForms, GroupWoken
<1>3. CASE Ending
  BY <1>3, EndingWakes, GroupWoken
<1>4. CASE \E i \in Writes, sync, null \in BOOLEAN : Enqueue(i, sync, null)
  BY <1>4, GroupJoined
<1>5. CASE Leaving
  <2>1. queue' = << >>
    BY <1>5 DEF Leaving, Closed, Crash, PowerLoss, OpenFails, Gone
  <2>2. QED
    BY <2>1 DEF GroupGoesOn, SamePlace, Busy
<1>6. QED
  <2>1. FALSE \in BOOLEAN /\ TRUE \in BOOLEAN
    OBVIOUS
  <2>2. QED
    BY <1>1, <1>2, <1>3, <1>4, <1>5, <2>1
       DEF Next, Background, Ending, Leaving

LEMMA GroupStays ==
  ASSUME QueueInv, GroupInv, GroupGoesOn, Busy'
  PROVE  /\ Batches' = Batches /\ \A k \in Batches : queue'[k] = queue[k]
         /\ Batches \subseteq 1 .. Len(queue) /\ Len(queue) \in Nat
         /\ lastSeq' = lastSeq => GroupEntries' = GroupEntries
<1>1. Len(queue) \in Nat
  BY DEF QueueInv
<1>2. /\ wr[Leader].group \in 1 .. Len(queue) /\ wr'[Leader'].group = wr[Leader].group
      /\ \A k \in 1 .. Len(queue) :
         /\ queue'[k] = queue[k] /\ wr'[queue[k]].null = wr[queue[k]].null
  BY DEF GroupInv, GroupGoesOn, Busy
<1>3. \A k \in 1 .. wr[Leader].group : k \in 1 .. Len(queue)
  BY <1>1, <1>2
<1>4. Batches' = Batches
  BY <1>2, <1>3 DEF Batches
<1>5. Batches \subseteq 1 .. Len(queue)
  BY <1>3 DEF Batches
<1>6. \A k \in Batches : queue'[k] = queue[k]
  BY <1>2, <1>5
<1>7. lastSeq' = lastSeq => GroupEntries' = GroupEntries
  BY <1>4, <1>6 DEF GroupEntries
<1>8. QED
  BY <1>1, <1>4, <1>5, <1>6, <1>7

LEMMA GroupStep ==
  ASSUME QueueInv, GroupInv, [Next]_vars
  PROVE  GroupInv'
<1> SUFFICES ASSUME Busy' PROVE GroupInv'
  BY DEF GroupInv, Busy
<1>0. QueueInv'
  BY QueueStep
<1>1. CASE GroupGoesOn
  <2>1. /\ Leader' = Leader /\ wr'[Leader].group = wr[Leader].group
        /\ wr[Leader].group \in 1 .. Len(queue) /\ ~wr[Leader].null
        /\ \A k \in 2 .. wr[Leader].group : wr[queue[k]].sync => wr[Leader].sync
        /\ queue # << >> /\ Len(queue) <= Len(queue')
        /\ \A k \in 1 .. Len(queue) :
             /\ queue'[k] = queue[k] /\ wr'[queue[k]].null = wr[queue[k]].null
             /\ wr'[queue[k]].sync = wr[queue[k]].sync
    BY <1>1 DEF GroupGoesOn, GroupInv, Busy
  <2>2. /\ Leader = queue[1] /\ Len(queue) \in Nat /\ 1 \in 1 .. Len(queue)
        /\ Len(queue') \in Nat
    BY <1>0, <2>1 DEF QueueInv, Leader
  <2>3. \A k \in 2 .. wr[Leader].group : k \in 1 .. Len(queue)
    BY <2>1, <2>2
  <2>4. wr[Leader].group \in 1 .. Len(queue')
    BY <2>1, <2>2
  <2>5. QED
    BY <2>1, <2>2, <2>3, <2>4 DEF GroupInv
<1>2. CASE GroupBegins
  <2>1. /\ queue # << >> /\ queue' = queue /\ ~wr[Leader].null
        /\ wr' = [wr EXCEPT ![Leader].pc = "append", ![Leader].group = GroupSize]
    BY <1>2 DEF GroupBegins
  <2>2. /\ Leader' = Leader /\ Leader \in Writes /\ wr \in [Writes -> Writer]
        /\ \A k \in 1 .. Len(queue) : queue[k] \in Writes
        /\ Len(queue) \in Nat
    BY <2>1 DEF QueueInv, Leader
  <2>3. /\ GroupSize \in 1 .. Len(queue)
        /\ \A k \in 2 .. GroupSize : SyncFits(wr[Leader], wr[queue[k]])
    BY <2>1, GroupIsNumber
  <2>4. PICK g : g = GroupSize
    OBVIOUS
  <2>5. PICK x \in Writer : x = wr[Leader]
    BY <2>2
  <2>6. [x EXCEPT !.pc = "append", !.group = g].group = g
    BY DEF Writer
  <2>7. /\ wr'[Leader] = [x EXCEPT !.pc = "append", !.group = g]
        /\ \A i \in Writes : i # Leader => wr'[i] = wr[i]
    BY <2>1, <2>2, <2>4, <2>5
  <2>8. /\ wr'[Leader].null = wr[Leader].null /\ wr'[Leader].sync = wr[Leader].sync
    BY <2>5, <2>7 DEF Writer
  <2>9. \A i \in Writes : wr'[i].sync = wr[i].sync
    BY <2>2, <2>7, <2>8
  <2>10. \A k \in 2 .. GroupSize : queue[k] \in Writes
    BY <2>2, <2>3
  <2>11. QED
    BY <2>1, <2>2, <2>3, <2>4, <2>6, <2>7, <2>8, <2>9, <2>10 DEF GroupInv, SyncFits
<1>3. QED
  BY <1>1, <1>2, GroupNext

-----------------------------------------------------------------------------
(* Tables keep their entries as long as a version names them.              *)

ContentsStay == \A n : ~Unused(n) => Contents(n)' = Contents(n)

LEMMA ContentsPut ==
  ASSUME NEW n, Unused(n), NEW x,
         \/ tables' = Put(tables, n, x) \/ tables' = Without(tables, {n})
         \/ tables' = tables
  PROVE  ContentsStay
<1> SUFFICES ASSUME NEW k, ~Unused(k) PROVE Contents(k)' = Contents(k)
  BY DEF ContentsStay
<1>1. k # n
  OBVIOUS
<1>2. CASE tables' = Put(tables, n, x)
  BY <1>1, <1>2 DEF Contents, Put
<1>3. CASE tables' = Without(tables, {n})
  BY <1>1, <1>3 DEF Contents, Without, Restrict
<1>4. CASE tables' = tables
  BY <1>4 DEF Contents
<1>5. QED
  BY <1>2, <1>3, <1>4

LEMMA ContentsKept ==
  ASSUME ContentsStay, NEW n, ~Unused(n)
  PROVE  Kept(tables, tables', n)
<1>1. Contents(n)' = Contents(n)
  BY DEF ContentsStay
<1>2. SUFFICES ASSUME n \in DOMAIN tables, tables[n] # {}
               PROVE  n \in DOMAIN tables' /\ tables'[n] # {}
  BY DEF Kept, Partial
<1>3. Contents(n) = tables[n] /\ Contents(n) # {}
  BY <1>2 DEF Contents
<1>4. QED
  BY <1>1, <1>3 DEF Contents

(* The steps of the open database that change no version.                  *)
Quiet == \/ Simple \/ FlushBegins \/ FlushFails \/ CompactionBegins
         \/ \E l \in {0, 1} : FlushBuilt(l)
         \/ OpenCompactionOutputFile \/ FinishCompaction
         \/ NothingToDo \/ CompactionFails

LEMMA QuietStays ==
  ASSUME TableInv, OutputInv, phase = "open", Quiet
  PROVE  VersionsStay /\ ContentsStay /\ manifests' = manifests
<1>1. /\ phase' = phase /\ current' = current /\ version' = version
      /\ manifests' = manifests /\ manifestNum' = manifestNum
  BY DEF Quiet, Simple, NewIterator, DeleteIterator, Close, Enqueue, Writing,
     MakeRoomForWrite, AppendRecord, SyncLog, InsertInto, NoLog, AppendFails,
     SyncFails, FlushBegins, FlushFails, CompactionBegins, FlushBuilt,
     OpenCompactionOutputFile, FinishCompaction, NothingToDo, CompactionFails,
     disk, control, numbers, data, history
<1>2. nextFile' = nextFile \/ nextFile' = nextFile + 1
  BY DEF Quiet, Simple, NewIterator, DeleteIterator, Close, Enqueue, Writing,
     MakeRoomForWrite, AppendRecord, SyncLog, InsertInto, NoLog, AppendFails,
     SyncFails, FlushBegins, FlushFails, CompactionBegins, FlushBuilt,
     OpenCompactionOutputFile, FinishCompaction, NothingToDo, CompactionFails,
     disk, control, numbers, data, history
<1>3. nextFile' \in Nat /\ nextFile <= nextFile'
  BY <1>2, WhileOpen
<1>4. \A h \in held' : h \in held \/ h = version
  <2>1. CASE NewIterator \/ DeleteIterator
    BY <2>1 DEF NewIterator, DeleteIterator
  <2>2. CASE ~(NewIterator \/ DeleteIterator)
    <3>1. held' = held
      BY <2>2 DEF Quiet, Simple, Close, Enqueue, Writing,
         MakeRoomForWrite, AppendRecord, SyncLog, InsertInto, NoLog, AppendFails,
         SyncFails, FlushBegins, FlushFails, CompactionBegins, FlushBuilt,
         OpenCompactionOutputFile, FinishCompaction, NothingToDo, CompactionFails,
         data
    <3>2. QED
      BY <3>1
  <2>3. QED
    BY <2>1, <2>2
<1>5. ContentsStay
  <2>1. CASE tables' = tables
    BY <2>1 DEF ContentsStay, Contents
  <2>2. CASE FlushBegins \/ OpenCompactionOutputFile
    <3>1. Unused(nextFile)
      BY NextIsUnused
    <3>2. tables' = tables \/ tables' = Put(tables, nextFile, Partial)
      BY <2>2 DEF FlushBegins, OpenCompactionOutputFile
    <3>3. QED
      BY <3>1, <3>2, ContentsPut
  <2>3. CASE FlushFails \/ \E l \in {0, 1} : FlushBuilt(l)
    <3>1. bg.pc = "flush"
      BY <2>3 DEF FlushFails, FlushBuilt
    <3>2. Unused(bg.num)
      BY <3>1 DEF TableInv, BuildInv
    <3>3. \/ tables' = tables \/ tables' = Without(tables, {bg.num})
          \/ tables' = Put(tables, bg.num, imm[1])
      BY <2>3 DEF FlushFails, FlushBuilt
    <3>4. QED
      BY <3>2, <3>3, ContentsPut
  <2>4. CASE FinishCompaction
    <3>1. \A n \in bg.comp.out : Unused(n)
      BY <2>4 DEF FinishCompaction, OutputInv
    <3>2. PICK all : tables' = [n \in DOMAIN tables |->
                       IF n \in bg.comp.out THEN all ELSE tables[n]]
      BY <2>4 DEF FinishCompaction
    <3>3. QED
      BY <3>1, <3>2 DEF ContentsStay, Contents
  <2>5. QED
    BY <2>1, <2>2, <2>3, <2>4
       DEF Quiet, Simple, NewIterator, DeleteIterator, Close, Enqueue, Writing,
     MakeRoomForWrite, AppendRecord, SyncLog, InsertInto, NoLog, AppendFails,
     SyncFails, CompactionBegins, NothingToDo, CompactionFails, disk
<1>6. QED
  BY <1>1, <1>3, <1>4, <1>5, ContentsKept DEF VersionsStay

-----------------------------------------------------------------------------
(* The outputs of a compaction.                                            *)

LEMMA OutputsQuiet ==
  ASSUME TableInv, OutputInv, phase = "open", Quiet
  PROVE  OutputInv'
<1>0. VersionsStay /\ Locals(bg) /\ (bg.pc = "idle" => bg.comp = None)
  BY QuietStays, WhileOpen DEF TableInv, BuildInv
<1>1. ASSUME bg'.comp.out \subseteq bg.comp.out, bg'.comp.base = bg.comp.base,
             \/ bg.pc \in {"idle", "compact", "flush"}
             \/ bg.pc \in {"log", "sync"} /\ bg.kind = "flush",
             bg'.pc \in {"log", "sync"} =>
               \A n \in bg.comp.out : n \notin Nums(bg'.edit.add)
      PROVE  OutputInv'
  <2>1. \A n \in bg.comp.out : Unused(n)
    BY <1>0, <1>1 DEF OutputInv, None
  <2>2. \A n \in bg.comp.out : Unused(n)'
    BY <1>0, <1>1, <2>1, UnusedStays
  <2>3. QED
    BY <1>1, <2>2 DEF OutputInv
<1>2. CASE bg' = bg
  <2>1. \A n : Unused(n) => Unused(n)'
    BY <1>0, <1>2, UnusedStays
  <2>2. QED
    BY <1>2, <2>1 DEF OutputInv
<1>3. CASE FlushBegins
  <2>1. /\ bg'.pc = "flush" /\ bg'.comp = bg.comp
        /\ bg.pc \in {"idle", "compact"}
    BY <1>0, <1>3 DEF FlushBegins, Locals, MayWork
  <2>2. QED
    BY <1>1, <2>1
<1>4. CASE FlushFails \/ \E l \in {0, 1} : FlushBuilt(l)
  <2>1. bg.pc = "flush"
    BY <1>4 DEF FlushFails, FlushBuilt
  <2>2. CASE Fail
    <3>1. \/ bg'.pc = "idle" /\ bg'.comp = None
          \/ bg'.pc = "compact" /\ bg'.comp = bg.comp
      BY <2>2, BuildEnds DEF Fail
    <3>2. bg'.pc = "idle" => OutputInv'
      BY DEF OutputInv
    <3>3. QED
      BY <1>1, <2>1, <3>1, <3>2
  <2>3. CASE ~Fail
    <3>1. PICK l, add :
            /\ l \in {0, 1} /\ add = IF imm[1] = {} THEN {} ELSE {<<bg.num, l>>}
            /\ bg' = [bg EXCEPT !.pc = "log", !.edit = Edit(add, {}, logNum)]
      BY <1>4, <2>3 DEF FlushFails, FlushBuilt
    <3>2. bg'.pc = "log" /\ bg'.comp = bg.comp /\ bg'.edit.add = add
      BY <1>0, <3>1 DEF Locals, Edit
    <3>3. bg.num \notin bg.comp.out
      BY <2>1 DEF TableInv, BuildInv
    <3>4. \A n \in bg.comp.out : n \notin Nums(add)
      <4>1. \A n \in Nums(add) : n = bg.num
        BY <3>1 DEF Nums
      <4>2. QED
        BY <3>3, <4>1
    <3>5. QED
      BY <1>1, <2>1, <3>2, <3>4
  <2>4. QED
    BY <2>2, <2>3
<1>5. CASE CompactionBegins
  <2>1. bg.comp.out = {}
    BY <1>0, <1>5 DEF CompactionBegins, MayWork, None
  <2>c. PICK S, T :
          \/ bg' = [bg EXCEPT !.pc = "compact",
                     !.comp = [in |-> S \cup T, out |-> {}, base |-> version]]
          \/ bg' = [bg EXCEPT !.pc = "log", !.kind = "move",
                 !.edit = Edit({<<t[1], 1>> : t \in S}, S, minLog)]
    BY <1>5 DEF CompactionBegins
  <2>2. bg'.comp.out = {}
    <3>1. CASE bg' = [bg EXCEPT !.pc = "compact",
                     !.comp = [in |-> S \cup T, out |-> {}, base |-> version]]
      BY <1>0, <3>1 DEF Locals
    <3>2. CASE bg' = [bg EXCEPT !.pc = "log", !.kind = "move",
                 !.edit = Edit({<<t[1], 1>> : t \in S}, S, minLog)]
      <4>1. bg'.comp = bg.comp
        BY <1>0, <3>2 DEF Locals
      <4>2. QED
        BY <2>1, <4>1
    <3>3. QED
      BY <2>c, <3>1, <3>2
  <2>3. QED
    BY <2>2 DEF OutputInv
<1>6. CASE OpenCompactionOutputFile
  <2>1. /\ bg'.pc = "compact" /\ bg'.comp.out = {nextFile}
        /\ bg'.comp.base = bg.comp.base
    BY <1>0, <1>6 DEF OpenCompactionOutputFile, Locals
  <2>2. PICK n : n = nextFile
    OBVIOUS
  <2>3. Unused(n)
    BY <2>2, NextIsUnused
  <2>4. Unused(n)'
    BY <1>0, <2>1, <2>3, UnusedStays
  <2>5. QED
    BY <2>1, <2>2, <2>4 DEF OutputInv
<1>7. CASE FinishCompaction
  <2>1. bg'.pc = "log" /\ bg'.kind = "merge"
    BY <1>0, <1>7 DEF FinishCompaction, Locals
  <2>2. QED
    BY <2>1 DEF OutputInv
<1>8. CASE NothingToDo \/ CompactionFails
  <2>1. bg' = Idle
    BY <1>8 DEF NothingToDo, CompactionFails, BackgroundCallEnds
  <2>2. bg'.pc = "idle"
    BY <2>1 DEF Idle
  <2>3. QED
    BY <2>2 DEF OutputInv
<1>9. QED
  BY <1>2, <1>3, <1>4, <1>5, <1>6, <1>7, <1>8
     DEF Quiet, Simple, NewIterator, DeleteIterator, Close, Enqueue, Writing,
     MakeRoomForWrite, AppendRecord, SyncLog, InsertInto, NoLog, AppendFails,
     SyncFails

-----------------------------------------------------------------------------
(* What LogAndApply does to the descriptor.                                *)

(* g is the descriptor f with the edit e at its end.                       *)
Extends(f, e, g) ==
  /\ g.recs = Append(f.recs, {e})
  /\ \A recs \in Readings(g) :
       \/ recs \in Readings(f)
       \/ NoJunk(f.recs) /\ recs = g.recs
  /\ Saved(g.recs) = (Saved(f.recs) \ e.del) \cup e.add
  /\ EditOf(Last(g.recs)) = e /\ g.recs # << >>
  /\ NoJunk(f.recs) => NoJunk(g.recs) /\ Readable(g.recs) = g.recs
                       /\ f.recs \in Readings(f) /\ Readable(f.recs) = f.recs
  /\ ~NoJunk(f.recs) => Readable(g.recs) = Readable(f.recs) /\ ~NoJunk(g.recs)

LEMMA DescriptorAppended ==
  ASSUME NEW n, NEW f, GoodFile(n, f), SyncedPart(f), NEW e, NEW g,
         g = Appended(f, {e})
  PROVE  Extends(f, e, g)
<1>1. /\ f.recs \in Seq(Range(f.recs)) /\ Len(f.recs) \in Nat
      /\ DOMAIN f = {"recs", "synced"}
  BY GoodFileHas
<1>2. g.recs = Append(f.recs, {e}) /\ g.synced = f.synced
  BY <1>1 DEF Appended
<1>3. PICK R, M, x : R = f.recs /\ M = g.recs /\ x = {e}
  OBVIOUS
<1>4. R \in Seq(Range(R)) /\ M = Append(R, x) /\ Len(R) \in Nat
  BY <1>1, <1>2, <1>3
<1>5. /\ M \in Seq(Range(M)) /\ Len(M) = Len(R) + 1
      /\ ~NoJunk(R) => Readable(M) = Readable(R)
  BY <1>4, ReadableAppend
<1>6. x # Junk
  BY <1>3 DEF Junk
<1>a. NoJunk(R) => NoJunk(M)
  BY <1>4, <1>6, ReadableAppend
<1>b. NoJunk(R) => Readable(M) = M
  BY <1>5, <1>a, ReadableWhole
<1>7. Readable(R) \in Readings(f) /\ (NoJunk(R) => Readable(R) = R)
  BY <1>3, <1>4, ReadingWhole, ReadableWhole
<1>8. \A recs \in Readings(g) : recs \in Readings(f) \/ recs = Readable(M)
  <2>1. Readings(g) \subseteq Readings(f) \cup {Readable(g.recs)}
    BY <1>2, ReadingsAppended
  <2>2. QED
    BY <1>3, <2>1
<1>9. Saved(M) = (Saved(R) \ e.del) \cup e.add /\ M # << >> /\ Last(M) = {e}
  BY <1>3, <1>4, SavedAppend, Zenon
<1>10. EditOf({e}) = e
  BY DEF EditOf
<1>11. ASSUME ~NoJunk(R) PROVE ~NoJunk(M)
  <2>1. PICK i \in 1 .. Len(R) : R[i] = Junk
    BY <1>11 DEF NoJunk
  <2>2. R \in Seq(Range(R) \cup {x}) /\ x \in Range(R) \cup {x}
    BY <1>4, SeqMonotonic
  <2>3. M[i] = R[i]
    BY <1>4, <2>1, <2>2, AppendProperties
  <2>4. i \in 1 .. Len(M)
    BY <1>4, <1>5, <2>1
  <2>5. QED
    BY <2>1, <2>3, <2>4 DEF NoJunk
<1>12. \A recs \in Readings(g) : recs \in Readings(f) \/ (NoJunk(R) /\ recs = M)
  BY <1>5, <1>7, <1>8, <1>b
<1>13. QED
  BY <1>2, <1>3, <1>5, <1>7, <1>9, <1>10, <1>11, <1>12, <1>a, <1>b DEF Extends

(* Nothing new can be read of g: perhaps there is junk at the end of f.    *)
NoMore(f, g) ==
  /\ Readings(g) \subseteq Readings(f) /\ Readable(g.recs) = Readable(f.recs)
  /\ NoJunk(g.recs) => g.recs = f.recs

LEMMA JunkAtEnd ==
  ASSUME NEW recs, recs \in Seq(Range(recs)), NEW more, more = Append(recs, Junk)
  PROVE  ~NoJunk(more)
<1>1. Len(recs) \in Nat
  OBVIOUS
<1>2. recs \in Seq(Range(recs) \cup {Junk}) /\ Junk \in Range(recs) \cup {Junk}
  BY SeqMonotonic
<1>3. Len(more) = Len(recs) + 1 /\ more[Len(recs) + 1] = Junk
  BY <1>2, AppendProperties
<1>4. QED
  BY <1>1, <1>3 DEF NoJunk

(* The edit is at the end of a descriptor that can be read to its end, or  *)
(* it cannot be read.                                                      *)
LEMMA LogEditDescriptor ==
  ASSUME TableInv, phase = "open", LogEdit, NEW f, f = manifests[current],
         NEW g, g = manifests'[current]
  PROVE  /\ current' = current
         /\ \/ Extends(f, bg.edit, g) /\ NoJunk(f.recs)
            \/ NoMore(f, g) /\ ~NoJunk(g.recs)
<1>1. /\ current = manifestNum /\ current \in DOMAIN manifests
      /\ GoodFile(current, f) /\ SyncedPart(f)
  BY WhileOpen
<1>2. PICK file \in Astray("descriptor", f) : g = Appended(file, {bg.edit})
  BY <1>1 DEF LogEdit
<1>3. current' = current
  BY DEF LogEdit
<1>4. /\ GoodFile(current, file) /\ SyncedPart(file)
      /\ Readings(file) \subseteq Readings(f)
      /\ Readable(file.recs) = Readable(f.recs)
      /\ file = f \/ file = Appended(f, Junk)
  BY <1>1, <1>2, AstrayFile, AstrayReadings
<1>5. Extends(file, bg.edit, g)
  BY <1>2, <1>4, DescriptorAppended
<1>6. CASE NoJunk(file.recs)
  <2>1. file # Appended(f, Junk)
    <3>1. DOMAIN f = {"recs", "synced"} /\ f.recs \in Seq(Range(f.recs))
      BY <1>1, GoodFileHas
    <3>2. Appended(f, Junk).recs = Append(f.recs, Junk)
      BY <3>1 DEF Appended
    <3>3. QED
      BY <1>6, <3>1, <3>2, JunkAtEnd
  <2>2. QED
    BY <1>3, <1>4, <1>5, <1>6, <2>1
<1>7. CASE ~NoJunk(file.recs)
  BY <1>3, <1>4, <1>5, <1>7 DEF Extends, NoMore
<1>8. QED
  BY <1>6, <1>7

LEMMA ApplyDescriptor ==
  ASSUME TableInv, phase = "open", Apply, NEW f, f = manifests[current],
         NEW g, g = manifests'[current]
  PROVE  /\ current' = current /\ g.recs = f.recs
         /\ Readings(g) = {Readable(f.recs)} /\ Readable(f.recs) \in Readings(f)
<1>1. /\ current = manifestNum /\ current \in DOMAIN manifests
      /\ GoodFile(current, f) /\ SyncedPart(f)
  BY WhileOpen
<1>2. g = Synced(f) /\ current' = current
  <2> DEFINE synced == [manifests EXCEPT ![manifestNum] = Synced(@)]
  <2>1. synced[current] = Synced(f) /\ DOMAIN synced = DOMAIN manifests
    BY <1>1
  <2>2. ~(current < manifestNum)
    BY <1>1 DEF GoodFile
  <2>3. \/ manifests' = synced
        \/ manifests' = Without(synced, {n \in DOMAIN manifests : n < manifestNum})
    BY DEF Apply
  <2>4. current' = current
    BY DEF Apply
  <2> HIDE DEF synced
  <2>5. QED
    BY <1>1, <2>1, <2>2, <2>3, <2>4 DEF Without, Restrict
<1>3. QED
  BY <1>1, <1>2, ReadingsSynced, ReadingWhole

LEMMA FailedDescriptor ==
  ASSUME TableInv, phase = "open", LogFails
  PROVE  current' = current /\ NoMore(manifests[current], manifests'[current])
<1> DEFINE f == manifests[current]
           g == manifests'[current]
<1>1. /\ current = manifestNum /\ current \in DOMAIN manifests
      /\ GoodFile(current, f) /\ SyncedPart(f)
      /\ f.recs \in Seq(Range(f.recs)) /\ Len(f.recs) \in Nat
  BY WhileOpen, GoodFileHas
<1>2. PICK left \in {<< >>, <<Junk>>} :
         manifests' = [manifests EXCEPT ![manifestNum].recs = @ \o left]
  BY DEF LogFails
<1>3. g = [f EXCEPT !.recs = @ \o left] /\ current' = current
  BY <1>1, <1>2 DEF LogFails
<1> HIDE DEF f, g
<1>4. /\ Readings(g) \subseteq Readings(f) /\ Readable(g.recs) = Readable(f.recs)
      /\ left = << >> => g.recs = f.recs
      /\ left # << >> => g.recs = Append(f.recs, Junk)
  BY <1>1, <1>3, AppendFailed
<1>5. ASSUME g.recs = Append(f.recs, Junk) PROVE ~NoJunk(g.recs)
  BY <1>1, <1>5, JunkAtEnd
<1>6. NoMore(f, g)
  BY <1>4, <1>5 DEF NoMore
<1>7. QED
  BY <1>3, <1>6 DEF f, g

(* Whatever LogAndApply does, the edit of a flush names no output.         *)
LEMMA OutputsLogged ==
  ASSUME TableInv, OutputInv, phase = "open", LogEdit \/ Apply \/ LogFails
  PROVE  OutputInv'
<1> DEFINE f == manifests[current]
           g == manifests'[current]
           e == bg.edit
<1>1. /\ Locals(bg) /\ current = manifestNum /\ current \in DOMAIN manifests
      /\ GoodFile(current, f) /\ SyncedPart(f) /\ OnDisk(tables, f)
  BY WhileOpen
<1>2. /\ current' = current /\ held' = held /\ bg.pc \in {"log", "sync"}
  BY DEF LogEdit, Apply, LogFails, data
<1>3. CASE bg.kind # "flush"
  <2>1. CASE LogEdit
    <3>1. bg'.pc = "sync" /\ bg'.kind = bg.kind
      BY <1>1, <2>1 DEF LogEdit, Locals
    <3>2. QED
      BY <1>3, <3>1 DEF OutputInv
  <2>2. CASE Apply \/ LogFails
    <3>1. bg'.pc = "idle"
      BY <1>3, <2>2, BuildEnds DEF Apply, LogFails, Fail
    <3>2. QED
      BY <3>1 DEF OutputInv
  <2>3. QED
    BY <2>1, <2>2
<1>4. CASE bg.kind = "flush"
  <2>1. \A n \in bg.comp.out : Unused(n) /\ n \notin Nums(e.add)
    BY <1>2, <1>4 DEF OutputInv
  <2>2. /\ \/ bg'.pc = "idle" \/ bg'.comp = bg.comp
        /\ bg'.pc \in {"log", "sync"} => bg'.edit = e
    <3>1. CASE LogEdit
      BY <1>1, <3>1 DEF LogEdit, Locals
    <3>2. CASE Apply \/ LogFails
      BY <3>2, BuildEnds DEF Apply, LogFails, Fail
    <3>3. QED
      BY <3>1, <3>2
  <2>3. \A n \in Nums(version') : n \in Nums(version) \/ n \in Nums(e.add)
    <3>1. version' = version \/ version' = (version \ e.del) \cup e.add
      BY DEF LogEdit, Apply, LogFails, data
    <3>2. QED
      BY <3>1 DEF Nums
  <2>4. \A recs \in Readings(g) : \A n \in Nums(Saved(recs)) :
          n \in Nums(e.add) \/ \E old \in Readings(f) : n \in Nums(Saved(old))
    <3> HIDE DEF f, g, e
    <3>1. CASE LogEdit
      <4>1. (Extends(f, e, g) /\ NoJunk(f.recs)) \/ NoMore(f, g)
        BY <3>1, LogEditDescriptor DEF f, g, e
      <4>2. CASE NoMore(f, g)
        BY <4>2 DEF NoMore
      <4>3. CASE Extends(f, e, g) /\ NoJunk(f.recs)
        <5>1. /\ \A recs \in Readings(g) : recs \in Readings(f) \/ recs = g.recs
              /\ Saved(g.recs) = (Saved(f.recs) \ e.del) \cup e.add
              /\ f.recs \in Readings(f)
          BY <4>3 DEF Extends
        <5>2. QED
          BY <5>1 DEF Nums
      <4>4. QED
        BY <4>1, <4>2, <4>3
    <3>2. CASE Apply
      BY <3>2, ApplyDescriptor DEF f, g
    <3>3. CASE LogFails
      BY <3>3, FailedDescriptor DEF f, g, NoMore
    <3>4. QED
      BY <3>1, <3>2, <3>3
  <2>5. CASE bg'.pc = "idle"
    BY <2>5 DEF OutputInv
  <2>6. CASE bg'.comp = bg.comp
    <3>1. ASSUME NEW n \in bg.comp.out PROVE Unused(n)'
      <4>1. Unused(n) /\ n \notin Nums(e.add)
        BY <2>1, <3>1
      <4>2. QED
        BY <1>2, <2>3, <2>4, <2>6, <4>1 DEF Unused
    <3>2. QED
      BY <2>1, <2>2, <2>6, <3>1 DEF OutputInv
  <2>7. QED
    BY <2>2, <2>5, <2>6
<1>5. QED
  BY <1>3, <1>4

(* The steps, as the proofs below group them.                              *)
LEMMA NextCases ==
  ASSUME TableInv, [Next]_vars
  PROVE  \/ Opening \/ UNCHANGED vars
         \/ Leaving /\ phase' = "down"
         \/ phase = "open" /\ phase' = "open" /\ Quiet
         \/ phase = "open" /\ phase' = "open" /\ (LogEdit \/ Apply \/ LogFails)
<1>1. CASE Leaving
  BY <1>1 DEF Leaving, Closed, Crash, PowerLoss, OpenFails, Gone
<1>2. CASE Simple
  <2>1. CASE Writing
    <3>1. queue # << >> /\ phase' = phase
      BY <2>1 DEF Writing, MakeRoomForWrite, AppendRecord, SyncLog, InsertInto,
         NoLog, AppendFails, SyncFails, At, control
    <3>2. phase = "open"
      BY <3>1 DEF TableInv, WriteInv, WakeInv
    <3>3. QED
      BY <1>2, <3>1, <3>2 DEF Quiet
  <2>2. CASE DeleteIterator
    <3>1. phase = "open" /\ phase' = phase
      BY <2>2 DEF DeleteIterator, TableInv, VersionInv, control
    <3>2. QED
      BY <1>2, <3>1 DEF Quiet
  <2>3. CASE ~Writing /\ ~DeleteIterator
    <3>1. phase = "open" /\ phase' = phase
      BY <1>2, <2>3 DEF Simple, NewIterator, Close, Enqueue, control
    <3>2. QED
      BY <1>2, <3>1 DEF Quiet
  <2>4. QED
    BY <2>1, <2>2, <2>3
<1>3. CASE Background
  <2>1. scheduled /\ phase' = phase
    BY <1>3 DEF Background, NothingToDo, FlushBegins, FlushFails,
       CompactionBegins, FlushBuilt, OpenCompactionOutputFile, FinishCompaction,
       CompactionFails, LogEdit, Apply, LogFails, MayWork, TableInv, WriteInv,
       WakeInv, control
  <2>2. phase = "open"
    BY <2>1 DEF TableInv, WriteInv, WakeInv
  <2>3. QED
    BY <1>3, <2>1, <2>2 DEF Background, Quiet
<1>4. QED
  <2>1. FALSE \in BOOLEAN /\ TRUE \in BOOLEAN
    OBVIOUS
  <2>2. QED
    BY <1>1, <1>2, <1>3, <2>1 DEF Next, Simple, Leaving

LEMMA OutputStep ==
  ASSUME TableInv, OutputInv, [Next]_vars
  PROVE  OutputInv'
<1>0. TableInv'
  BY TableStep
<1>1. CASE phase' # "open"
  <2>1. bg'.pc = "idle"
    BY <1>0, <1>1 DEF TableInv, WriteInv, WakeInv
  <2>2. QED
    BY <2>1 DEF OutputInv
<1>2. CASE Opening
  <2>1. bg'.pc = "idle"
    BY <1>2, WhileOpening
  <2>2. QED
    BY <2>1 DEF OutputInv
<1>3. CASE UNCHANGED vars
  <2>1. /\ bg' = bg /\ version' = version /\ held' = held
        /\ manifests' = manifests /\ current' = current
    BY <1>3 DEF vars, disk, data
  <2>2. QED
    BY <2>1 DEF OutputInv, Unused
<1>4. CASE phase = "open" /\ (Quiet \/ LogEdit \/ Apply \/ LogFails)
  BY <1>4, OutputsQuiet, OutputsLogged
<1>5. QED
  BY <1>1, <1>2, <1>3, <1>4, NextCases

-----------------------------------------------------------------------------
(* Log files.                                                              *)

SyncedOf(f) == EntriesOf(SubSeq(f.recs, 1, f.synced))

LEMMA LogHas ==
  ASSUME NEW f, LogFile(f)
  PROVE  /\ DOMAIN f = {"recs", "synced"} /\ f.recs \in Seq(Range(f.recs))
         /\ Len(f.recs) \in Nat /\ f.synced \in 0 .. Len(f.recs)
         /\ SyncedOf(f) \subseteq EntriesOf(f.recs)
         /\ SubSeq(f.recs, 1, Len(f.recs)) = f.recs
<1>1. /\ DOMAIN f = {"recs", "synced"} /\ f.recs \in Seq(Range(f.recs))
      /\ f.synced \in Nat /\ f.synced <= Len(f.recs)
  BY DEF LogFile
<1>2. Len(f.recs) \in Nat /\ f.synced \in 0 .. Len(f.recs)
  BY <1>1, LenProperties
<1>3. SyncedOf(f) \subseteq EntriesOf(f.recs)
  BY <1>1, <1>2, EntriesOfPrefix DEF SyncedOf
<1>4. SubSeq(f.recs, 1, Len(f.recs)) = f.recs
  BY <1>1, SubSeqFull
<1>5. QED
  BY <1>1, <1>2, <1>3, <1>4

LEMMA EmptyLog == LogFile(EmptyFile) /\ NoJunk(EmptyFile.recs)
                  /\ EntriesOf(EmptyFile.recs) = {}
<1>1. EmptyFile.recs = << >> /\ EmptyFile.synced = 0
      /\ DOMAIN EmptyFile = {"recs", "synced"}
  BY DEF EmptyFile
<1>2. << >> \in Seq({}) /\ Len(<< >>) = 0
  OBVIOUS
<1>3. << >> \in Seq(Range(<< >>))
  BY <1>2, SeqOfRange
<1>4. \A x : x \notin EntriesOf(<< >>)
  <2>1. PICK R : R = << >>
    OBVIOUS
  <2>2. R \in Seq(Range(R)) /\ Len(R) = 0
    BY <1>2, <1>3, <2>1
  <2>3. ASSUME NEW x PROVE x \notin EntriesOf(R)
    <3>1. ~\E i \in 1 .. Len(R) : x \in R[i] /\ \A j \in 1 .. i : R[j] # Junk
      BY <2>2
    <3>2. QED
      BY <2>2, <3>1, EntriesAre
  <2>4. QED
    BY <2>1, <2>3
<1>5. QED
  BY <1>1, <1>2, <1>3, <1>4 DEF LogFile, NoJunk

(* g is the log f with the record x at its end.                            *)
LogGrows(f, x, g) ==
  /\ LogFile(g) /\ EntriesOf(f.recs) \subseteq EntriesOf(g.recs)
  /\ EntriesOf(g.recs) \subseteq EntriesOf(f.recs) \cup x
  /\ SyncedOf(g) = SyncedOf(f)
  /\ NoJunk(f.recs) /\ x # Junk =>
       NoJunk(g.recs) /\ x \subseteq EntriesOf(g.recs)

LEMMA LogAppended ==
  ASSUME NEW f, LogFile(f), NEW x, NEW g, g.recs = Append(f.recs, x),
         g.synced = f.synced, DOMAIN g = DOMAIN f
  PROVE  LogGrows(f, x, g)
<1>1. PICK R, M, k : R = f.recs /\ M = g.recs /\ k = f.synced
  OBVIOUS
<1>2. /\ DOMAIN f = {"recs", "synced"} /\ R \in Seq(Range(R))
      /\ Len(R) \in Nat /\ k \in 0 .. Len(R) /\ M = Append(R, x)
  BY <1>1, LogHas
<1>3. M \in Seq(Range(M)) /\ Len(M) = Len(R) + 1
  BY <1>2, ReadableAppend
<1>4. SubSeq(M, 1, k) = SubSeq(R, 1, k)
  <2>1. \A j \in 0 .. Len(R) : SubSeq(M, 1, j) = SubSeq(R, 1, j)
    BY <1>2, ReadableAppend
  <2>2. QED
    BY <1>2, <2>1
<1>5. LogFile(g)
  BY <1>1, <1>2, <1>3 DEF LogFile
<1>6. EntriesOf(R) \subseteq EntriesOf(M) /\ EntriesOf(M) \subseteq EntriesOf(R) \cup x
  BY <1>2, EntriesAppended
<1>7. ASSUME NoJunk(R), x # Junk PROVE NoJunk(M) /\ x \subseteq EntriesOf(M)
  <2>1. NoJunk(M)
    BY <1>2, <1>7, EntriesAppended
  <2>2. x \subseteq EntriesOf(M)
    BY <1>2, <1>7, EntriesAppended
  <2>3. QED
    BY <2>1, <2>2
<1>8. QED
  BY <1>1, <1>4, <1>5, <1>6, <1>7 DEF SyncedOf, LogGrows

LEMMA LogSynced ==
  ASSUME NEW f, LogFile(f), NEW g, g = Synced(f)
  PROVE  /\ LogFile(g) /\ g.recs = f.recs /\ SyncedOf(g) = EntriesOf(f.recs)
         /\ SyncedOf(f) \subseteq SyncedOf(g)
<1>1. /\ DOMAIN f = {"recs", "synced"} /\ f.recs \in Seq(Range(f.recs))
      /\ Len(f.recs) \in Nat /\ SubSeq(f.recs, 1, Len(f.recs)) = f.recs
      /\ SyncedOf(f) \subseteq EntriesOf(f.recs)
  BY LogHas
<1>2. g.recs = f.recs /\ g.synced = Len(f.recs) /\ DOMAIN g = DOMAIN f
  BY <1>1 DEF Synced
<1>3. LogFile(g)
  BY <1>1, <1>2 DEF LogFile
<1>4. QED
  BY <1>1, <1>2, <1>3 DEF SyncedOf

(* A group appended by a writer that may be ahead of its log.              *)
LEMMA GroupAppended ==
  ASSUME NEW f, LogFile(f), NEW x, NEW file \in Astray("log", f), NEW g,
         g = Appended(file, x)
  PROVE  /\ LogFile(g) /\ EntriesOf(f.recs) \subseteq EntriesOf(g.recs)
         /\ EntriesOf(g.recs) \subseteq EntriesOf(f.recs) \cup x
         /\ SyncedOf(g) = SyncedOf(f)
         /\ "log" \notin ahead => LogGrows(f, x, g)
<1>1. ASSUME NEW h, LogFile(h), NEW y PROVE LogGrows(h, y, Appended(h, y))
  <2>1. DOMAIN h = {"recs", "synced"}
    BY <1>1, LogHas
  <2>2. PICK k : k = Appended(h, y)
    OBVIOUS
  <2>3. k.recs = Append(h.recs, y) /\ k.synced = h.synced /\ DOMAIN k = DOMAIN h
    BY <2>1, <2>2 DEF Appended
  <2>4. QED
    BY <1>1, <2>2, <2>3, LogAppended
<1>2. file = f \/ ("log" \in ahead /\ file = Appended(f, Junk))
  BY DEF Astray
<1>3. CASE file = f
  BY <1>1, <1>3 DEF LogGrows
<1>4. CASE "log" \in ahead /\ file = Appended(f, Junk)
  <2>1. LogGrows(f, Junk, file)
    BY <1>1, <1>4
  <2>2. /\ LogFile(file) /\ EntriesOf(file.recs) = EntriesOf(f.recs)
        /\ SyncedOf(file) = SyncedOf(f)
    BY <2>1 DEF LogGrows, Junk
  <2>3. LogGrows(file, x, g)
    BY <1>1, <2>2
  <2>4. QED
    BY <1>4, <2>2, <2>3 DEF LogGrows
<1>5. QED
  BY <1>2, <1>3, <1>4

LEMMA LogTorn ==
  ASSUME NEW f, LogFile(f), NEW left \in {<< >>, <<Junk>>}, NEW g,
         g = [f EXCEPT !.recs = @ \o left]
  PROVE  /\ LogFile(g) /\ EntriesOf(g.recs) = EntriesOf(f.recs)
         /\ SyncedOf(g) = SyncedOf(f)
         /\ left = << >> => g.recs = f.recs
<1>1. /\ DOMAIN f = {"recs", "synced"} /\ f.recs \in Seq(Range(f.recs))
  BY LogHas
<1>2. g.recs = f.recs \o left /\ g.synced = f.synced /\ DOMAIN g = DOMAIN f
  BY <1>1
<1>3. CASE left = << >>
  <2>1. f.recs \o << >> = f.recs
    BY <1>1, ConcatEmptySeq
  <2>2. g.recs = f.recs
    BY <1>2, <1>3, <2>1
  <2>3. LogFile(g)
    BY <1>2, <2>2 DEF LogFile
  <2>4. QED
    BY <1>2, <2>2, <2>3 DEF SyncedOf
<1>4. CASE left # << >>
  <2>1. PICK x : x = Junk
    OBVIOUS
  <2>2. left = <<x>>
    BY <1>4, <2>1
  <2>3. f.recs \in Seq(Range(f.recs) \cup {x}) /\ x \in Range(f.recs) \cup {x}
    BY <1>1, SeqMonotonic
  <2>4. Append(f.recs, x) = f.recs \o <<x>>
    BY <2>3, AppendIsConcat
  <2>5. g.recs = Append(f.recs, x)
    BY <1>2, <2>2, <2>4
  <2>6. LogGrows(f, x, g)
    BY <1>2, <2>5, LogAppended
  <2>7. EntriesOf(g.recs) = EntriesOf(f.recs)
    BY <2>1, <2>6 DEF Junk, LogGrows
  <2>8. QED
    BY <1>4, <2>6, <2>7 DEF LogGrows
<1>5. QED
  BY <1>3, <1>4

(* g is the beginning of the log f, what was synced at least.              *)
LogShrinks(f, g) ==
  /\ LogFile(g) /\ EntriesOf(g.recs) \subseteq EntriesOf(f.recs)
  /\ SyncedOf(f) \subseteq EntriesOf(g.recs)
  /\ SyncedOf(g) = EntriesOf(g.recs)
  /\ NoJunk(f.recs) => NoJunk(g.recs)

LEMMA LogCut ==
  ASSUME NEW f, LogFile(f), NEW k \in 0 .. Len(f.recs), f.synced <= k, NEW g,
         g = [recs |-> SubSeq(f.recs, 1, k), synced |-> k]
  PROVE  LogShrinks(f, g)
<1>1. /\ f.recs \in Seq(Range(f.recs)) /\ Len(f.recs) \in Nat
      /\ f.synced \in 0 .. Len(f.recs)
  BY LogHas
<1>2. PICK part : part = SubSeq(f.recs, 1, k)
  OBVIOUS
<1>3. g.recs = part /\ g.synced = k /\ DOMAIN g = {"recs", "synced"}
  BY <1>2
<1>4. /\ part \in Seq(Range(part)) /\ Len(part) = k
      /\ \A i \in 1 .. k : part[i] = f.recs[i]
  BY <1>1, <1>2, PrefixOf
<1>5. EntriesOf(part) \subseteq EntriesOf(f.recs)
  BY <1>1, <1>2, EntriesOfPrefix
<1>b. ASSUME NoJunk(f.recs) PROVE NoJunk(part)
  <2>1. ASSUME NEW i \in 1 .. k PROVE part[i] # Junk
    <3>1. i \in 1 .. Len(f.recs)
      BY <1>1
    <3>2. f.recs[i] # Junk
      BY <1>b, <3>1 DEF NoJunk
    <3>3. QED
      BY <1>4, <3>2
  <2>2. QED
    BY <1>4, <2>1 DEF NoJunk
<1>a. \A m \in 0 .. k : SubSeq(part, 1, m) = SubSeq(f.recs, 1, m)
  BY <1>1, <1>2, EntriesOfPrefix
<1>6. LogFile(g)
  <2>1. k \in Nat /\ k <= k
    BY <1>1
  <2>2. QED
    BY <1>3, <1>4, <2>1 DEF LogFile
<1>7. SyncedOf(g) = EntriesOf(part)
  BY <1>3, <1>4, SubSeqFull DEF SyncedOf
<1>8. SyncedOf(f) \subseteq EntriesOf(part)
  <2>1. f.synced \in 0 .. k /\ f.synced \in 0 .. Len(part)
    BY <1>1, <1>4
  <2>2. SubSeq(part, 1, f.synced) = SubSeq(f.recs, 1, f.synced)
    BY <1>a, <2>1
  <2>3. EntriesOf(SubSeq(part, 1, f.synced)) \subseteq EntriesOf(part)
    BY <1>4, <2>1, EntriesOfPrefix
  <2>4. QED
    BY <2>2, <2>3 DEF SyncedOf
<1>9. QED
  BY <1>3, <1>5, <1>6, <1>7, <1>8, <1>b DEF LogShrinks

-----------------------------------------------------------------------------
(* The logs and their numbers.                                             *)

LogsAreFiles == \A n \in DOMAIN logs : LogFile(logs[n])

(* No log loses an entry.                                                  *)
LogsGrow ==
  \A n \in DOMAIN logs :
    /\ n \in DOMAIN logs' /\ Whole(n) \subseteq Whole(n)'
    /\ OnlySynced(n) \subseteq OnlySynced(n)'

(* The log in use is written to, or the next one begun.                    *)
SameLog == logNum' = logNum /\ DOMAIN logs' = DOMAIN logs /\ imm' = imm
NextLog ==
  /\ imm = << >> /\ bg' = bg /\ logs' = Put(logs, nextFile, EmptyFile)
  /\ logNum' = nextFile /\ nextFile' = nextFile + 1
  /\ imm' = <<mem>> /\ mem' = {} /\ safe' = safe

LEMMA LogReplaced ==
  ASSUME LogsAreFiles, logNum \in DOMAIN logs, NEW f, f = logs[logNum],
         NEW g, logs' = [logs EXCEPT ![logNum] = g],
         LogFile(g), EntriesOf(f.recs) \subseteq EntriesOf(g.recs),
         SyncedOf(f) \subseteq SyncedOf(g)
  PROVE  LogsAreFiles' /\ LogsGrow /\ DOMAIN logs' = DOMAIN logs
<1>1. DOMAIN logs' = DOMAIN logs /\ logs'[logNum] = g
      /\ \A n \in DOMAIN logs : n # logNum => logs'[n] = logs[n]
  OBVIOUS
<1>2. LogsAreFiles'
  BY <1>1 DEF LogsAreFiles
<1>3. ASSUME NEW n \in DOMAIN logs
      PROVE  /\ Whole(n) \subseteq Whole(n)'
             /\ OnlySynced(n) \subseteq OnlySynced(n)'
  <2>1. CASE n = logNum
    <3>1. Whole(n) = EntriesOf(f.recs) /\ Whole(n)' = EntriesOf(g.recs)
      BY <1>1, <2>1 DEF Whole
    <3>2. OnlySynced(n) = SyncedOf(f) /\ OnlySynced(n)' = SyncedOf(g)
      BY <1>1, <2>1 DEF OnlySynced, SyncedOf
    <3>3. QED
      BY <3>1, <3>2
  <2>2. CASE n # logNum
    BY <1>1, <2>2 DEF Whole, OnlySynced
  <2>3. QED
    BY <2>1, <2>2
<1>4. LogsGrow
  BY <1>1, <1>3 DEF LogsGrow
<1>5. QED
  BY <1>1, <1>2, <1>4

LEMMA LogPut ==
  ASSUME LogsAreFiles, NEW n, n \notin DOMAIN logs,
         logs' = Put(logs, n, EmptyFile)
  PROVE  /\ LogsAreFiles' /\ LogsGrow /\ DOMAIN logs' = DOMAIN logs \cup {n}
         /\ logs'[n] = EmptyFile
<1>1. /\ DOMAIN logs' = DOMAIN logs \cup {n} /\ logs'[n] = EmptyFile
      /\ \A m \in DOMAIN logs : logs'[m] = logs[m]
  BY DEF Put
<1>2. LogsAreFiles'
  BY <1>1, EmptyLog DEF LogsAreFiles
<1>3. LogsGrow
  BY <1>1 DEF LogsGrow, Whole, OnlySynced
<1>4. QED
  BY <1>1, <1>2, <1>3

LEMMA LogsSame ==
  ASSUME logs' = logs
  PROVE  LogsGrow /\ (LogsAreFiles => LogsAreFiles')
BY DEF LogsGrow, LogsAreFiles, Whole, OnlySynced

(* What the open database writes to its logs.                              *)
LEMMA QuietLogs ==
  ASSUME LogsAreFiles, logNum \in DOMAIN logs, nextFile \notin DOMAIN logs,
         phase = "open", Quiet
  PROVE  LogsAreFiles' /\ LogsGrow /\ (SameLog \/ NextLog) /\ minLog' = minLog
<1> DEFINE f == logs[logNum]
<1>0. LogFile(f) /\ DOMAIN f = {"recs", "synced"}
  BY LogHas DEF LogsAreFiles
<1>1. CASE AppendRecord
  <2>1. PICK x : x = GroupEntries
    OBVIOUS
  <2>2. PICK file \in Astray("log", f) :
           logs' = [logs EXCEPT ![logNum] = Appended(file, x)]
    BY <1>1, <2>1 DEF AppendRecord
  <2>3. PICK g : g = Appended(file, x)
    OBVIOUS
  <2>4. logs' = [logs EXCEPT ![logNum] = g] /\ logNum' = logNum /\ minLog' = minLog
        /\ imm' = imm
    BY <1>1, <2>2, <2>3 DEF AppendRecord, numbers, data
  <2> HIDE DEF f
  <2>5. /\ LogFile(g) /\ EntriesOf(f.recs) \subseteq EntriesOf(g.recs)
        /\ SyncedOf(g) = SyncedOf(f)
    BY <1>0, <2>2, <2>3, GroupAppended
  <2>6. LogsAreFiles' /\ LogsGrow /\ DOMAIN logs' = DOMAIN logs
    BY <2>4, <2>5, LogReplaced DEF f
  <2>7. QED
    BY <2>4, <2>6 DEF SameLog
<1>2. CASE SyncLog
  <2>1. PICK g : g = Synced(f)
    OBVIOUS
  <2>2. logs' = [logs EXCEPT ![logNum] = g] /\ logNum' = logNum /\ minLog' = minLog
        /\ imm' = imm
    BY <1>2, <2>1 DEF SyncLog, numbers, data
  <2> HIDE DEF f
  <2>3. LogFile(g) /\ g.recs = f.recs /\ SyncedOf(f) \subseteq SyncedOf(g)
    BY <1>0, <2>1, LogSynced
  <2>4. LogsAreFiles' /\ LogsGrow /\ DOMAIN logs' = DOMAIN logs
    BY <2>2, <2>3, LogReplaced DEF f
  <2>5. QED
    BY <2>2, <2>4 DEF SameLog
<1>3. CASE AppendFails
  <2>1. PICK left \in {<< >>, <<Junk>>} :
           logs' = [logs EXCEPT ![logNum].recs = @ \o left]
    BY <1>3 DEF AppendFails
  <2>2. PICK g : g = [f EXCEPT !.recs = @ \o left]
    OBVIOUS
  <2>3. logs' = [logs EXCEPT ![logNum] = g] /\ logNum' = logNum /\ minLog' = minLog
        /\ imm' = imm
    BY <1>3, <2>1, <2>2 DEF AppendFails, data
  <2> HIDE DEF f
  <2>4. LogFile(g) /\ EntriesOf(g.recs) = EntriesOf(f.recs) /\ SyncedOf(g) = SyncedOf(f)
    BY <1>0, <2>2, LogTorn
  <2>5. LogsAreFiles' /\ LogsGrow /\ DOMAIN logs' = DOMAIN logs
    BY <2>3, <2>4, LogReplaced DEF f
  <2>6. QED
    BY <2>3, <2>5 DEF SameLog
<1>4. CASE MakeRoomForWrite
  <2>1. \/ logs' = logs /\ logNum' = logNum /\ imm' = imm
        \/ NextLog
    BY <1>4 DEF MakeRoomForWrite, NextLog, history
  <2>2. minLog' = minLog
    BY <1>4 DEF MakeRoomForWrite
  <2>3. QED
    BY <2>1, <2>2, LogsSame, LogPut DEF SameLog, NextLog
<1>5. CASE ~(AppendRecord \/ SyncLog \/ AppendFails \/ MakeRoomForWrite)
  <2>1. logs' = logs /\ logNum' = logNum /\ minLog' = minLog /\ imm' = imm
    BY <1>5 DEF Quiet, Simple, NewIterator, DeleteIterator, Close, Enqueue,
       Writing, InsertInto, NoLog, SyncFails, FlushBegins, FlushFails,
       CompactionBegins, FlushBuilt, OpenCompactionOutputFile, FinishCompaction,
       NothingToDo, CompactionFails, disk, control, numbers, data, history
  <2>2. QED
    BY <2>1, LogsSame DEF SameLog
<1>6. QED
  BY <1>1, <1>2, <1>3, <1>4, <1>5

(* Every edit the background thread prepares keeps the logs in use.        *)
LEMMA QuietEdits ==
  ASSUME TableInv, phase = "open", Quiet, bg' # bg,
         bg'.pc \in {"log", "sync"}
  PROVE  /\ logNum' = logNum /\ nextFile' = nextFile
         /\ bg'.edit.next = nextFile /\ bg'.edit.log \in {minLog, logNum}
<1>0. Locals(bg)
  BY WhileOpen
<1>1. CASE \E l \in {0, 1} : FlushBuilt(l)
  <2>1. PICK l \in {0, 1} : FlushBuilt(l)
    BY <1>1
  <2>2. CASE Fail
    <3>1. bg'.pc \notin {"log", "sync"}
      BY <2>2, BuildEnds DEF Fail
    <3>2. QED
      BY <3>1
  <2>3. CASE ~Fail
    <3>1. PICK add : bg' = [bg EXCEPT !.pc = "log", !.edit = Edit(add, {}, logNum)]
      BY <2>1, <2>3 DEF FlushBuilt
    <3>2. bg'.edit.next = nextFile /\ bg'.edit.log = logNum
      BY <1>0, <3>1 DEF Edit, Locals
    <3>3. QED
      BY <2>1, <3>2 DEF FlushBuilt, numbers
  <2>4. QED
    BY <2>2, <2>3
<1>2. CASE CompactionBegins
  <2>1. PICK S, T :
          \/ bg' = [bg EXCEPT !.pc = "compact",
                     !.comp = [in |-> S \cup T, out |-> {}, base |-> version]]
          \/ bg' = [bg EXCEPT !.pc = "log", !.kind = "move",
                 !.edit = Edit({<<t[1], 1>> : t \in S}, S, minLog)]
    BY <1>2 DEF CompactionBegins
  <2>2. CASE bg' = [bg EXCEPT !.pc = "compact",
                     !.comp = [in |-> S \cup T, out |-> {}, base |-> version]]
    <3>1. bg'.pc = "compact"
      BY <1>0, <2>2 DEF Locals
    <3>2. QED
      BY <3>1
  <2>3. CASE bg' = [bg EXCEPT !.pc = "log", !.kind = "move",
                 !.edit = Edit({<<t[1], 1>> : t \in S}, S, minLog)]
    <3>1. bg'.edit.next = nextFile /\ bg'.edit.log = minLog
      BY <1>0, <2>3 DEF Edit, Locals
    <3>2. QED
      BY <1>2, <3>1 DEF CompactionBegins, numbers
  <2>4. QED
    BY <2>1, <2>2, <2>3
<1>3. CASE FinishCompaction
  <2>1. bg'.edit.next = nextFile /\ bg'.edit.log = minLog
    BY <1>0, <1>3 DEF FinishCompaction, Edit, Locals
  <2>2. QED
    BY <1>3, <2>1 DEF FinishCompaction, numbers
<1>4. CASE FlushBegins \/ OpenCompactionOutputFile
  <2>1. bg'.pc \in {"flush", "compact"}
    BY <1>0, <1>4 DEF FlushBegins, OpenCompactionOutputFile, Locals
  <2>2. QED
    BY <2>1
<1>5. CASE FlushFails
  <2>1. bg'.pc \notin {"log", "sync"}
    BY <1>5, BuildEnds DEF FlushFails, Fail
  <2>2. QED
    BY <2>1
<1>6. CASE NothingToDo \/ CompactionFails
  <2>1. bg' = Idle
    BY <1>6 DEF NothingToDo, CompactionFails, BackgroundCallEnds
  <2>2. QED
    BY <2>1 DEF Idle
<1>7. QED
  BY <1>1, <1>2, <1>3, <1>4, <1>5, <1>6
     DEF Quiet, Simple, NewIterator, DeleteIterator, Close, Enqueue, Writing,
     MakeRoomForWrite, AppendRecord, SyncLog, InsertInto, NoLog, AppendFails,
     SyncFails

LEMMA LogsQuiet ==
  ASSUME TableInv, LogInv, OutputInv, phase = "open", Quiet
  PROVE  LogInv'
<1>1. /\ logNum \in DOMAIN logs /\ logNum < nextFile /\ DOMAIN logs \subseteq 0 .. logNum
      /\ minLog <= logNum /\ LogsBelow(logNum, manifests[current])
      /\ {minLog, logNum} \subseteq Nat /\ LogsAreFiles
  BY DEF LogInv, LogsAreFiles
<1>2. nextFile \in Nat /\ current \in DOMAIN manifests /\ current # 0
      /\ GoodFile(current, manifests[current]) /\ SyncedPart(manifests[current])
  BY WhileOpen
<1>3. nextFile \notin DOMAIN logs
  BY <1>1, <1>2
<1>4. LogsAreFiles' /\ (SameLog \/ NextLog) /\ minLog' = minLog
  BY <1>1, <1>3, QuietLogs
<1>5. /\ phase' = "open" /\ current' = current /\ nextFile' \in Nat
      /\ nextFile <= nextFile' /\ manifests' = manifests
  BY QuietStays DEF VersionsStay
<1>6. \A recs \in Readings(manifests[current]) \ {<< >>} :
         LogOf(recs) \in Nat /\ LogOf(recs) <= NextOf(recs)
  BY <1>2 DEF LogInv
<1>7. /\ logNum' \in Nat /\ logNum <= logNum' /\ logNum' < nextFile'
      /\ logNum' \in DOMAIN logs' /\ DOMAIN logs' \subseteq 0 .. logNum'
  <2>1. CASE SameLog
    <3>1. logNum' = logNum /\ DOMAIN logs' = DOMAIN logs
      BY <2>1 DEF SameLog
    <3>2. QED
      BY <1>1, <1>2, <1>5, <3>1
  <2>2. CASE NextLog
    <3>1. DOMAIN logs' = DOMAIN logs \cup {nextFile}
      BY <2>2 DEF NextLog, Put
    <3>2. QED
      BY <1>1, <1>2, <2>2, <3>1 DEF NextLog
  <2>3. QED
    BY <1>4, <2>1, <2>2
<1>8. LogsBelow(logNum', manifests[current])
  BY <1>1, <1>6, <1>7 DEF LogsBelow
<1>9. bg'.pc \in {"log", "sync"} =>
        /\ bg'.edit.log \in Nat /\ bg'.edit.log <= bg'.edit.next
        /\ bg'.edit.log <= logNum'
  <2>1. CASE bg' = bg
    <3>1. bg.pc \in {"log", "sync"} =>
            bg.edit.log \in Nat /\ bg.edit.log <= bg.edit.next /\ bg.edit.log <= logNum
      BY DEF LogInv
    <3>2. QED
      BY <1>1, <1>7, <2>1, <3>1
  <2>2. CASE bg' # bg
    BY <1>1, <1>2, <2>2, QuietEdits
  <2>3. QED
    BY <2>1, <2>2
<1>10. imm' = << >> \/ imm' = <<imm'[1]>>
  <2>1. CASE SameLog
    BY <2>1 DEF SameLog, LogInv
  <2>2. CASE NextLog
    BY <2>2 DEF NextLog
  <2>3. QED
    BY <1>4, <2>1, <2>2
<1>11. QED
  BY <1>1, <1>4, <1>5, <1>6, <1>7, <1>8, <1>9, <1>10 DEF LogInv, LogsAreFiles

LEMMA LogsWithout ==
  ASSUME NEW S, LogsAreFiles, logs' = Without(logs, S)
  PROVE  /\ LogsAreFiles' /\ DOMAIN logs' = DOMAIN logs \ S
         /\ \A n \in DOMAIN logs' : logs'[n] = logs[n]
<1>1. DOMAIN logs' = DOMAIN logs \ S /\ \A n \in DOMAIN logs' : logs'[n] = logs[n]
  BY DEF Without, Restrict
<1>2. QED
  BY <1>1 DEF LogsAreFiles

(* LogAndApply removes logs only, and none from the one in use on.         *)
LEMMA LoggedLogs ==
  ASSUME LogsAreFiles, LogEdit \/ Apply \/ LogFails
  PROVE  /\ LogsAreFiles' /\ logNum' = logNum /\ mem' = mem /\ nextFile' = nextFile
         /\ DOMAIN logs' \subseteq DOMAIN logs
         /\ \A n \in DOMAIN logs' : logs'[n] = logs[n]
         /\ \/ logs' = logs
            \/ Apply /\ logs' = Without(logs, {n \in DOMAIN logs : n < minLog'})
         /\ minLog' = minLog \/ (Apply /\ minLog' = bg.edit.log)
<1>1. /\ logNum' = logNum /\ mem' = mem /\ nextFile' = nextFile
      /\ minLog' = minLog \/ (Apply /\ minLog' = bg.edit.log)
  BY DEF LogEdit, Apply, LogFails, numbers, data
<1>2. \/ logs' = logs
      \/ Apply /\ logs' = Without(logs, {n \in DOMAIN logs : n < minLog'})
  BY DEF LogEdit, Apply, LogFails
<1>3. CASE logs' = logs
  BY <1>1, <1>3, LogsSame
<1>4. CASE Apply /\ logs' = Without(logs, {n \in DOMAIN logs : n < minLog'})
  BY <1>1, <1>4, LogsWithout
<1>5. QED
  BY <1>2, <1>3, <1>4

LEMMA LogsLogged ==
  ASSUME TableInv, LogInv, phase = "open", LogEdit \/ Apply \/ LogFails
  PROVE  LogInv'
<1> DEFINE f == manifests[current]
           g == manifests'[current]
           e == bg.edit
<1>1. /\ logNum \in DOMAIN logs /\ logNum < nextFile /\ DOMAIN logs \subseteq 0 .. logNum
      /\ minLog <= logNum /\ LogsBelow(logNum, f)
      /\ {minLog, logNum} \subseteq Nat /\ LogsAreFiles
  BY DEF LogInv, LogsAreFiles
<1>2. /\ Locals(bg) /\ current # 0
  BY WhileOpen
<1>3. /\ LogsAreFiles' /\ logNum' = logNum /\ nextFile' = nextFile
      /\ DOMAIN logs' \subseteq DOMAIN logs
      /\ minLog' = minLog \/ (Apply /\ minLog' = e.log)
      /\ \/ logs' = logs
         \/ logs' = Without(logs, {n \in DOMAIN logs : n < minLog'})
  BY <1>1, LoggedLogs
<1>4. /\ current' = current /\ phase' = "open" /\ bg.pc \in {"log", "sync"}
  BY DEF LogEdit, Apply, LogFails, control
<1>5. e.log \in Nat /\ e.log <= e.next /\ e.log <= logNum
  BY <1>4 DEF LogInv
<1>6. minLog' \in Nat /\ minLog' <= logNum
  BY <1>1, <1>3, <1>5
<1>7. logNum \in DOMAIN logs'
  BY <1>1, <1>3, <1>6 DEF Without, Restrict
<1>8. \A recs \in Readings(f) \ {<< >>} :
         LogOf(recs) \in Nat /\ LogOf(recs) <= NextOf(recs) /\ LogOf(recs) <= logNum
  BY <1>1, <1>2 DEF LogInv, LogsBelow
<1>9. ASSUME NEW recs \in Readings(g) \ {<< >>}
      PROVE  recs \in Readings(f) \/ (LogOf(recs) = e.log /\ NextOf(recs) = e.next)
  <2> HIDE DEF f, g, e
  <2>1. CASE LogEdit
    <3>1. Extends(f, e, g) \/ NoMore(f, g)
      BY <2>1, LogEditDescriptor DEF f, g, e
    <3>2. CASE Extends(f, e, g)
      <4>1. recs \in Readings(f) \/ recs = g.recs
        BY <3>2 DEF Extends
      <4>2. EditOf(Last(g.recs)) = e
        BY <3>2 DEF Extends
      <4>3. QED
        BY <4>1, <4>2 DEF LogOf, NextOf
    <3>3. QED
      BY <3>1, <3>2 DEF NoMore
  <2>2. CASE Apply
    BY <2>2, ApplyDescriptor DEF f, g
  <2>3. CASE LogFails
    BY <2>3, FailedDescriptor DEF f, g, NoMore
  <2>4. QED
    BY <2>1, <2>2, <2>3
<1>10. \A recs \in Readings(g) \ {<< >>} :
         LogOf(recs) \in Nat /\ LogOf(recs) <= NextOf(recs) /\ LogOf(recs) <= logNum
  BY <1>5, <1>8, <1>9
<1>11. bg'.pc \in {"log", "sync"} => bg'.edit = e
  <2>1. CASE LogEdit
    BY <1>2, <2>1 DEF LogEdit, Locals
  <2>2. CASE Apply \/ LogFails
    BY <2>2, BuildEnds DEF Apply, LogFails, Fail
  <2>3. QED
    BY <2>1, <2>2
<1> HIDE DEF f, g, e
<1>12. LogsBelow(logNum, g)
  BY <1>10 DEF LogsBelow
<1>13. imm' = << >> \/ imm' = <<imm'[1]>>
  <2>1. imm' = imm \/ imm' = << >>
    BY DEF LogEdit, Apply, LogFails, data
  <2>2. QED
    BY <2>1 DEF LogInv
<1>14. QED
  BY <1>1, <1>3, <1>4, <1>5, <1>6, <1>7, <1>10, <1>11, <1>12, <1>13
     DEF LogInv, LogsAreFiles, g, e

(* A descriptor of one record.                                             *)
LEMMA OneReading ==
  ASSUME NEW e, NEW f, f = Appended(EmptyFile, {e})
  PROVE  /\ \A recs \in Readings(f) : recs = << >> \/ recs = f.recs
         /\ EditOf(Last(f.recs)) = e
<1>1. EmptyFile.recs = << >> /\ EmptyFile.synced = 0
      /\ DOMAIN EmptyFile = {"recs", "synced"}
  BY DEF EmptyFile
<1>2. Readings(EmptyFile) = {<< >>}
  <2>1. Len(<< >>) = 0 /\ 0 .. 0 = {0}
    OBVIOUS
  <2>2. SubSeq(<< >>, 1, 0) = << >> /\ Readable(<< >>) = << >>
    BY SubSeqEmpty DEF Readable
  <2>3. Readings(EmptyFile) = {Readable(SubSeq(<< >>, 1, k)) : k \in 0 .. 0}
    BY <1>1, <2>1 DEF Readings
  <2>4. Readings(EmptyFile) = {Readable(SubSeq(<< >>, 1, 0))}
    BY <2>1, <2>3
  <2>5. QED
    BY <2>2, <2>4
<1>3. GoodFile(0, EmptyFile) /\ SyncedPart(EmptyFile)
  <2>1. << >> \in Seq({}) /\ Range(<< >>) = {} /\ Len(<< >>) = 0
    BY DEF Range
  <2>2. QED
    BY <1>1, <2>1 DEF GoodFile, SyncedPart
<1>4. PICK h : h = EmptyFile
  OBVIOUS
<1>5. Extends(h, e, f)
  <2>1. GoodFile(0, h) /\ SyncedPart(h) /\ f = Appended(h, {e})
    BY <1>3, <1>4
  <2>2. QED
    BY <2>1, DescriptorAppended
<1>6. QED
  BY <1>2, <1>4, <1>5 DEF Extends

(* The descriptor that CURRENT is about to name.                           *)
NamedIs(f, v, log, next) ==
  /\ Readings(f) = {f.recs} /\ f.recs # << >> /\ NoJunk(f.recs)
  /\ Readable(f.recs) = f.recs /\ Saved(f.recs) = v
  /\ LogOf(f.recs) = log /\ NextOf(f.recs) = next

LEMMA NamedDescriptor ==
  ASSUME TableInv, phase = "name"
  PROVE  NamedIs(manifests[manifestNum], version, logNum, nextFile)
<1> DEFINE e == Edit(version, {}, logNum)
           h == Appended(EmptyFile, {e})
           f == Durably(h)
<1>2. manifests[manifestNum] = f
  BY DEF TableInv, VersionInv
<1>3. e.add = version /\ e.del = {} /\ e.next = nextFile /\ e.log = logNum
  BY DEF Edit
<1>4. /\ manifestNum \in Nat /\ manifestNum < nextFile /\ IsFiniteSet(version)
      /\ nextFile \in Nat /\ Sound(tables, nextFile, version)
  BY DEF TableInv, WriteInv, DescriptorInv, VersionInv
<1>5. GoodEdit(manifestNum, e)
  BY <1>3, <1>4 DEF GoodEdit
<1>6. f = Synced(h) /\ h = Appended(EmptyFile, {e})
  BY DEF Durably
<1> HIDE DEF e, h, f
<1>7. /\ GoodFile(manifestNum, h) /\ OnDisk(tables, h)
      /\ NoJunk(h.recs) /\ Saved(h.recs) = version
      /\ h.recs # << >> /\ Readable(h.recs) = h.recs
  <2>1. manifestNum \in Nat /\ e.del = {} /\ Sound(tables, e.next, e.add)
    BY <1>3, <1>4
  <2>2. /\ GoodFile(manifestNum, h) /\ OnDisk(tables, h) /\ Below(e.next, h)
        /\ NoJunk(h.recs) /\ Saved(h.recs) = e.add
        /\ h.recs # << >> /\ Readable(h.recs) = h.recs
    BY <2>1, <1>5, <1>6, OneRecord
  <2>3. QED
    BY <1>3, <2>2
<1>8. SyncedPart(h)
  BY <1>7 DEF OnDisk, SyncedPart
<1>9. f.recs = h.recs /\ Readings(f) = {h.recs}
  BY <1>6, <1>7, <1>8, ReadingsSynced
<1>10. EditOf(Last(h.recs)) = e
  BY <1>6, OneReading
<1>11. QED
  BY <1>2, <1>3, <1>7, <1>9, <1>10 DEF NamedIs, LogOf, NextOf

LEMMA LogsOpening ==
  ASSUME TableInv, LogInv, Opening
  PROVE  LogInv'
<1>0. /\ bg'.pc = "idle" /\ phase # "open" /\ nextFile \in Nat
      /\ current # 0 => /\ current \in DOMAIN manifests /\ current \in Nat
                        /\ GoodFile(current, manifests[current])
                        /\ SyncedPart(manifests[current])
  BY WhileOpening
<1>1. /\ LogsAreFiles /\ {minLog, logNum} \subseteq Nat /\ mem = {}
      /\ current # 0 => \A recs \in Readings(manifests[current]) \ {<< >>} :
                      LogOf(recs) \in Nat /\ LogOf(recs) <= NextOf(recs)
  BY <1>0 DEF LogInv, LogsAreFiles
<1>2. mem' = {} /\ imm' = << >>
  <2>1. imm = << >>
    BY <1>0 DEF TableInv, WriteInv, WakeInv
  <2>2. QED
    BY <1>1, <2>1
       DEF Opening, Open, NewDB, Recover, RecoverLogFile, NewLog, Describe, data
<1>3. CASE Open \/ NewDB
  <2>1. /\ logs' = logs /\ minLog' = minLog /\ logNum' = logNum
        /\ phase' \in {"create", "recover", "install"}
    BY <1>3 DEF Open, NewDB, disk, numbers
  <2>2. LogsAreFiles'
    BY <1>1, <2>1, LogsSame
  <2>3. ASSUME current' # 0, NEW recs \in Readings(manifests'[current']) \ {<< >>}
        PROVE  LogOf(recs) \in Nat /\ LogOf(recs) <= NextOf(recs)
    <3>1. CASE phase = "install"
      <4>1. manifests'[current'] = Appended(EmptyFile, {FirstEdit})
        BY <1>3, <3>1 DEF TableInv, VersionInv, Open, NewDB
      <4>2. EditOf(Last(recs)) = FirstEdit
        BY <2>3, <4>1, OneReading
      <4>3. QED
        BY <4>2 DEF LogOf, NextOf, FirstEdit
    <3>2. CASE phase # "install"
      <4>1. current' = current /\ (manifests' = manifests \/ phase = "create")
        BY <1>3, <3>2 DEF Open, NewDB, disk
      <4>2. phase # "create"
        BY <2>3, <4>1 DEF TableInv, WriteInv, DescriptorInv
      <4>3. QED
        BY <1>1, <2>3, <4>1, <4>2
    <3>3. QED
      BY <3>1, <3>2
  <2>4. QED
    BY <1>0, <1>1, <1>2, <2>1, <2>2, <2>3 DEF LogInv, LogsAreFiles
<1>4. CASE Recover
  <2> DEFINE good == Readable(manifests[current].recs)
  <2>1. /\ phase = "recover" /\ logs' = logs /\ current' = current
        /\ manifests' = manifests
    BY <1>4 DEF Recover, disk
  <2>2. current # 0
    BY <2>1 DEF TableInv, WriteInv, DescriptorInv
  <2>3. LogsAreFiles'
    BY <1>1, <2>1, LogsSame
  <2>4. CASE phase' = "corrupt"
    <3>1. minLog' = minLog /\ logNum' = logNum
      BY <1>4, <2>4 DEF Recover, numbers
    <3>2. QED
      BY <1>0, <1>1, <1>2, <2>1, <2>3, <2>4, <3>1 DEF LogInv, LogsAreFiles
  <2>5. CASE phase' # "corrupt"
    <3>1. /\ good # << >> /\ phase' = "replay" /\ nextFile' = NextOf(good) + 1
          /\ minLog' = LogOf(good) /\ logNum' = 0
          /\ toReplay' = {n \in DOMAIN logs : n >= LogOf(good)}
      BY <1>4, <2>5 DEF Recover, NextOf, LogOf
    <3>2. good \in Readings(manifests[current])
      BY <1>0, <2>2, ReadingWhole
    <3> HIDE DEF good
    <3>3. LogOf(good) \in Nat /\ LogOf(good) <= NextOf(good) /\ NextOf(good) \in Nat
      BY <1>0, <1>1, <2>2, <3>1, <3>2, ReadingGood
    <3>4. DOMAIN logs \subseteq Nat
      BY DEF TableInv, WriteInv, DescriptorInv
    <3>5. DOMAIN logs \subseteq 0 .. nextFile' - 1 \cup toReplay'
      <4>1. ASSUME NEW n \in DOMAIN logs, n \notin toReplay'
            PROVE  n \in 0 .. nextFile' - 1
        <5>1. n \in Nat /\ ~(n >= LogOf(good))
          BY <3>1, <3>4, <4>1
        <5>2. n \in 0 .. NextOf(good)
          BY <3>3, <5>1
        <5>3. QED
          BY <3>1, <3>3, <5>2
      <4>2. QED
        BY <4>1
    <3>6. QED
      BY <1>0, <1>1, <1>2, <2>1, <2>3, <3>1, <3>3, <3>5 DEF LogInv, LogsAreFiles
  <2>6. QED
    BY <2>4, <2>5
<1>5. CASE RecoverLogFile
  <2> DEFINE n == Min(toReplay)
  <2>1. /\ phase = "replay" /\ toReplay # {} /\ phase' = phase /\ logs' = logs
        /\ current' = current /\ manifests' = manifests /\ minLog' = minLog
        /\ logNum' = logNum /\ toReplay' = toReplay \ {n}
    BY <1>5 DEF RecoverLogFile
  <2>2. /\ toReplay \subseteq Nat /\ toReplay \subseteq DOMAIN logs
        /\ DOMAIN logs \subseteq 0 .. nextFile - 1 \cup toReplay
    BY <2>1 DEF TableInv, WriteInv, DescriptorInv, LogInv
  <2>3. n \in toReplay
    BY <2>1, <2>2, LeastOf
  <2>4. PICK used \in {0, 1} : nextFile' = MarkFileNumberUsed(nextFile + used, n)
    BY <1>5 DEF RecoverLogFile
  <2> HIDE DEF n
  <2>5. nextFile' \in Nat /\ nextFile <= nextFile' /\ n < nextFile'
    BY <1>0, <2>2, <2>3, <2>4 DEF MarkFileNumberUsed
  <2>6. DOMAIN logs \subseteq 0 .. nextFile' - 1 \cup toReplay'
    BY <1>0, <2>1, <2>2, <2>3, <2>5
  <2>7. LogsAreFiles'
    BY <1>1, <2>1, LogsSame
  <2>8. QED
    BY <1>0, <1>1, <1>2, <2>1, <2>2, <2>6, <2>7 DEF LogInv, LogsAreFiles
<1>6. CASE NewLog
  <2>1. /\ phase = "replay" /\ toReplay = {} /\ phase' = "describe"
        /\ logs' = Put(logs, nextFile, EmptyFile)
        /\ current' = current /\ manifests' = manifests /\ minLog' = minLog
        /\ logNum' = nextFile /\ nextFile' = nextFile + 1
    BY <1>6 DEF NewLog
  <2>2. DOMAIN logs \subseteq 0 .. nextFile - 1
    BY <2>1 DEF LogInv
  <2>3. nextFile \notin DOMAIN logs
    BY <1>0, <2>2
  <2>4. /\ LogsAreFiles' /\ DOMAIN logs' = DOMAIN logs \cup {nextFile}
        /\ logs'[nextFile] = EmptyFile
    BY <1>1, <2>1, <2>3, LogPut
  <2>5. DOMAIN logs' \subseteq 0 .. nextFile /\ nextFile < nextFile + 1
    BY <1>0, <2>2, <2>4
  <2>6. QED
    BY <1>0, <1>1, <1>2, <2>1, <2>4, <2>5 DEF LogInv, LogsAreFiles
<1>7. CASE Describe
  <2>1. /\ phase \in {"describe", "name", "clean"} /\ logNum' = logNum
        /\ nextFile' = nextFile /\ manifestNum' = manifestNum
    BY <1>7 DEF Describe
  <2>2. /\ current # 0 /\ logNum \in DOMAIN logs /\ logNum < nextFile
        /\ DOMAIN logs \subseteq 0 .. logNum /\ logs[logNum] = EmptyFile
    BY <2>1 DEF TableInv, WriteInv, DescriptorInv, LogInv
  <2>3. CASE phase = "describe"
    <3>1. /\ phase' = "name" /\ logs' = logs /\ current' = current
          /\ minLog' = minLog /\ manifests' = Put(manifests, manifestNum,
               Durably(Appended(EmptyFile, {Edit(version, {}, logNum)})))
      BY <1>7, <2>3 DEF Describe
    <3>2. current # manifestNum
      <4>1. current < manifestNum /\ manifestNum \in Nat
        BY <2>3 DEF TableInv, WriteInv, DescriptorInv
      <4>2. QED
        BY <1>0, <2>2, <4>1
    <3>3. manifests'[current] = manifests[current]
      BY <1>0, <2>2, <3>1, <3>2 DEF Put
    <3>4. LogsAreFiles'
      BY <1>1, <3>1, LogsSame
    <3>5. QED
      BY <1>0, <1>1, <1>2, <2>1, <2>2, <3>1, <3>3, <3>4 DEF LogInv, LogsAreFiles
  <2>4. CASE phase = "name"
    <3>1. /\ phase' = "clean" /\ logs' = logs /\ current' = manifestNum
          /\ minLog' = logNum /\ manifests' = manifests
      BY <1>7, <2>4 DEF Describe
    <3>2. NamedIs(manifests[manifestNum], version, logNum, nextFile)
      BY <2>4, NamedDescriptor
    <3>3. PICK f : f = manifests[manifestNum]
      OBVIOUS
    <3>4. /\ Readings(f) = {f.recs} /\ LogOf(f.recs) = logNum
          /\ NextOf(f.recs) = nextFile /\ f.recs # << >>
      BY <3>2, <3>3 DEF NamedIs
    <3>5. \A recs \in Readings(f) \ {<< >>} :
            LogOf(recs) \in Nat /\ LogOf(recs) <= NextOf(recs)
      BY <1>0, <1>1, <2>2, <3>4
    <3>6. LogsAreFiles'
      BY <1>1, <3>1, LogsSame
    <3>7. QED
      BY <1>0, <1>1, <1>2, <2>1, <2>2, <3>1, <3>3, <3>4, <3>5, <3>6
         DEF LogInv, LogsAreFiles
  <2>5. CASE phase = "clean"
    <3>1. /\ phase' = "open" /\ current' = current /\ minLog' = minLog
          /\ logs' = Without(logs, {n \in DOMAIN logs : n < minLog})
          /\ manifests' = Without(manifests, {n \in DOMAIN manifests : n < manifestNum})
      BY <1>7, <2>5 DEF Describe, Collect
    <3>2. /\ minLog = logNum /\ LogOf(manifests[current].recs) = logNum
          /\ current = manifestNum
          /\ Readings(manifests[current]) = {manifests[current].recs}
      BY <2>5 DEF LogInv, TableInv, WriteInv, DescriptorInv, VersionInv
    <3>3. ~(current < manifestNum)
      BY <1>0, <2>2, <3>2
    <3>4. manifests'[current] = manifests[current]
      BY <1>0, <2>2, <3>1, <3>3 DEF Without, Restrict
    <3>5. LogsBelow(logNum, manifests[current])
      BY <1>1, <3>2 DEF LogsBelow
    <3>6. /\ LogsAreFiles' /\ DOMAIN logs' = DOMAIN logs \ {n \in DOMAIN logs : n < minLog}
      BY <1>1, <3>1, LogsWithout
    <3>7. logNum \in DOMAIN logs' /\ DOMAIN logs' \subseteq 0 .. logNum
      BY <1>1, <2>2, <3>2, <3>6
    <3>8. PICK f : f = manifests[current]
      OBVIOUS
    <3>9. /\ minLog <= logNum /\ LogsBelow(logNum, f)
          /\ \A recs \in Readings(f) \ {<< >>} :
                      LogOf(recs) \in Nat /\ LogOf(recs) <= NextOf(recs)
      BY <1>1, <2>2, <3>2, <3>5, <3>8
    <3>10. manifests'[current'] = f
      BY <3>1, <3>4, <3>8
    <3>11. QED
      BY <1>0, <1>1, <1>2, <2>1, <2>2, <3>1, <3>6, <3>7, <3>9, <3>10
         DEF LogInv, LogsAreFiles
  <2>6. QED
    BY <2>1, <2>3, <2>4, <2>5
<1>8. QED
  BY <1>3, <1>4, <1>5, <1>6, <1>7 DEF Opening

(* A crash leaves the logs, or the beginning of each.                      *)
LEMMA LogsAreCut ==
  ASSUME LogsAreFiles, NEW cut \in Cuts(logs), logs' = Cut(logs, cut)
  PROVE  /\ LogsAreFiles' /\ DOMAIN logs' = DOMAIN logs
         /\ \A n \in DOMAIN logs : /\ OnlySynced(n) \subseteq Whole(n)'
                                   /\ Whole(n)' = OnlySynced(n)'
                                   /\ Whole(n)' \subseteq Whole(n)
                                   /\ NoJunk(logs[n].recs) => NoJunk(logs'[n].recs)
<1>1. DOMAIN logs' = DOMAIN logs
  BY DEF Cut
<1>2. ASSUME NEW n \in DOMAIN logs
      PROVE  /\ LogFile(logs'[n]) /\ OnlySynced(n) \subseteq Whole(n)'
             /\ Whole(n)' = OnlySynced(n)' /\ Whole(n)' \subseteq Whole(n)
             /\ NoJunk(logs[n].recs) => NoJunk(logs'[n].recs)
  <2>1. PICK f, g, k : f = logs[n] /\ g = logs'[n] /\ k = cut[n]
    OBVIOUS
  <2>2. LogFile(f) /\ g = [recs |-> SubSeq(f.recs, 1, k), synced |-> k]
    BY <2>1 DEF LogsAreFiles, Cut
  <2>3. f.synced <= k /\ k <= Len(f.recs) /\ k \in Nat
    <3>1. f.synced <= k /\ k <= Len(f.recs)
      BY <2>1 DEF Cuts
    <3>2. \E m \in DOMAIN logs : k \in 0 .. Len(logs[m].recs)
      BY <2>1 DEF Cuts
    <3>3. PICK m \in DOMAIN logs : k \in 0 .. Len(logs[m].recs)
      BY <3>2
    <3>4. QED
      BY <3>1, <3>3
  <2>4. k \in 0 .. Len(f.recs)
    BY <2>2, <2>3, LogHas
  <2>5. LogShrinks(f, g)
    BY <2>2, <2>3, <2>4, LogCut
  <2>6. QED
    BY <2>1, <2>5 DEF Whole, OnlySynced, SyncedOf, LogShrinks
<1>3. QED
  BY <1>1, <1>2 DEF LogsAreFiles

LEMMA LogsLeaving ==
  ASSUME TableInv, LogInv, Leaving
  PROVE  LogInv'
<1>1. /\ phase' = "down" /\ current' = current /\ minLog' = 0 /\ logNum' = 0
      /\ mem' = {} /\ imm' = << >> /\ bg' = Idle
  BY DEF Leaving, Closed, Crash, PowerLoss, OpenFails, disk, Gone
<1>2. /\ LogsAreFiles
      /\ current # 0 => \A recs \in Readings(manifests[current]) \ {<< >>} :
                      LogOf(recs) \in Nat /\ LogOf(recs) <= NextOf(recs)
  BY DEF LogInv, LogsAreFiles
<1>3. LogsAreFiles'
  <2>1. CASE PowerLoss
    BY <1>2, <2>1, LogsAreCut DEF PowerLoss
  <2>2. CASE ~PowerLoss
    <3>1. logs' = logs
      BY <2>2 DEF Leaving, Closed, Crash, OpenFails, disk
    <3>2. QED
      BY <1>2, <3>1, LogsSame
  <2>3. QED
    BY <2>1, <2>2
<1>4. ASSUME current # 0
      PROVE  Readings(manifests'[current]) \subseteq Readings(manifests[current])
  <2>1. CASE PowerLoss
    BY <1>4, <2>1, CurrentCut DEF PowerLoss
  <2>2. CASE ~PowerLoss
    BY <1>4, <2>2, CurrentLeft
  <2>3. QED
    BY <2>1, <2>2
<1>5. bg'.pc = "idle"
  BY <1>1 DEF Idle
<1>6. QED
  BY <1>1, <1>2, <1>3, <1>4, <1>5 DEF LogInv, LogsAreFiles

LEMMA LogStep ==
  ASSUME TableInv, LogInv, OutputInv, [Next]_vars
  PROVE  LogInv'
<1>1. CASE UNCHANGED vars
  <2>1. /\ logs' = logs /\ minLog' = minLog /\ logNum' = logNum /\ mem' = mem
        /\ imm' = imm /\ current' = current /\ manifests' = manifests /\ phase' = phase
        /\ toReplay' = toReplay /\ nextFile' = nextFile /\ bg' = bg
    BY <1>1 DEF vars, disk, control, numbers, data
  <2>2. QED
    BY <2>1 DEF LogInv
<1>2. QED
  BY <1>1, LogsOpening, LogsQuiet, LogsLogged, LogsLeaving, NextCases

-----------------------------------------------------------------------------
(* A write that returned stays as it is.                                   *)

DoneStays == \A i \in Writes : wr[i].pc = "done" => wr'[i] = wr[i]

LEMMA NotInQueue ==
  ASSUME QueueInv, NEW k \in 1 .. Len(queue)
  PROVE  queue[k] \in Writes /\ wr[queue[k]].pc \notin {"done", "new", "lost"}
<1>1. Len(queue) \in Nat /\ queue[k] \in Writes /\ queue # << >>
  BY DEF QueueInv
<1>2. k = 1 \/ k \in 2 .. Len(queue)
  BY <1>1
<1>3. QED
  BY <1>1, <1>2 DEF QueueInv, AtFront

LEMMA ReturnLeavesDone ==
  ASSUME QueueInv, NEW n \in Nat, n <= Len(queue), NEW w, Woken(w), Return(w, n)
  PROVE  DoneStays
<1> SUFFICES ASSUME NEW i \in Writes, wr[i].pc = "done" PROVE wr'[i] = wr[i]
  BY DEF DoneStays
<1>1. w[i] = wr[i]
  BY DEF Woken
<1>2. Len(queue) \in Nat
  BY DEF QueueInv
<1>3. ~\E k \in 1 .. n : queue[k] = i
  <2>1. \A k \in 1 .. n : k \in 1 .. Len(queue)
    BY <1>2
  <2>2. QED
    BY <2>1, NotInQueue
<1>4. ~(n < Len(queue) /\ queue[n + 1] = i)
  <2>1. n < Len(queue) => n + 1 \in 1 .. Len(queue)
    BY <1>2
  <2>2. QED
    BY <2>1, NotInQueue
<1>5. QED
  BY <1>1, <1>3, <1>4 DEF Return, Returned

LEMMA WokenLeavesDone ==
  ASSUME Woken(wr')
  PROVE  DoneStays
BY DEF Woken, DoneStays

LEMMA DoneStep ==
  ASSUME QueueInv, GroupInv, [Next]_vars
  PROVE  DoneStays
<1>1. CASE Writing
  <2>q. queue # << >>
    BY <1>1 DEF Writing, MakeRoomForWrite, AppendRecord, SyncLog, InsertInto,
       NoLog, AppendFails, SyncFails, At
  <2>1. queue # << >> /\ Len(queue) \in Nat /\ 1 <= Len(queue) /\ Leader = queue[1]
        /\ 1 \in 1 .. Len(queue) /\ wr \in [Writes -> Writer]
    BY <2>q DEF QueueInv, Leader
  <2>2. ASSUME NEW w, Woken(w), Return(w, 1) PROVE DoneStays
    <3>1. 1 \in Nat
      OBVIOUS
    <3>2. QED
      BY <2>1, <2>2, <3>1, ReturnLeavesDone
  <2>3. ASSUME NEW w, Woken(w), Return(w, wr[Leader].group), Busy
        PROVE  DoneStays
    <3>1. wr[Leader].group \in 1 .. Len(queue)
      BY <2>3 DEF GroupInv, Busy
    <3>2. PICK n : n = wr[Leader].group
      OBVIOUS
    <3>3. n \in Nat /\ n <= Len(queue) /\ Return(w, n)
      BY <2>1, <2>3, <3>1, <3>2
    <3>4. QED
      BY <2>3, <3>3, ReturnLeavesDone
  <2>4. Woken(wr) /\ Woken(Alarmed(wr))
    BY WokenForms
  <2>5. CASE \E pc : wr' = Wr(Leader, pc)
    <3>1. wr[Leader].pc # "done"
      BY <2>1, NotInQueue
    <3>2. QED
      BY <2>1, <2>5, <3>1 DEF Wr, DoneStays
  <2>6. CASE wr' = [wr EXCEPT ![Leader].pc = "append", ![Leader].group = GroupSize]
    <3>1. wr[Leader].pc # "done"
      BY <2>1, NotInQueue
    <3>2. QED
      BY <2>1, <2>6, <3>1 DEF DoneStays
  <2>7. CASE wr' = [wr EXCEPT ![Leader].force = FALSE]
    <3>1. wr[Leader].pc # "done"
      BY <2>1, NotInQueue
    <3>2. QED
      BY <2>1, <2>7, <3>1 DEF DoneStays
  <2>8. CASE MakeRoomForWrite \/ NoLog
    <3>1. \/ Return(wr, 1) \/ \E pc : wr' = Wr(Leader, pc)
          \/ wr' = [wr EXCEPT ![Leader].pc = "append", ![Leader].group = GroupSize]
          \/ wr' = [wr EXCEPT ![Leader].force = FALSE]
      BY <2>8 DEF MakeRoomForWrite, NoLog
    <3>2. QED
      BY <2>2, <2>4, <2>5, <2>6, <2>7, <3>1
  <2>9. CASE AppendRecord \/ SyncLog
    BY <2>5, <2>9 DEF AppendRecord, SyncLog
  <2>10. CASE InsertInto \/ AppendFails \/ SyncFails
    <3>1. \/ Return(wr, wr[Leader].group) \/ Return(Alarmed(wr), wr[Leader].group)
      BY <2>10 DEF InsertInto, AppendFails, SyncFails
    <3>2. Busy
      BY <2>10 DEF InsertInto, AppendFails, SyncFails, At, Busy
    <3>3. QED
      BY <2>3, <2>4, <3>1, <3>2
  <2>11. QED
    BY <1>1, <2>8, <2>9, <2>10 DEF Writing
<1>2. CASE \/ Opening \/ FlushBegins \/ CompactionBegins \/ FinishCompaction
           \/ OpenCompactionOutputFile \/ LogEdit
           \/ NewIterator \/ DeleteIterator \/ Close \/ UNCHANGED vars
  BY <1>2, QueueUntouched DEF DoneStays
<1>3. CASE Ending
  BY <1>3, EndingWakes, WokenLeavesDone
<1>4. CASE \E i \in Writes, sync, null \in BOOLEAN : Enqueue(i, sync, null)
  BY <1>4 DEF Enqueue, DoneStays, QueueInv
<1>5. CASE Leaving
  BY <1>5 DEF Leaving, Closed, Crash, PowerLoss, OpenFails, Gone, DoneStays
<1>6. QED
  <2>1. FALSE \in BOOLEAN /\ TRUE \in BOOLEAN
    OBVIOUS
  <2>2. QED
    BY <1>1, <1>2, <1>3, <1>4, <1>5, <2>1
       DEF Next, Background, Ending, Leaving

-----------------------------------------------------------------------------
(* What a recovery finds.                                                  *)

(* The tables of v keep their entries.                                     *)
Holds(v) == \A n \in Nums(v) : Contents(n) \subseteq Contents(n)'

LEMMA EntriesStay ==
  ASSUME NEW v, Holds(v)
  PROVE  Entries(v) \subseteq Entries(v)' /\ Ids(Entries(v)) \subseteq Ids(Entries(v)')
<1>1. Entries(v) \subseteq Entries(v)'
  BY DEF Entries, Holds
<1>2. QED
  BY <1>1 DEF Ids

LEMMA IdsGrow ==
  ASSUME NEW S, NEW T, S \subseteq T
  PROVE  Ids(S) \subseteq Ids(T)
BY DEF Ids

LEMMA FoundStays ==
  ASSUME LogsGrow, NEW recs, Holds(Saved(recs)), NEW i
  PROVE  /\ Found(i, recs) => Found(i, recs)'
         /\ FoundSynced(i, recs) => FoundSynced(i, recs)'
<1>1. Ids(Entries(Saved(recs))) \subseteq Ids(Entries(Saved(recs))')
  <2>1. PICK v : v = Saved(recs)
    OBVIOUS
  <2>2. Ids(Entries(v)) \subseteq Ids(Entries(v)')
    BY <2>1, EntriesStay
  <2>3. Entries(Saved(recs))' = Entries(v)'
    BY <2>1 DEF Entries
  <2>4. QED
    BY <2>1, <2>2, <2>3
<1>2. ASSUME NEW n \in DOMAIN logs
      PROVE  /\ n \in DOMAIN logs' /\ Ids(Whole(n)) \subseteq Ids(Whole(n)')
             /\ Ids(OnlySynced(n)) \subseteq Ids(OnlySynced(n)')
  BY IdsGrow DEF LogsGrow
<1>3. ASSUME Found(i, recs) PROVE Found(i, recs)'
  BY <1>1, <1>2, <1>3 DEF Found
<1>4. ASSUME FoundSynced(i, recs) PROVE FoundSynced(i, recs)'
  BY <1>1, <1>2, <1>4 DEF FoundSynced
<1>5. QED
  BY <1>3, <1>4

(* What is found of f is found again if no more of it is read.             *)
LEMMA AgainStays ==
  ASSUME LogsGrow, NEW n, NEW f, GoodFile(n, f), SyncedPart(f), FoundAgain(f),
         \A recs \in Readings(f) : Holds(Saved(recs)), DoneStays,
         \A i \in safe : i \in Writes /\ wr[i].pc = "done",
         NEW g, Readings(g) \subseteq Readings(f), Readable(g.recs) = Readable(f.recs),
         NEW i \in safe
  PROVE  /\ Readable(g.recs) # << >> => Found(i, Readable(g.recs))'
         /\ wr'[i].sync => \A recs \in Readings(g) \ {<< >>} : FoundSynced(i, recs)'
<1>1. Readable(f.recs) \in Readings(f)
  BY ReadingWhole
<1>2. wr'[i] = wr[i]
  BY DEF DoneStays
<1>3. ASSUME Readable(g.recs) # << >> PROVE Found(i, Readable(g.recs))'
  <2>1. PICK recs : recs = Readable(g.recs)
    OBVIOUS
  <2>2. Found(i, recs) /\ Holds(Saved(recs))
    BY <1>1, <1>3, <2>1 DEF FoundAgain
  <2>3. Found(i, recs)'
    BY <2>2, FoundStays
  <2>4. QED
    BY <2>1, <2>3 DEF Found
<1>4. ASSUME wr'[i].sync, NEW recs \in Readings(g) \ {<< >>}
      PROVE  FoundSynced(i, recs)'
  <2>1. FoundSynced(i, recs) /\ Holds(Saved(recs))
    BY <1>2, <1>4 DEF FoundAgain
  <2>2. QED
    BY <2>1, FoundStays
<1>5. QED
  BY <1>3, <1>4

LEMMA HoldsUsed ==
  ASSUME ContentsStay
  PROVE  /\ Holds(version)
         /\ \A recs \in Readings(manifests[current]) : Holds(Saved(recs))
BY DEF ContentsStay, Holds, Unused

(* The entries of the group are named after its writers.                   *)
LEMMA GroupIds ==
  /\ \A i : i \in Ids(GroupEntries) <=> \E k \in Batches : i = queue[k]
  /\ Batches # {} => GroupEntries # {}
<1> DEFINE entry(k) ==
             [id |-> queue[k], s |-> lastSeq + Cardinality({j \in Batches : j <= k})]
<1>1. GroupEntries = {entry(k) : k \in Batches}
  BY DEF GroupEntries
<1>2. \A k : entry(k).id = queue[k]
  OBVIOUS
<1> HIDE DEF entry
<1>3. \A i : i \in Ids(GroupEntries) <=> \E k \in Batches : i = queue[k]
  BY <1>1, <1>2 DEF Ids
<1>4. Batches # {} => GroupEntries # {}
  BY <1>1
<1>5. QED
  BY <1>3, <1>4

LEMMA GroupNotEmpty ==
  ASSUME QueueInv, GroupInv, Busy
  PROVE  GroupEntries # Junk
<1>1. /\ wr[Leader].group \in 1 .. Len(queue) /\ ~wr[Leader].null
      /\ Leader = queue[1] /\ Len(queue) \in Nat
  BY DEF GroupInv, Busy, Leader, QueueInv
<1>2. 1 \in Batches
  BY <1>1 DEF Batches
<1>3. QED
  BY <1>2, GroupIds DEF Junk

LEMMA QuietNoJunk ==
  ASSUME LogsAreFiles, logNum \in DOMAIN logs, QueueInv, GroupInv,
         phase = "open", Quiet, ~torn', "log" \notin ahead,
         \A n \in DOMAIN logs : NoJunk(logs[n].recs)
  PROVE  \A n \in DOMAIN logs' : NoJunk(logs'[n].recs)
<1> DEFINE f == logs[logNum]
<1>0. LogFile(f) /\ DOMAIN f = {"recs", "synced"} /\ NoJunk(f.recs)
  BY LogHas DEF LogsAreFiles
<1>a. ASSUME NEW g, logs' = [logs EXCEPT ![logNum] = g], NoJunk(g.recs)
      PROVE  \A n \in DOMAIN logs' : NoJunk(logs'[n].recs)
  BY <1>a
<1>1. CASE AppendRecord
  <2>1. PICK x : x = GroupEntries
    OBVIOUS
  <2>2. PICK file \in Astray("log", f) :
           logs' = [logs EXCEPT ![logNum] = Appended(file, x)]
    BY <1>1, <2>1 DEF AppendRecord
  <2>3. PICK g : g = Appended(file, x)
    OBVIOUS
  <2>4. logs' = [logs EXCEPT ![logNum] = g]
    BY <2>2, <2>3
  <2>5. x # Junk
    BY <1>1, <2>1, GroupNotEmpty DEF AppendRecord, At, Busy
  <2> HIDE DEF f
  <2>6. LogGrows(f, x, g)
    BY <1>0, <2>2, <2>3, GroupAppended
  <2>7. NoJunk(g.recs)
    BY <1>0, <2>5, <2>6 DEF LogGrows
  <2>8. QED
    BY <1>a, <2>4, <2>7
<1>2. CASE SyncLog
  <2>1. PICK g : g = Synced(f)
    OBVIOUS
  <2>2. logs' = [logs EXCEPT ![logNum] = g]
    BY <1>2, <2>1 DEF SyncLog
  <2>3. g.recs = f.recs
    BY <1>0, <2>1 DEF Synced
  <2>4. QED
    BY <1>0, <1>a, <2>2, <2>3
<1>3. CASE AppendFails
  BY <1>3 DEF AppendFails
<1>4. CASE MakeRoomForWrite
  <2>1. \/ logs' = logs
        \/ logs' = Put(logs, nextFile, EmptyFile)
    BY <1>4 DEF MakeRoomForWrite
  <2>2. QED
    BY <2>1, EmptyLog DEF Put
<1>5. CASE ~(AppendRecord \/ SyncLog \/ AppendFails \/ MakeRoomForWrite)
  <2>1. logs' = logs
    BY <1>5 DEF Quiet, Simple, NewIterator, DeleteIterator, Close, Enqueue,
       Writing, InsertInto, NoLog, SyncFails, FlushBegins, FlushFails,
       CompactionBegins, FlushBuilt, OpenCompactionOutputFile, FinishCompaction,
       NothingToDo, CompactionFails, disk, control, numbers, data, history
  <2>2. QED
    BY <2>1
<1>6. QED
  BY <1>1, <1>2, <1>3, <1>4, <1>5

(* What the open database has in memory.                                   *)
LEMMA QuietMemory ==
  ASSUME phase = "open", Quiet
  PROVE  \/ mem' = mem /\ imm' = imm /\ safe' = safe
         \/ NextLog
         \/ InsertInto
BY DEF Quiet, Simple, NewIterator, DeleteIterator, Close, Enqueue,
       Writing, MakeRoomForWrite, AppendRecord, SyncLog, AppendFails, NoLog,
       SyncFails, FlushBegins, FlushFails, NextLog,
       CompactionBegins, FlushBuilt, OpenCompactionOutputFile, FinishCompaction,
       NothingToDo, CompactionFails, disk, control, numbers, data, history

LEMMA InLogStays ==
  ASSUME LogsGrow, DoneStays, logNum' = logNum, logNum \in DOMAIN logs,
         NEW i \in Writes, wr[i].pc = "done", InLog(i)
  PROVE  InLog(i)'
<1>1. /\ Ids(Whole(logNum)) \subseteq Ids(Whole(logNum)')
      /\ Ids(OnlySynced(logNum)) \subseteq Ids(OnlySynced(logNum)')
  <2>1. PICK n : n = logNum
    OBVIOUS
  <2>2. Ids(Whole(n)) \subseteq Ids(Whole(n)') /\ Ids(OnlySynced(n)) \subseteq Ids(OnlySynced(n)')
    BY <2>1, IdsGrow DEF LogsGrow
  <2>3. Whole(logNum)' = Whole(n)' /\ OnlySynced(logNum)' = OnlySynced(n)'
    BY <2>1 DEF Whole, OnlySynced
  <2>4. QED
    BY <2>1, <2>2, <2>3
<1>2. wr'[i] = wr[i]
  BY DEF DoneStays
<1>3. QED
  BY <1>1, <1>2 DEF InLog

(* The full memtable.                                                      *)
LEMMA ImmIs ==
  /\ UNION Range(<< >>) = {}
  /\ \A x : UNION Range(<<x>>) = x
<1>1. Range(<< >>) = {}
  BY DEF Range
<1>2. ASSUME NEW x PROVE Range(<<x>>) = {x}
  <2>1. DOMAIN <<x>> = {1} /\ <<x>>[1] = x
    OBVIOUS
  <2>2. QED
    BY <2>1 DEF Range
<1>3. QED
  BY <1>1, <1>2

LEMMA PresentIs ==
  /\ Present = (mem \cup (UNION Range(imm))) \cup Entries(version)
  /\ Present' = (mem' \cup (UNION Range(imm'))) \cup Entries(version)'
BY DEF Present, Entries

LEMMA RecoveryQuiet ==
  ASSUME TableInv, FilesInv, RecoveryInv, GroupLogged, phase = "open", Quiet,
         ~torn', "log" \notin ahead, DoneStays
  PROVE  RecoveryInv'
<1>f. PICK f : f = manifests[current]
  OBVIOUS
<1>1. /\ LogsAreFiles /\ logNum \in DOMAIN logs /\ logNum < nextFile
      /\ DOMAIN logs \subseteq 0 .. logNum /\ logNum \in Nat /\ nextFile \in Nat
      /\ GoodFile(current, f) /\ SyncedPart(f) /\ current # 0
      /\ LogsBelow(logNum, f) /\ QueueInv /\ GroupInv
  BY <1>f, WhileOpen DEF FilesInv, LogInv, LogsAreFiles, TableInv, WriteInv
<1>2. nextFile \notin DOMAIN logs
  BY <1>1
<1>3. LogsAreFiles' /\ LogsGrow /\ (SameLog \/ NextLog)
  BY <1>1, <1>2, QuietLogs
<1>4. /\ ContentsStay /\ manifests' = manifests /\ current' = current
      /\ version' = version /\ phase' = "open"
  BY QuietStays DEF VersionsStay, FilesInv
<1>5. Holds(version) /\ \A recs \in Readings(f) : Holds(Saved(recs))
  BY <1>4, <1>f, HoldsUsed
<1>6. /\ \A n \in DOMAIN logs : NoJunk(logs[n].recs)
      /\ \A i \in safe : i \in Writes /\ wr[i].pc = "done"
      /\ FoundAgain(f) /\ safe \subseteq Ids(Present)
      /\ \A i \in safe : i \in Ids(mem) => InLog(i)
  BY <1>1, <1>f DEF RecoveryInv
<1>7. \A n \in DOMAIN logs' : NoJunk(logs'[n].recs)
  BY <1>1, <1>6, QuietNoJunk
<1>8. ASSUME NEW i \in safe
      PROVE  /\ Readable(f.recs) # << >> => Found(i, Readable(f.recs))'
             /\ wr'[i].sync => \A recs \in Readings(f) \ {<< >>} : FoundSynced(i, recs)'
             /\ i \in Writes /\ wr'[i].pc = "done"
  <2>1. wr'[i] = wr[i]
    BY <1>6 DEF DoneStays
  <2>2. QED
    BY <1>1, <1>3, <1>5, <1>6, <2>1, AgainStays
<1>9. Present \subseteq Present'
  <2>1. Entries(version) \subseteq Entries(version)'
    <3>1. PICK v : v = version
      OBVIOUS
    <3>2. Entries(v) \subseteq Entries(v)'
      BY <1>5, <3>1, EntriesStay
    <3>3. Entries(version)' = Entries(v)'
      BY <1>4, <3>1 DEF Entries
    <3>4. QED
      BY <3>1, <3>2, <3>3
  <2>2. mem \cup (UNION Range(imm)) \subseteq mem' \cup (UNION Range(imm'))
    <3>1. CASE NextLog
      BY <3>1, ImmIs DEF NextLog
    <3>2. CASE InsertInto
      BY <3>2 DEF InsertInto
    <3>3. QED
      BY <3>1, <3>2, QuietMemory
  <2>3. QED
    BY <2>1, <2>2, PresentIs
<1>10. CASE ~InsertInto
  <2>1. safe' = safe /\ ((mem' = mem /\ imm' = imm) \/ NextLog)
    BY <1>10, QuietMemory DEF NextLog
  <2>2. safe' \subseteq Ids(Present')
    BY <1>6, <1>9, <2>1, IdsGrow
  <2>3. ASSUME NEW i \in safe', i \in Ids(mem') PROVE InLog(i)'
    <3>1. ~NextLog
      BY <2>3 DEF NextLog, Ids
    <3>2. mem' = mem /\ logNum' = logNum
      BY <1>3, <2>1, <3>1 DEF SameLog
    <3>3. InLog(i) /\ i \in Writes /\ wr[i].pc = "done"
      BY <1>6, <2>1, <2>3, <3>2
    <3>4. QED
      BY <1>1, <1>3, <3>2, <3>3, InLogStays
  <2>4. FoundAgain(manifests[current])'
    BY <1>4, <1>8, <1>f, <2>1 DEF FoundAgain
  <2>5. QED
    BY <1>1, <1>4, <1>7, <1>8, <2>1, <2>2, <2>3, <2>4 DEF RecoveryInv
<1>11. CASE InsertInto
  <2>1. /\ At("insert") /\ mem' = mem \cup GroupEntries
        /\ safe' = safe \cup {queue[k] : k \in Batches}
        /\ wr' = Returned(wr, wr[Leader].group)
        /\ logs' = logs /\ logNum' = logNum
    BY <1>11 DEF InsertInto, Return, disk
  <2>2. /\ GroupEntries \subseteq Whole(logNum)
        /\ wr[Leader].sync => GroupEntries \subseteq OnlySynced(logNum)
    BY <2>1 DEF GroupLogged, At
  <2>3. /\ wr[Leader].group \in 1 .. Len(queue) /\ Len(queue) \in Nat
        /\ \A k \in 2 .. wr[Leader].group : wr[queue[k]].sync => wr[Leader].sync
        /\ Leader = queue[1]
    BY <1>1, <2>1 DEF GroupInv, At, QueueInv, Leader
  <2>4. ASSUME NEW k \in Batches
        PROVE  /\ queue[k] \in Writes /\ wr[queue[k]].pc # "done"
               /\ wr'[queue[k]].pc = "done" /\ wr'[queue[k]].sync = wr[queue[k]].sync
               /\ wr[queue[k]].sync => wr[Leader].sync
               /\ queue[k] \in Ids(GroupEntries)
    <3>1. k \in 1 .. wr[Leader].group /\ k \in 1 .. Len(queue)
      BY <2>3 DEF Batches
    <3>2. queue[k] \in Writes /\ wr[queue[k]].pc # "done"
      BY <1>1, <3>1, NotInQueue
    <3>3. wr'[queue[k]] = [NewWr EXCEPT !.pc = "done", !.sync = wr[queue[k]].sync]
      BY <2>1, <3>1, <3>2 DEF Returned
    <3>4. k = 1 \/ k \in 2 .. wr[Leader].group
      BY <2>3, <3>1
    <3>5. wr[queue[k]].sync => wr[Leader].sync
      BY <2>3, <3>4
    <3>6. queue[k] \in Ids(GroupEntries)
      BY GroupIds
    <3>7. wr'[queue[k]].pc = "done" /\ wr'[queue[k]].sync = wr[queue[k]].sync
      BY <3>3 DEF NewWr
    <3>8. QED
      BY <3>2, <3>5, <3>6, <3>7
  <2>5. ASSUME NEW k \in Batches, NEW i, i = queue[k]
        PROVE  /\ i \in Ids(Whole(logNum)) /\ i \in Ids(Whole(logNum)')
               /\ wr'[i].sync => i \in Ids(OnlySynced(logNum)) /\ i \in Ids(OnlySynced(logNum)')
    <3>1. Whole(logNum)' = Whole(logNum) /\ OnlySynced(logNum)' = OnlySynced(logNum)
      BY <2>1 DEF Whole, OnlySynced
    <3>2. i \in Ids(GroupEntries) /\ (wr'[i].sync => wr[Leader].sync)
      BY <2>4, <2>5
    <3>3. QED
      BY <2>2, <3>1, <3>2, IdsGrow
  <2>6. ASSUME NEW k \in Batches, NEW i, i = queue[k], NEW recs \in Readings(f) \ {<< >>}
        PROVE  Found(i, recs)' /\ (wr'[i].sync => FoundSynced(i, recs)')
    <3>1. LogOf(recs) <= logNum
      BY <1>1, <2>6 DEF LogsBelow
    <3>2. PICK n : n = logNum
      OBVIOUS
    <3>3. n \in DOMAIN logs' /\ LogOf(recs) <= n
      BY <1>1, <2>1, <3>1, <3>2
    <3>4. i \in Ids(Whole(n)') /\ (wr'[i].sync => i \in Ids(OnlySynced(n)'))
      <4>1. i \in Ids(Whole(logNum)) /\ (wr'[i].sync => i \in Ids(OnlySynced(logNum)))
        BY <2>5, <2>6
      <4>2. Whole(n)' = Whole(logNum) /\ OnlySynced(n)' = OnlySynced(logNum)
        BY <2>1, <3>2 DEF Whole, OnlySynced
      <4>3. QED
        BY <4>1, <4>2
    <3>5. Found(i, recs)'
      BY <3>3, <3>4 DEF Found
    <3>6. ASSUME wr'[i].sync PROVE FoundSynced(i, recs)'
      BY <3>3, <3>4, <3>6 DEF FoundSynced
    <3>7. QED
      BY <3>5, <3>6
  <2>7. \A i \in safe' : i \in safe \/ \E k \in Batches : i = queue[k]
    BY <2>1
  <2>8. Readable(f.recs) \in Readings(f)
    BY <1>1, ReadingWhole
  <2>9. ASSUME NEW i \in safe'
        PROVE  /\ Readable(f.recs) # << >> => Found(i, Readable(f.recs))'
               /\ wr'[i].sync => \A recs \in Readings(f) \ {<< >>} : FoundSynced(i, recs)'
               /\ i \in Writes /\ wr'[i].pc = "done"
    <3>1. CASE i \in safe
      BY <1>8, <3>1
    <3>2. CASE \E k \in Batches : i = queue[k]
      <4>1. PICK k \in Batches : i = queue[k]
        BY <3>2
      <4>2. PICK whole : whole = Readable(f.recs)
        OBVIOUS
      <4>3. whole # << >> => Found(i, whole)'
        BY <2>6, <2>8, <4>1, <4>2
      <4>4. Readable(f.recs) # << >> => Found(i, Readable(f.recs))'
        BY <4>2, <4>3 DEF Found
      <4>5. wr'[i].sync => \A recs \in Readings(f) \ {<< >>} : FoundSynced(i, recs)'
        BY <2>6, <4>1
      <4>6. QED
        BY <2>4, <4>1, <4>4, <4>5
    <3>3. QED
      BY <2>7, <3>1, <3>2
  <2>10. FoundAgain(manifests[current])'
    BY <1>4, <1>f, <2>9 DEF FoundAgain
  <2>11. safe' \subseteq Ids(Present')
    <3>1. ASSUME NEW k \in Batches PROVE queue[k] \in Ids(Present')
      <4>1. GroupEntries \subseteq Present'
        BY <2>1, PresentIs
      <4>2. QED
        BY <2>4, <4>1, IdsGrow
    <3>2. safe \subseteq Ids(Present')
      BY <1>6, <1>9, IdsGrow
    <3>3. QED
      BY <2>7, <3>1, <3>2
  <2>12. ASSUME NEW i \in safe', i \in Ids(mem') PROVE InLog(i)'
    <3>1. CASE \E k \in Batches : i = queue[k]
      BY <2>5, <3>1 DEF InLog
    <3>2. CASE ~\E k \in Batches : i = queue[k]
      <4>1. i \in safe /\ i \notin Ids(GroupEntries)
        BY <2>7, <3>2, GroupIds
      <4>2. i \in Ids(mem)
        BY <2>1, <2>12, <4>1 DEF Ids
      <4>3. InLog(i) /\ i \in Writes /\ wr[i].pc = "done"
        BY <1>6, <4>1, <4>2
      <4>4. QED
        BY <1>1, <1>3, <2>1, <4>3, InLogStays
    <3>3. QED
      BY <3>1, <3>2
  <2>13. QED
    BY <1>1, <1>4, <1>7, <2>9, <2>10, <2>11, <2>12 DEF RecoveryInv
<1>12. QED
  BY <1>10, <1>11

-----------------------------------------------------------------------------
(* The group being written is in the log.                                  *)

(* While it is, nobody else uses the log or the sequence numbers.          *)
LEMMA BusyQuiet ==
  ASSUME QueueInv, GroupInv, phase = "open", Quiet, Busy, Busy'
  PROVE  ~NextLog /\ ~InsertInto /\ lastSeq' = lastSeq /\ ~AppendFails
<1>1. wr[Leader].pc \in {"append", "sync", "insert"} /\ queue # << >>
      /\ wr'[Leader'].pc \in {"append", "sync", "insert"} /\ queue' # << >>
      /\ wr[Leader].group \in 1 .. Len(queue) /\ Len(queue) \in Nat
      /\ Leader' = queue'[1]
  BY DEF Busy, GroupInv, QueueInv, Leader
<1>2. ~(InsertInto \/ AppendFails \/ SyncFails)
  <2>1. ASSUME InsertInto \/ AppendFails \/ SyncFails PROVE FALSE
    <3>1. PICK n : n = wr[Leader].group
      OBVIOUS
    <3>2. PICK w : Woken(w) /\ Return(w, n)
      BY <2>1, <3>1, WokenForms DEF InsertInto, AppendFails, SyncFails
    <3>3. n \in Nat
      BY <1>1, <3>1
    <3>4. wr'[queue'[1]].pc = "room"
      BY <1>1, <3>2, <3>3, QueueShortened
    <3>5. QED
      BY <1>1, <3>4
  <2>2. QED
    BY <2>1
<1>3. ~MakeRoomForWrite
  BY <1>1 DEF MakeRoomForWrite
<1>4. /\ lastSeq' = lastSeq
  BY <1>2, <1>3 DEF Quiet, Simple, NewIterator, DeleteIterator, Close, Enqueue,
       Writing, AppendRecord, SyncLog, NoLog, FlushBegins, FlushFails,
       CompactionBegins, FlushBuilt, OpenCompactionOutputFile, FinishCompaction,
       NothingToDo, CompactionFails, disk, control, numbers, data, history
<1>5. ASSUME NextLog PROVE FALSE
  <2>1. imm' # imm
    BY <1>5 DEF NextLog
  <2>2. imm' = imm
    BY <1>2, <1>3 DEF Quiet, Simple, NewIterator, DeleteIterator, Close, Enqueue,
       Writing, AppendRecord, SyncLog, NoLog, FlushBegins, FlushFails,
       CompactionBegins, FlushBuilt, OpenCompactionOutputFile, FinishCompaction,
       NothingToDo, CompactionFails, disk, control, numbers, data, history
  <2>3. QED
    BY <2>1, <2>2
<1>6. QED
  BY <1>2, <1>4, <1>5

LEMMA GroupLoggedStep ==
  ASSUME TableInv, FilesInv, FilesInv', RecoveryInv, GroupLogged, [Next]_vars,
         "log" \notin ahead
  PROVE  GroupLogged'
<1> SUFFICES ASSUME Busy' PROVE GroupLogged'
  BY DEF GroupLogged, Busy
<1>1. QueueInv /\ GroupInv /\ LogInv /\ LogInv' /\ OutputInv
  BY DEF TableInv, WriteInv, FilesInv
<1>2. CASE GroupBegins
  <2>1. /\ queue # << >> /\ queue' = queue /\ Leader \in Writes /\ Leader' = Leader
        /\ wr \in [Writes -> Writer]
        /\ wr' = [wr EXCEPT ![Leader].pc = "append", ![Leader].group = GroupSize]
    BY <1>1, <1>2 DEF GroupBegins, QueueInv, Leader
  <2>2. PICK x, g : x \in Writer /\ x = wr[Leader] /\ g = GroupSize
    BY <2>1
  <2>3. wr'[Leader] = [x EXCEPT !.pc = "append", !.group = g]
    BY <2>1, <2>2
  <2>4. wr'[Leader].pc = "append"
    BY <2>2, <2>3 DEF Writer
  <2>5. QED
    BY <2>1, <2>4 DEF GroupLogged
<1>3. CASE GroupGoesOn /\ (SamePlace \/ AppendRecord \/ SyncLog)
  <2>1. /\ Busy /\ Leader' = Leader /\ queue # << >> /\ queue' # << >>
        /\ wr'[Leader].sync = wr[Leader].sync /\ Leader = queue[1] /\ Leader \in Writes
        /\ wr \in [Writes -> Writer]
    <3>1. Busy /\ Leader' = Leader /\ queue # << >> /\ queue' # << >>
      BY <1>3 DEF GroupGoesOn, Busy
    <3>2. Leader = queue[1] /\ 1 \in 1 .. Len(queue) /\ Leader \in Writes
          /\ wr \in [Writes -> Writer]
      BY <1>1, <3>1 DEF QueueInv, Leader
    <3>3. QED
      BY <1>3, <3>1, <3>2 DEF GroupGoesOn
  <2>2. phase = "open"
    BY <2>1 DEF TableInv, WriteInv, WakeInv
  <2>3. /\ LogsAreFiles /\ logNum \in DOMAIN logs /\ logNum < nextFile
        /\ DOMAIN logs \subseteq 0 .. logNum /\ logNum \in Nat /\ nextFile \in Nat
    BY <1>1, <2>2, WhileOpen DEF LogInv, LogsAreFiles
  <2>4. nextFile \notin DOMAIN logs
    BY <2>3
  <2>5. GroupEntries' = GroupEntries /\ logNum' = logNum
        /\ Whole(logNum) \subseteq Whole(logNum)'
        /\ OnlySynced(logNum) \subseteq OnlySynced(logNum)'
    <3>1. /\ lastSeq' = lastSeq /\ logNum' = logNum
          /\ \/ LogsGrow
             \/ logNum \in DOMAIN logs' /\ logs'[logNum] = logs[logNum]
      <4>1. CASE UNCHANGED vars
        BY <2>3, <4>1 DEF vars, numbers, disk
      <4>2. CASE Quiet
        BY <1>1, <2>1, <2>2, <2>3, <2>4, <4>2, QuietLogs, BusyQuiet DEF SameLog
      <4>3. CASE LogEdit \/ Apply \/ LogFails
        <5>1. phase' = "open" /\ lastSeq' = lastSeq
          BY <2>2, <4>3 DEF LogEdit, Apply, LogFails, control, numbers
        <5>2. logNum' \in DOMAIN logs'
          BY <1>1, <5>1 DEF LogInv
        <5>3. QED
          BY <2>3, <4>3, <5>1, <5>2, LoggedLogs
      <4>4. CASE Opening
        BY <2>2, <4>4, WhileOpening
      <4>5. CASE Leaving
        BY <2>1, <4>5 DEF Leaving, Closed, Crash, PowerLoss, OpenFails, Gone
      <4>6. QED
        BY <4>1, <4>2, <4>3, <4>4, <4>5, NextCases
    <3>2. GroupEntries' = GroupEntries
      BY <1>1, <1>3, <3>1, GroupStays
    <3>3. PICK n : n = logNum
      OBVIOUS
    <3>4. Whole(n) \subseteq Whole(n)' /\ OnlySynced(n) \subseteq OnlySynced(n)'
      BY <2>3, <3>1, <3>3 DEF LogsGrow, Whole, OnlySynced
    <3>5. Whole(logNum)' = Whole(n)' /\ OnlySynced(logNum)' = OnlySynced(n)'
      BY <3>1, <3>3 DEF Whole, OnlySynced
    <3>6. QED
      BY <3>1, <3>2, <3>3, <3>4, <3>5
  <2>6. CASE SamePlace
    <3>1. wr'[Leader].pc = wr[Leader].pc
      BY <2>6 DEF SamePlace
    <3>2. QED
      BY <2>1, <2>5, <3>1 DEF GroupLogged
  <2>7. CASE AppendRecord
    <3>1. PICK f, x : f = logs[logNum] /\ x = GroupEntries
      OBVIOUS
    <3>2. PICK file \in Astray("log", f) :
             logs' = [logs EXCEPT ![logNum] = Appended(file, x)]
      BY <2>7, <3>1 DEF AppendRecord
    <3>3. PICK g : g = Appended(file, x)
      OBVIOUS
    <3>4. LogFile(f) /\ NoJunk(f.recs)
      BY <2>3, <3>1 DEF LogsAreFiles, RecoveryInv
    <3>5. logs'[logNum] = g
      BY <2>3, <3>2, <3>3
    <3>6. x # Junk
      BY <1>1, <2>1, <3>1, GroupNotEmpty
    <3>7. LogGrows(f, x, g)
      BY <3>2, <3>3, <3>4, GroupAppended
    <3>8. x \subseteq EntriesOf(g.recs)
      BY <3>4, <3>6, <3>7 DEF LogGrows
    <3>9. Whole(logNum)' = EntriesOf(g.recs)
      BY <2>5, <3>5 DEF Whole
    <3>10. wr'[Leader].pc = IF wr[Leader].sync THEN "sync" ELSE "insert"
      BY <2>1, <2>7 DEF AppendRecord, Wr, Writer
    <3>11. wr'[Leader].pc = "insert" => ~wr'[Leader].sync
      BY <2>1, <3>10
    <3>12. QED
      BY <2>1, <2>5, <3>1, <3>8, <3>9, <3>11 DEF GroupLogged
  <2>8. CASE SyncLog
    <3>1. PICK f : f = logs[logNum]
      OBVIOUS
    <3>2. PICK g : g = Synced(f)
      OBVIOUS
    <3>3. LogFile(f)
      BY <2>3, <3>1 DEF LogsAreFiles
    <3>4. logs'[logNum] = g
      BY <2>3, <2>8, <3>1, <3>2 DEF SyncLog
    <3>5. SyncedOf(g) = EntriesOf(f.recs) /\ g.recs = f.recs
      BY <3>2, <3>3, LogSynced
    <3>6. OnlySynced(logNum)' = SyncedOf(g) /\ Whole(logNum) = EntriesOf(f.recs)
          /\ Whole(logNum)' = EntriesOf(g.recs)
      BY <2>5, <3>1, <3>4 DEF OnlySynced, SyncedOf, Whole
    <3>7. GroupEntries \subseteq Whole(logNum)
      BY <2>8 DEF SyncLog, At, GroupLogged
    <3>8. QED
      BY <2>5, <3>5, <3>6, <3>7 DEF GroupLogged
  <2>9. QED
    BY <1>3, <2>6, <2>7, <2>8
<1>4. QED
  BY <1>1, <1>2, <1>3, GroupNext

-----------------------------------------------------------------------------
(* The edits of the background thread lose nothing.                        *)

EditKeeps ==
  IF bg.kind = "flush"
  THEN /\ bg.edit.del = {} /\ bg.edit.log = logNum
       /\ imm # << >> /\ imm[1] \subseteq Entries(bg.edit.add)
  ELSE /\ Entries(bg.edit.del) \subseteq Entries(bg.edit.add)
       /\ bg.edit.log = minLog

LEMMA EditInvIs ==
  /\ EditInv <=>
       /\ phase = "open" /\ (bg.pc # "idle" \/ ~bgError) =>
            IF bg.pc = "sync"
            THEN DescriptorHas((version \ bg.edit.del) \cup bg.edit.add, bg.edit.log)
            ELSE DescriptorHas(version, minLog)
       /\ bg.pc \in {"log", "sync"} => EditKeeps
BY DEF EditInv, EditKeeps

LEMMA EntriesMember ==
  ASSUME NEW v
  PROVE  \A x : x \in Entries(v) <=> \E n \in Nums(v) : x \in Contents(n)
BY DEF Entries

(* The table of a flush holds the memtable.                                *)
LEMMA FlushKeeps ==
  ASSUME TableInv, phase = "open", NEW l \in {0, 1}, FlushBuilt(l), ~Fail
  PROVE  EditKeeps'
<1>1. /\ bg.pc = "flush" /\ Locals(bg) /\ imm # << >> /\ bg.kind = "flush"
      /\ imm[1] # {} => bg.num \in DOMAIN tables
  BY WhileOpen DEF FlushBuilt, TableInv, BuildInv
<1>2. PICK add : /\ add = IF imm[1] = {} THEN {} ELSE {<<bg.num, l>>}
                 /\ bg' = [bg EXCEPT !.pc = "log", !.edit = Edit(add, {}, logNum)]
  BY DEF FlushBuilt
<1>3. /\ bg'.kind = "flush" /\ bg'.edit.add = add /\ bg'.edit.del = {}
      /\ bg'.edit.log = logNum
  BY <1>1, <1>2 DEF Locals, Edit
<1>4. imm' = imm /\ logNum' = logNum
  BY DEF FlushBuilt, numbers
<1>5. imm[1] \subseteq Entries(add)'
  <2>1. CASE imm[1] = {}
    BY <2>1
  <2>2. CASE imm[1] # {}
    <3>1. PICK n : n = bg.num
      OBVIOUS
    <3>2. tables' = Put(tables, n, imm[1])
      BY <1>1, <2>2, <3>1 DEF FlushBuilt
    <3>3. Contents(n)' = imm[1]
      BY <3>2 DEF Contents, Put
    <3>4. n \in Nums(add)
      BY <1>2, <2>2, <3>1 DEF Nums
    <3>5. QED
      BY <3>3, <3>4 DEF Entries
  <2>3. QED
    BY <2>1, <2>2
<1>6. Entries(bg.edit.add)' = Entries(add)'
  BY <1>3 DEF Entries
<1>7. QED
  BY <1>1, <1>3, <1>4, <1>5, <1>6 DEF EditKeeps

LEMMA MoveKeeps ==
  ASSUME TableInv, phase = "open", NEW S,
         bg' = [bg EXCEPT !.pc = "log", !.kind = "move",
                 !.edit = Edit({<<t[1], 1>> : t \in S}, S, minLog)],
         minLog' = minLog
  PROVE  EditKeeps'
<1>1. PICK add : add = {<<t[1], 1>> : t \in S}
  OBVIOUS
<1>2. Locals(bg)
  BY WhileOpen
<1>3. /\ bg'.kind = "move" /\ bg'.edit.add = add /\ bg'.edit.del = S
      /\ bg'.edit.log = minLog
  BY <1>1, <1>2 DEF Locals, Edit
<1>4. \A n \in Nums(S) : n \in Nums(add)
  <2>1. ASSUME NEW t \in S PROVE t[1] \in Nums(add)
    <3>1. PICK u : u = <<t[1], 1>>
      OBVIOUS
    <3>2. u \in add /\ u[1] = t[1]
      BY <1>1, <3>1
    <3>3. QED
      BY <3>2 DEF Nums
  <2>2. QED
    BY <2>1 DEF Nums
<1>5. Entries(S)' \subseteq Entries(add)'
  BY <1>4 DEF Entries
<1>6. Entries(bg.edit.del)' = Entries(S)' /\ Entries(bg.edit.add)' = Entries(add)'
  BY <1>3 DEF Entries
<1>7. QED
  BY <1>3, <1>5, <1>6 DEF EditKeeps

LEMMA MergeKeeps ==
  ASSUME TableInv, FilesInv, phase = "open", FinishCompaction
  PROVE  EditKeeps'
<1>1. PICK in, out, add : /\ in = bg.comp.in /\ out = bg.comp.out
                          /\ add = {<<n, 1>> : n \in out}
  OBVIOUS
<1>2. /\ Locals(bg) /\ bg.pc = "compact" /\ out # {} /\ in \subseteq bg.comp.base
      /\ \A n \in out : n \in DOMAIN tables /\ Unused(n)
  BY <1>1, WhileOpen DEF FinishCompaction, TableInv, BuildInv, FilesInv, OutputInv
<1>3. /\ bg' = [bg EXCEPT !.pc = "log", !.kind = "merge", !.edit = Edit(add, in, minLog)]
      /\ minLog' = minLog
  BY <1>1 DEF FinishCompaction, numbers
<1>4. /\ bg'.kind = "merge" /\ bg'.edit.add = add /\ bg'.edit.del = in
      /\ bg'.edit.log = minLog
  BY <1>2, <1>3 DEF Locals, Edit
<1>5. PICK all : /\ all = UNION {Contents(m) : m \in Nums(in)}
                 /\ tables' = [n \in DOMAIN tables |->
                                 IF n \in out THEN all ELSE tables[n]]
  BY <1>1 DEF FinishCompaction
<1>6. PICK n : n \in out /\ n \in DOMAIN tables
  BY <1>2
<1>7. Contents(n)' = all
  BY <1>5, <1>6 DEF Contents
<1>8. n \in Nums(add)
  <2>1. PICK u : u = <<n, 1>>
    OBVIOUS
  <2>2. u \in add /\ u[1] = n
    BY <1>1, <1>6, <2>1
  <2>3. QED
    BY <2>2 DEF Nums
<1>9. all \subseteq Entries(add)'
  BY <1>7, <1>8 DEF Entries
<1>10. \A m \in Nums(in) : m \notin out
  <2>1. ASSUME NEW m \in Nums(in) PROVE ~Unused(m)
    <3>1. m \in Nums(bg.comp.base)
      BY <1>2 DEF Nums
    <3>2. QED
      BY <3>1 DEF Unused
  <2>2. QED
    BY <1>2, <2>1
<1>11. \A m \in Nums(in) : Contents(m)' = Contents(m)
  BY <1>5, <1>10 DEF Contents
<1>12. Entries(in)' = all
  BY <1>5, <1>11 DEF Entries
<1>13. Entries(bg.edit.del)' = Entries(in)' /\ Entries(bg.edit.add)' = Entries(add)'
  BY <1>4 DEF Entries
<1>14. Entries(bg.edit.del)' \subseteq Entries(bg.edit.add)'
  BY <1>9, <1>12, <1>13
<1>15. QED
  BY <1>3, <1>4, <1>14 DEF EditKeeps

(* How the background thread goes on from one step to the next.            *)
LEMMA QuietThread ==
  ASSUME TableInv, phase = "open", Quiet
  PROVE  \/ bg' = bg /\ (bg.pc \in {"log", "sync"} => tables' = tables)
         \/ /\ bg.pc # "sync" /\ bg'.pc # "sync"
            /\ bg.pc # "idle" \/ ~bgError \/ (bg'.pc = "idle" /\ bgError')
            /\ \/ bg'.pc \notin {"log", "sync"}
               \/ \E l \in {0, 1} : FlushBuilt(l) /\ ~Fail
               \/ FinishCompaction
               \/ minLog' = minLog /\ \E S :
                    bg' = [bg EXCEPT !.pc = "log", !.kind = "move",
                            !.edit = Edit({<<t[1], 1>> : t \in S}, S, minLog)]
<1>0. Locals(bg)
  BY WhileOpen
<1>1. CASE Simple
  <2>1. bg' = bg /\ tables' = tables
    BY <1>1 DEF Simple, NewIterator, DeleteIterator, Close, Enqueue, Writing,
       MakeRoomForWrite, AppendRecord, SyncLog, InsertInto, NoLog, AppendFails,
       SyncFails, disk
  <2>2. QED
    BY <2>1
<1>2. CASE FlushBegins
  <2>1. bg'.pc = "flush" /\ ((bg.pc = "idle" /\ ~bgError) \/ bg.pc = "compact")
    BY <1>0, <1>2 DEF FlushBegins, Locals, MayWork
  <2>2. QED
    BY <2>1
<1>3. CASE FlushFails
  <2>1. bg.pc = "flush" /\ bg'.pc \in {"idle", "compact"}
    BY <1>3, BuildEnds DEF FlushFails, Fail
  <2>2. QED
    BY <2>1
<1>4. CASE \E l \in {0, 1} : FlushBuilt(l)
  <2>1. PICK l \in {0, 1} : FlushBuilt(l)
    BY <1>4
  <2>2. CASE Fail
    <3>1. bg.pc = "flush" /\ bg'.pc \in {"idle", "compact"}
      BY <2>1, <2>2, BuildEnds DEF FlushBuilt, Fail
    <3>2. QED
      BY <3>1
  <2>3. CASE ~Fail
    <3>1. bg.pc = "flush" /\ bg'.pc = "log"
      BY <1>0, <2>1, <2>3 DEF FlushBuilt, Locals
    <3>2. QED
      BY <2>1, <2>3, <3>1
  <2>4. QED
    BY <2>2, <2>3
<1>5. CASE CompactionBegins
  <2>1. bg.pc = "idle" /\ ~bgError /\ minLog' = minLog
    BY <1>5 DEF CompactionBegins, MayWork, numbers
  <2>2. PICK S, T :
          \/ bg' = [bg EXCEPT !.pc = "compact",
                     !.comp = [in |-> S \cup T, out |-> {}, base |-> version]]
          \/ bg' = [bg EXCEPT !.pc = "log", !.kind = "move",
                 !.edit = Edit({<<t[1], 1>> : t \in S}, S, minLog)]
    BY <1>5 DEF CompactionBegins
  <2>3. CASE bg' = [bg EXCEPT !.pc = "compact",
                     !.comp = [in |-> S \cup T, out |-> {}, base |-> version]]
    <3>1. bg'.pc = "compact"
      BY <1>0, <2>3 DEF Locals
    <3>2. QED
      BY <2>1, <3>1
  <2>4. CASE bg' = [bg EXCEPT !.pc = "log", !.kind = "move",
                 !.edit = Edit({<<t[1], 1>> : t \in S}, S, minLog)]
    <3>1. bg'.pc = "log"
      BY <1>0, <2>4 DEF Locals
    <3>2. QED
      BY <2>1, <2>4, <3>1
  <2>5. QED
    BY <2>2, <2>3, <2>4
<1>6. CASE OpenCompactionOutputFile \/ FinishCompaction
  <2>1. bg.pc = "compact" /\ bg'.pc = (IF FinishCompaction THEN "log" ELSE "compact")
    BY <1>0, <1>6 DEF OpenCompactionOutputFile, FinishCompaction, Locals
  <2>2. QED
    BY <1>6, <2>1
<1>7. CASE NothingToDo
  <2>1. bg.pc = "idle" /\ bg' = Idle /\ bgError' = bgError
    BY <1>7 DEF NothingToDo, BackgroundCallEnds
  <2>2. bg'.pc = "idle"
    BY <2>1 DEF Idle
  <2>3. QED
    BY <2>1, <2>2
<1>8. CASE CompactionFails
  <2>1. bg.pc = "compact" /\ bg' = Idle
    BY <1>8 DEF CompactionFails, BackgroundCallEnds
  <2>2. bg'.pc = "idle"
    BY <2>1 DEF Idle
  <2>3. QED
    BY <2>1, <2>2
<1>9. QED
  BY <1>1, <1>2, <1>3, <1>4, <1>5, <1>6, <1>7, <1>8 DEF Quiet

LEMMA EditQuiet ==
  ASSUME TableInv, FilesInv, EditInv, phase = "open", Quiet
  PROVE  EditInv'
<1>1. /\ LogsAreFiles /\ logNum \in DOMAIN logs /\ logNum < nextFile
      /\ DOMAIN logs \subseteq 0 .. logNum /\ logNum \in Nat /\ nextFile \in Nat
  BY WhileOpen DEF FilesInv, LogInv, LogsAreFiles
<1>2. nextFile \notin DOMAIN logs
  BY <1>1
<1>3. (SameLog \/ NextLog) /\ minLog' = minLog
  BY <1>1, <1>2, QuietLogs
<1>4. /\ manifests' = manifests /\ current' = current
      /\ version' = version /\ phase' = "open"
  BY QuietStays DEF VersionsStay, FilesInv
<1>5. ~bgError' => ~bgError
  BY DEF Quiet, Simple, NewIterator, DeleteIterator, Close, Enqueue,
       Writing, MakeRoomForWrite, AppendRecord, SyncLog, InsertInto, NoLog,
       AppendFails, SyncFails, FlushBegins, FlushFails, Fail,
       CompactionBegins, FlushBuilt, OpenCompactionOutputFile, FinishCompaction,
       NothingToDo, CompactionFails, disk, control, numbers, data, history
<1>6. CASE bg' = bg /\ (bg.pc \in {"log", "sync"} => tables' = tables)
  <2>1. (bg'.pc # "idle" \/ ~bgError') =>
            IF bg'.pc = "sync"
            THEN DescriptorHas((version \ bg.edit.del) \cup bg.edit.add, bg.edit.log)'
            ELSE DescriptorHas(version, minLog)'
    BY <1>3, <1>4, <1>5, <1>6 DEF EditInv, DescriptorHas
  <2>2. ASSUME bg'.pc \in {"log", "sync"} PROVE EditKeeps'
    <3>1. EditKeeps /\ tables' = tables
      BY <1>6, <2>2, EditInvIs
    <3>2. /\ Entries(bg.edit.add)' = Entries(bg.edit.add)
          /\ Entries(bg.edit.del)' = Entries(bg.edit.del)
      BY <1>6, <3>1 DEF Entries, Contents
    <3>3. CASE bg.kind = "flush"
      <4>1. imm # << >>
        BY <3>1, <3>3 DEF EditKeeps
      <4>2. imm' = imm /\ logNum' = logNum
        BY <1>3, <4>1 DEF SameLog, NextLog
      <4>3. QED
        BY <1>6, <3>1, <3>2, <3>3, <4>2 DEF EditKeeps
    <3>4. CASE bg.kind # "flush"
      BY <1>3, <1>6, <3>1, <3>2, <3>4 DEF EditKeeps
    <3>5. QED
      BY <3>3, <3>4
  <2>3. QED
    BY <1>4, <2>1, <2>2 DEF EditInv, EditKeeps
<1>7. CASE ~(bg' = bg /\ (bg.pc \in {"log", "sync"} => tables' = tables))
  <2>1. /\ bg.pc # "sync" /\ bg'.pc # "sync"
        /\ bg.pc # "idle" \/ ~bgError \/ (bg'.pc = "idle" /\ bgError')
        /\ \/ bg'.pc \notin {"log", "sync"}
           \/ \E l \in {0, 1} : FlushBuilt(l) /\ ~Fail
           \/ FinishCompaction
           \/ \E S :
                bg' = [bg EXCEPT !.pc = "log", !.kind = "move",
                        !.edit = Edit({<<t[1], 1>> : t \in S}, S, minLog)]
    BY <1>7, QuietThread
  <2>2. (bg'.pc # "idle" \/ ~bgError') => DescriptorHas(version, minLog)'
    <3>1. (bg'.pc # "idle" \/ ~bgError') => bg.pc # "idle" \/ ~bgError
      BY <2>1
    <3>2. QED
      BY <1>3, <1>4, <2>1, <3>1 DEF EditInv, DescriptorHas
  <2>3. ASSUME bg'.pc \in {"log", "sync"} PROVE EditKeeps'
    BY <1>3, <2>1, <2>3, FlushKeeps, MoveKeeps, MergeKeeps
  <2>4. QED
    BY <1>4, <2>1, <2>2, <2>3 DEF EditInv, EditKeeps
<1>8. QED
  BY <1>6, <1>7

-----------------------------------------------------------------------------
(* A record of the descriptor: nothing is lost by reading it, nor by not   *)
(* reading it.                                                             *)

LEMMA EntriesMore ==
  ASSUME NEW v, NEW w, v \subseteq w
  PROVE  Entries(v) \subseteq Entries(w) /\ Ids(Entries(v)) \subseteq Ids(Entries(w))
<1>1. Nums(v) \subseteq Nums(w)
  BY DEF Nums
<1>2. Entries(v) \subseteq Entries(w)
  BY <1>1 DEF Entries
<1>3. QED
  BY <1>2, IdsGrow

LEMMA EntriesReplaced ==
  ASSUME NEW v, NEW del, NEW add, Entries(del) \subseteq Entries(add), NEW w,
         w = (v \ del) \cup add
  PROVE  Ids(Entries(v)) \subseteq Ids(Entries(w))
<1>1. ASSUME NEW t \in v PROVE Contents(t[1]) \subseteq Entries(w)
  <2>1. CASE t \in del
    <3>1. Contents(t[1]) \subseteq Entries(del)
      BY <2>1 DEF Entries, Nums
    <3>2. Entries(add) \subseteq Entries(w)
      BY EntriesMore
    <3>3. QED
      BY <3>1, <3>2
  <2>2. CASE t \notin del
    <3>1. t[1] \in Nums(w)
      BY <2>2 DEF Nums
    <3>2. QED
      BY <3>1 DEF Entries
  <2>3. QED
    BY <2>1, <2>2
<1>2. Entries(v) \subseteq Entries(w)
  BY <1>1 DEF Entries, Nums
<1>3. QED
  BY <1>2, IdsGrow

(* Where the writes are that have to be there.                             *)
LEMMA SafeIs ==
  ASSUME FilesInv, RecoveryInv, phase = "open", NEW i \in safe
  PROVE  \/ i \in Ids(mem) /\ InLog(i)
         \/ imm # << >> /\ i \in Ids(imm[1])
         \/ i \in Ids(Entries(version))
<1>1. i \in Ids(Present) /\ (i \in Ids(mem) => InLog(i))
  BY DEF RecoveryInv
<1>2. PICK x \in Present : i = x.id
  BY <1>1 DEF Ids
<1>3. CASE x \in mem
  BY <1>1, <1>2, <1>3 DEF Ids
<1>4. CASE x \in UNION Range(imm)
  <2>1. imm = << >> \/ imm = <<imm[1]>>
    BY DEF FilesInv, LogInv
  <2>2. imm # << >>
    BY <1>4, ImmIs
  <2>3. PICK y : y = imm[1]
    OBVIOUS
  <2>4. imm = <<y>>
    BY <2>1, <2>2, <2>3
  <2>5. UNION Range(imm) = y
    BY <2>4, ImmIs
  <2>6. QED
    BY <1>2, <1>4, <2>2, <2>3, <2>5 DEF Ids
<1>5. CASE x \in Entries(version)
  BY <1>2, <1>5 DEF Ids
<1>6. QED
  BY <1>2, <1>3, <1>4, <1>5, PresentIs

LEMMA EditFinds ==
  ASSUME TableInv, FilesInv, RecoveryInv, EditInv, phase = "open",
         bg.pc = "log", NoJunk(manifests[current].recs),
         NEW g, Extends(manifests[current], bg.edit, g), NEW i \in safe
  PROVE  Found(i, g.recs) /\ (wr[i].sync => FoundSynced(i, g.recs))
<1>1. PICK f, e, R, G : f = manifests[current] /\ e = bg.edit /\ R = f.recs /\ G = g.recs
  OBVIOUS
<1>2. /\ Saved(G) = (Saved(R) \ e.del) \cup e.add /\ LogOf(G) = e.log
      /\ R \in Readings(f) /\ Readable(R) = R
  BY <1>1 DEF Extends, LogOf
<1>3. /\ current # 0 /\ DOMAIN logs \subseteq 0 .. logNum /\ logNum \in DOMAIN logs
      /\ {minLog, logNum} \subseteq Nat /\ e.log \in Nat
  BY <1>1, WhileOpen DEF FilesInv, LogInv
<1>4. R # << >> /\ version \subseteq Saved(R) /\ minLog <= LogOf(R) /\ EditKeeps
  BY <1>1, EditInvIs DEF EditInv, DescriptorHas
<1>5. LogOf(R) \in Nat
  BY <1>1, <1>2, <1>3, <1>4 DEF FilesInv, LogInv
<1>6. CASE bg.kind # "flush"
  <2>1. Entries(e.del) \subseteq Entries(e.add) /\ e.log = minLog
    BY <1>1, <1>4, <1>6 DEF EditKeeps
  <2>2. Ids(Entries(Saved(R))) \subseteq Ids(Entries(Saved(G)))
    BY <1>2, <2>1, EntriesReplaced
  <2>3. \A n \in DOMAIN logs : LogOf(R) <= n => LogOf(G) <= n
    BY <1>2, <1>3, <1>4, <1>5, <2>1
  <2>4. Found(i, R) /\ (wr[i].sync => FoundSynced(i, R))
    BY <1>1, <1>2, <1>3, <1>4 DEF RecoveryInv, FoundAgain
  <2>5. Found(i, G)
    BY <2>2, <2>3, <2>4 DEF Found
  <2>6. wr[i].sync => FoundSynced(i, G)
    BY <2>2, <2>3, <2>4 DEF FoundSynced
  <2>7. QED
    BY <1>1, <2>5, <2>6
<1>7. CASE bg.kind = "flush"
  <2>1. e.del = {} /\ e.log = logNum /\ imm[1] \subseteq Entries(e.add)
    BY <1>1, <1>4, <1>7 DEF EditKeeps
  <2>2. version \subseteq Saved(G) /\ e.add \subseteq Saved(G)
    BY <1>2, <1>4, <2>1
  <2>3. CASE i \in Ids(mem) /\ InLog(i)
    <3>1. LogOf(G) <= logNum
      BY <1>2, <1>3, <2>1
    <3>2. QED
      BY <1>1, <1>3, <2>3, <3>1 DEF InLog, Found, FoundSynced
  <2>4. CASE i \in Ids(imm[1]) \/ i \in Ids(Entries(version))
    <3>1. /\ Ids(imm[1]) \subseteq Ids(Entries(e.add))
          /\ Ids(Entries(e.add)) \subseteq Ids(Entries(Saved(G)))
          /\ Ids(Entries(version)) \subseteq Ids(Entries(Saved(G)))
      BY <2>1, <2>2, IdsGrow, EntriesMore
    <3>2. QED
      BY <1>1, <2>4, <3>1 DEF Found, FoundSynced
  <2>5. QED
    BY <2>3, <2>4, SafeIs
<1>8. QED
  BY <1>6, <1>7

(* The disk and the memory but for the descriptor.                         *)
SameRest ==
  /\ logs' = logs /\ tables' = tables /\ wr' = wr /\ safe' = safe /\ mem' = mem
  /\ imm' = imm /\ version' = version /\ logNum' = logNum /\ minLog' = minLog
  /\ phase' = phase

LEMMA SameFound ==
  ASSUME logs' = logs, tables' = tables, NEW i, NEW recs
  PROVE  /\ Found(i, recs)' = Found(i, recs)
         /\ FoundSynced(i, recs)' = FoundSynced(i, recs)
BY DEF Found, FoundSynced, Entries, Contents, Whole, OnlySynced

LEMMA RecoverySame ==
  ASSUME RecoveryInv, phase = "open", SameRest, current' = current, current # 0,
         NEW g, g = manifests'[current],
         \A i \in safe :
           /\ Readable(g.recs) # << >> => Found(i, Readable(g.recs))
           /\ wr[i].sync => \A recs \in Readings(g) \ {<< >>} : FoundSynced(i, recs)
  PROVE  RecoveryInv'
<1>1. ASSUME NEW i \in safe
      PROVE  /\ Readable(g.recs) # << >> => Found(i, Readable(g.recs))'
             /\ wr'[i].sync => \A recs \in Readings(g) \ {<< >>} : FoundSynced(i, recs)'
  BY SameFound DEF SameRest
<1>2. FoundAgain(manifests[current])'
  BY <1>1 DEF FoundAgain, SameRest
<1>3. Present' = Present
  BY DEF Present, Contents, SameRest
<1>4. \A i : InLog(i)' = InLog(i)
  BY DEF InLog, Whole, OnlySynced, SameRest
<1>5. QED
  BY <1>2, <1>3, <1>4 DEF RecoveryInv, SameRest

LEMMA RecoveryLogEdit ==
  ASSUME TableInv, FilesInv, RecoveryInv, EditInv, phase = "open", LogEdit
  PROVE  RecoveryInv'
<1>1. PICK f, g : f = manifests[current] /\ g = manifests'[current]
  OBVIOUS
<1>2. /\ current' = current /\ current # 0
      /\ (Extends(f, bg.edit, g) /\ NoJunk(f.recs)) \/ NoMore(f, g)
  BY <1>1, LogEditDescriptor, WhileOpen
<1>3. SameRest /\ bg.pc = "log"
  BY DEF LogEdit, SameRest, control, numbers, data
<1>4. FoundAgain(f)
  BY <1>1, <1>2 DEF RecoveryInv
<1>5. ASSUME NEW i \in safe
      PROVE  /\ Readable(g.recs) # << >> => Found(i, Readable(g.recs))
             /\ wr[i].sync => \A recs \in Readings(g) \ {<< >>} : FoundSynced(i, recs)
  <2>1. CASE Extends(f, bg.edit, g) /\ NoJunk(f.recs)
    <3>1. Found(i, g.recs) /\ (wr[i].sync => FoundSynced(i, g.recs))
      BY <1>1, <1>2, <1>3, <2>1, EditFinds
    <3>2. Readable(g.recs) = g.recs /\ \A recs \in Readings(g) : recs \in Readings(f) \/ recs = g.recs
      BY <2>1 DEF Extends
    <3>3. QED
      BY <1>4, <3>1, <3>2 DEF FoundAgain
  <2>2. CASE NoMore(f, g)
    BY <1>4, <2>2 DEF FoundAgain, NoMore
  <2>3. QED
    BY <1>2, <2>1, <2>2
<1>6. QED
  BY <1>1, <1>2, <1>3, <1>5, RecoverySame

LEMMA EditLogEdit ==
  ASSUME TableInv, FilesInv, EditInv, phase = "open", LogEdit
  PROVE  EditInv'
<1>1. PICK f, g, e : f = manifests[current] /\ g = manifests'[current] /\ e = bg.edit
  OBVIOUS
<1>2. /\ current' = current /\ Locals(bg)
      /\ NoJunk(g.recs) => Extends(f, e, g) /\ NoJunk(f.recs)
  BY <1>1, LogEditDescriptor, WhileOpen
<1>3. SameRest /\ bg.pc = "log" /\ bg' = [bg EXCEPT !.pc = "sync"]
  BY DEF LogEdit, SameRest, control, numbers, data
<1>4. bg'.pc = "sync" /\ bg'.edit = e /\ bg'.kind = bg.kind
  BY <1>1, <1>2, <1>3 DEF Locals
<1>5. EditKeeps /\ DescriptorHas(version, minLog) /\ e.log \in Nat
  BY <1>1, <1>3, EditInvIs DEF EditInv, FilesInv, LogInv
<1>6. EditKeeps'
  <2>1. \A v : Entries(v)' = Entries(v)
    BY <1>3 DEF Entries, Contents, SameRest
  <2>2. Entries(bg.edit.add)' = Entries(e.add) /\ Entries(bg.edit.del)' = Entries(e.del)
    BY <1>4, <2>1 DEF Entries
  <2>3. QED
    BY <1>1, <1>3, <1>4, <1>5, <2>2 DEF EditKeeps, SameRest
<1>7. ASSUME NoJunk(g.recs)
      PROVE  /\ g.recs # << >> /\ (version \ e.del) \cup e.add \subseteq Saved(g.recs)
             /\ e.log <= LogOf(g.recs)
  <2>1. NoJunk(f.recs)
    BY <1>2, <1>7
  <2>2. version \subseteq Saved(f.recs)
    BY <1>1, <1>5, <2>1 DEF DescriptorHas
  <2>3. /\ Saved(g.recs) = (Saved(f.recs) \ e.del) \cup e.add
        /\ LogOf(g.recs) = e.log /\ g.recs # << >>
    BY <1>2, <1>7 DEF Extends, LogOf
  <2>4. QED
    BY <1>5, <2>2, <2>3
<1>8. DescriptorHas((version \ bg.edit.del) \cup bg.edit.add, bg.edit.log)'
  BY <1>1, <1>2, <1>3, <1>4, <1>7 DEF DescriptorHas, SameRest
<1>9. QED
  BY <1>4, <1>6, <1>8, EditInvIs DEF EditInv, EditKeeps

LEMMA RecoveryLogFails ==
  ASSUME TableInv, FilesInv, RecoveryInv, phase = "open", LogFails, DoneStays
  PROVE  RecoveryInv'
<1>1. PICK f, g : f = manifests[current] /\ g = manifests'[current]
  OBVIOUS
<1>2. /\ current' = current /\ NoMore(f, g) /\ current # 0
      /\ GoodFile(current, f) /\ SyncedPart(f)
  BY <1>1, FailedDescriptor, WhileOpen
<1>3. /\ logs' = logs /\ tables' = tables /\ safe' = safe /\ mem' = mem
      /\ imm' = imm /\ version' = version /\ logNum' = logNum /\ phase' = phase
  BY DEF LogFails, numbers
<1>4. /\ FoundAgain(f) /\ \A i \in safe : i \in Writes /\ wr[i].pc = "done"
  BY <1>1, <1>2 DEF RecoveryInv
<1>5. LogsGrow /\ \A v : Holds(v)
  BY <1>3, LogsSame DEF Holds, Contents
<1>6. ASSUME NEW i \in safe
      PROVE  /\ Readable(g.recs) # << >> => Found(i, Readable(g.recs))'
             /\ wr'[i].sync => \A recs \in Readings(g) \ {<< >>} : FoundSynced(i, recs)'
  <2>1. Readings(g) \subseteq Readings(f) /\ Readable(g.recs) = Readable(f.recs)
    BY <1>2 DEF NoMore
  <2>2. QED
    BY <1>2, <1>4, <1>5, <2>1, AgainStays
<1>7. FoundAgain(manifests[current])'
  BY <1>1, <1>2, <1>3, <1>6 DEF FoundAgain
<1>8. Present' = Present
  BY <1>3 DEF Present, Contents
<1>9. \A i \in safe : wr'[i] = wr[i]
  BY <1>4 DEF DoneStays
<1>10. \A i \in safe : InLog(i)' = InLog(i)
  BY <1>3, <1>9 DEF InLog, Whole, OnlySynced
<1>11. QED
  BY <1>2, <1>3, <1>7, <1>8, <1>9, <1>10 DEF RecoveryInv

LEMMA EditLogFails ==
  ASSUME TableInv, FilesInv, EditInv, phase = "open", LogFails
  PROVE  EditInv'
<1>1. PICK f, g, e : f = manifests[current] /\ g = manifests'[current] /\ e = bg.edit
  OBVIOUS
<1>2. /\ current' = current /\ NoMore(f, g)
  BY <1>1, FailedDescriptor
<1>3. /\ version' = version /\ minLog' = minLog /\ phase' = "open" /\ bgError'
      /\ bg.pc \in {"log", "sync"}
  BY DEF LogFails, numbers, Fail
<1>4. bg'.pc = "idle" \/ (bg'.pc = "compact" /\ bg.kind = "flush")
  BY BuildEnds DEF LogFails, Fail
<1>5. EditKeeps
  BY <1>3, EditInvIs
<1>6. ASSUME bg.kind = "flush", NoJunk(g.recs)
      PROVE  g.recs # << >> /\ version \subseteq Saved(g.recs) /\ minLog <= LogOf(g.recs)
  <2>1. g.recs = f.recs /\ e.del = {} /\ e.log = logNum
    BY <1>1, <1>2, <1>5, <1>6 DEF NoMore, EditKeeps
  <2>2. CASE bg.pc = "log"
    BY <1>1, <1>6, <2>1, <2>2 DEF EditInv, DescriptorHas
  <2>3. CASE bg.pc = "sync"
    <3>1. /\ f.recs # << >> /\ (version \ {}) \cup e.add \subseteq Saved(f.recs)
          /\ logNum <= LogOf(f.recs)
      BY <1>1, <1>6, <2>1, <2>3 DEF EditInv, DescriptorHas
    <3>2. /\ minLog \in Nat /\ logNum \in Nat /\ minLog <= logNum
      BY DEF FilesInv, LogInv
    <3>3. LogOf(f.recs) \in Nat
      <4>1. GoodFile(current, f) /\ SyncedPart(f) /\ f.recs \in Seq(Range(f.recs))
        BY <1>1, WhileOpen, GoodFileHas
      <4>2. Readable(f.recs) = f.recs
        BY <1>6, <2>1, <4>1, ReadableWhole
      <4>3. f.recs \in Readings(f)
        BY <4>1, <4>2, ReadingWhole
      <4>4. QED
        BY <1>1, <3>1, <4>3, WhileOpen DEF FilesInv, LogInv
    <3>4. QED
      BY <2>1, <3>1, <3>2, <3>3
  <2>4. QED
    BY <1>3, <2>2, <2>3
<1>7. bg'.pc = "compact" => DescriptorHas(version, minLog)'
  BY <1>1, <1>2, <1>3, <1>4, <1>6 DEF DescriptorHas
<1>8. QED
  BY <1>3, <1>4, <1>7 DEF EditInv

-----------------------------------------------------------------------------
(* Apply, with its DeleteObsoleteFiles.                                    *)

(* The logs that a recovery reads with these records stay.                 *)
LogsFrom(n) == \A m \in DOMAIN logs : n <= m => m \in DOMAIN logs' /\ logs'[m] = logs[m]

LEMMA FoundLeft ==
  ASSUME NEW recs, LogsFrom(LogOf(recs)), Holds(Saved(recs)), NEW i
  PROVE  /\ Found(i, recs) => Found(i, recs)'
         /\ FoundSynced(i, recs) => FoundSynced(i, recs)'
<1>1. Ids(Entries(Saved(recs))) \subseteq Ids(Entries(Saved(recs))')
  <2>1. PICK v : v = Saved(recs)
    OBVIOUS
  <2>2. Ids(Entries(v)) \subseteq Ids(Entries(v)')
    BY <2>1, EntriesStay
  <2>3. Entries(Saved(recs))' = Entries(v)'
    BY <2>1 DEF Entries
  <2>4. QED
    BY <2>1, <2>2, <2>3
<1>2. ASSUME NEW n \in DOMAIN logs, LogOf(recs) <= n
      PROVE  /\ n \in DOMAIN logs' /\ Whole(n)' = Whole(n)
             /\ OnlySynced(n)' = OnlySynced(n)
  BY <1>2 DEF LogsFrom, Whole, OnlySynced
<1>3. ASSUME Found(i, recs) PROVE Found(i, recs)'
  BY <1>1, <1>2, <1>3 DEF Found
<1>4. ASSUME FoundSynced(i, recs) PROVE FoundSynced(i, recs)'
  BY <1>1, <1>2, <1>4 DEF FoundSynced
<1>5. QED
  BY <1>3, <1>4

(* What Apply deletes, if anything, no version that counts needs.          *)
LEMMA ApplyKeeps ==
  ASSUME TableInv, FilesInv, EditInv, phase = "open", Apply,
         NEW R, R = Readable(manifests[current].recs), R # << >>
  PROVE  Holds(version') /\ Holds(Saved(R)) /\ LogsFrom(LogOf(R))
<1>1. PICK f, e, v : /\ f = manifests[current] /\ e = bg.edit
                     /\ v = (version \ e.del) \cup e.add
  OBVIOUS
<1>2. bg.pc = "sync" /\ version' = v /\ minLog' = e.log
  BY <1>1 DEF Apply
<1>3. CASE bgError \/ bg.kind = "move"
  <2>1. tables' = tables /\ logs' = logs
    BY <1>3 DEF Apply
  <2>2. QED
    BY <2>1 DEF Holds, Contents, LogsFrom
<1>4. CASE ~bgError /\ bg.kind # "move"
  <2>1. PICK live : /\ Nums(v) \subseteq live
                    /\ tables' = Without(tables, DOMAIN tables \ live)
    BY <1>2, <1>4 DEF Apply
  <2>2. logs' = Without(logs, {n \in DOMAIN logs : n < e.log})
    BY <1>2, <1>4 DEF Apply
  <2>3. NoJunk(f.recs) /\ Saved(f.recs) = v
    BY <1>1, <1>2, <1>4 DEF TableInv, VersionInv
  <2>4. GoodFile(current, f) /\ SyncedPart(f) /\ f.recs \in Seq(Range(f.recs))
        /\ current # 0
    BY <1>1, WhileOpen, GoodFileHas
  <2>5. R = f.recs
    BY <1>1, <2>3, <2>4, ReadableWhole
  <2>6. e.log <= LogOf(R)
    BY <1>1, <1>2, <2>3, <2>5 DEF EditInv, DescriptorHas
  <2>7. R \in Readings(f)
    BY <1>1, <2>4, ReadingWhole
  <2>8. LogOf(R) \in Nat /\ e.log \in Nat /\ DOMAIN logs \subseteq Nat
    BY <1>1, <1>2, <2>4, <2>7 DEF FilesInv, LogInv, TableInv, WriteInv, DescriptorInv
  <2>9. LogsFrom(LogOf(R))
    <3>1. ASSUME NEW m \in DOMAIN logs, LogOf(R) <= m
          PROVE  m \in DOMAIN logs' /\ logs'[m] = logs[m]
      <4>1. ~(m < e.log)
        BY <2>6, <2>8, <3>1
      <4>2. QED
        BY <2>2, <4>1 DEF Without, Restrict
    <3>2. QED
      BY <3>1 DEF LogsFrom
  <2>10. Holds(v)
    BY <2>1 DEF Holds, Contents, Without, Restrict
  <2>11. QED
    BY <1>2, <2>3, <2>5, <2>9, <2>10
<1>5. QED
  BY <1>3, <1>4

LEMMA VersionHolds ==
  ASSUME TableInv, phase = "open", Apply
  PROVE  Holds(version')
<1>1. CASE bgError \/ bg.kind = "move"
  <2>1. tables' = tables
    BY <1>1 DEF Apply
  <2>2. QED
    BY <2>1 DEF Holds, Contents
<1>2. CASE ~bgError /\ bg.kind # "move"
  <2>1. PICK v : v = version'
    OBVIOUS
  <2>2. PICK live : /\ Nums(v) \subseteq live
                    /\ tables' = Without(tables, DOMAIN tables \ live)
    BY <1>2, <2>1 DEF Apply
  <2>3. Holds(v)
    BY <2>2 DEF Holds, Contents, Without, Restrict
  <2>4. QED
    BY <2>1, <2>3
<1>3. QED
  BY <1>1, <1>2

LEMMA RecoveryApply ==
  ASSUME TableInv, FilesInv, FilesInv', RecoveryInv, EditInv, phase = "open",
         Apply, DoneStays
  PROVE  RecoveryInv'
<1>1. PICK f, g, e, R : /\ f = manifests[current] /\ g = manifests'[current]
                        /\ e = bg.edit /\ R = Readable(f.recs)
  OBVIOUS
<1>2. /\ current' = current /\ g.recs = f.recs /\ current # 0
      /\ Readings(g) = {R} /\ R \in Readings(f)
  BY <1>1, ApplyDescriptor, WhileOpen
<1>3. /\ safe' = safe /\ mem' = mem /\ phase' = "open" /\ bg.pc = "sync"
      /\ version' = (version \ e.del) \cup e.add /\ logNum' = logNum
      /\ imm' = IF bg.kind = "flush" THEN << >> ELSE imm
  BY <1>1 DEF Apply, history
<1>4. /\ FoundAgain(f) /\ \A i \in safe : i \in Writes /\ wr[i].pc = "done"
      /\ \A n \in DOMAIN logs : NoJunk(logs[n].recs)
  BY <1>1, <1>2 DEF RecoveryInv
<1>5. LogsAreFiles /\ logNum' \in DOMAIN logs'
  BY <1>3 DEF FilesInv, LogInv, LogsAreFiles
<1>6. DOMAIN logs' \subseteq DOMAIN logs /\ \A n \in DOMAIN logs' : logs'[n] = logs[n]
  BY <1>5, LoggedLogs
<1>7. \A i \in safe : wr'[i] = wr[i]
  BY <1>4 DEF DoneStays
<1>8. ASSUME NEW i \in safe, R # << >>
      PROVE  Found(i, R)' /\ (wr[i].sync => FoundSynced(i, R)')
  <2>1. Holds(Saved(R)) /\ LogsFrom(LogOf(R))
    BY <1>1, <1>8, ApplyKeeps
  <2>2. Found(i, R) /\ (wr[i].sync => FoundSynced(i, R))
    BY <1>1, <1>2, <1>4, <1>8 DEF FoundAgain
  <2>3. QED
    BY <2>1, <2>2, FoundLeft
<1>9. FoundAgain(g)'
  <2>1. ASSUME NEW i \in safe
        PROVE  /\ Readable(g.recs) # << >> => Found(i, Readable(g.recs))'
               /\ wr'[i].sync => \A recs \in Readings(g) \ {<< >>} : FoundSynced(i, recs)'
    <3>1. Readable(g.recs) = R
      BY <1>1, <1>2
    <3>2. Found(i, Readable(g.recs))' = Found(i, R)'
      BY <3>1 DEF Found
    <3>3. \A recs \in Readings(g) \ {<< >>} : recs = R /\ R # << >>
      BY <1>2
    <3>4. QED
      BY <1>7, <1>8, <3>1, <3>2, <3>3
  <2>2. QED
    BY <1>3, <2>1 DEF FoundAgain
<1>10. FoundAgain(manifests[current])'
  BY <1>1, <1>2, <1>9 DEF FoundAgain
<1>11. safe' \subseteq Ids(Present')
  <2>1. PICK v : v = version'
    OBVIOUS
  <2>2. Ids(Entries(v)) \subseteq Ids(Entries(v)')
    BY <2>1, VersionHolds, EntriesStay
  <2>3. Entries(version)' = Entries(v)'
    BY <2>1 DEF Entries
  <2>4. Entries(version)' \subseteq Present' /\ mem' \subseteq Present'
    BY PresentIs
  <2>5. Ids(Entries(v)) \subseteq Ids(Present') /\ Ids(mem) \subseteq Ids(Present')
    BY <1>3, <2>2, <2>3, <2>4, IdsGrow
  <2>6. EditKeeps
    BY <1>3, EditInvIs
  <2>7. Ids(Entries(version)) \subseteq Ids(Entries(v))
    <3>1. CASE bg.kind = "flush"
      <4>1. version \subseteq v
        BY <1>1, <1>3, <2>1, <2>6, <3>1 DEF EditKeeps
      <4>2. QED
        BY <4>1, EntriesMore
    <3>2. CASE bg.kind # "flush"
      <4>1. Entries(e.del) \subseteq Entries(e.add)
        BY <1>1, <2>6, <3>2 DEF EditKeeps
      <4>2. PICK old, del, add : old = version /\ del = e.del /\ add = e.add
        OBVIOUS
      <4>3. Entries(del) \subseteq Entries(add) /\ v = (old \ del) \cup add
        BY <1>3, <2>1, <4>1, <4>2
      <4>4. Ids(Entries(old)) \subseteq Ids(Entries(v))
        BY <4>3, EntriesReplaced
      <4>5. QED
        BY <4>2, <4>4
    <3>3. QED
      BY <3>1, <3>2
  <2>8. imm # << >> => Ids(imm[1]) \subseteq Ids(Present')
    <3>1. CASE bg.kind = "flush"
      <4>1. imm[1] \subseteq Entries(e.add)
        BY <1>1, <2>6, <3>1 DEF EditKeeps
      <4>2. e.add \subseteq v
        BY <1>3, <2>1
      <4>3. Ids(imm[1]) \subseteq Ids(Entries(e.add))
        BY <4>1, IdsGrow
      <4>4. Ids(Entries(e.add)) \subseteq Ids(Entries(v))
        BY <4>2, EntriesMore
      <4>5. QED
        BY <2>5, <4>3, <4>4
    <3>2. CASE bg.kind # "flush" /\ imm # << >>
      <4>1. imm' = imm /\ imm = <<imm[1]>>
        BY <1>3, <3>2 DEF FilesInv, LogInv
      <4>2. PICK x : x = imm[1]
        OBVIOUS
      <4>3. UNION Range(imm') = x
        BY <4>1, <4>2, ImmIs
      <4>4. x \subseteq Present'
        BY <4>3, PresentIs
      <4>5. QED
        BY <4>2, <4>4, IdsGrow
    <3>3. QED
      BY <3>1, <3>2
  <2>9. QED
    BY <1>3, <2>5, <2>7, <2>8, SafeIs
<1>12. ASSUME NEW i \in safe, i \in Ids(mem) PROVE InLog(i)'
  <2>1. InLog(i)
    BY <1>12 DEF RecoveryInv
  <2>2. logs'[logNum] = logs[logNum]
    BY <1>3, <1>5, <1>6
  <2>3. QED
    BY <1>3, <1>7, <2>1, <2>2 DEF InLog, Whole, OnlySynced
<1>13. QED
  BY <1>2, <1>3, <1>4, <1>6, <1>7, <1>10, <1>11, <1>12 DEF RecoveryInv

LEMMA EditApply ==
  ASSUME TableInv, EditInv, phase = "open", Apply
  PROVE  EditInv'
<1>1. PICK f, g, e : f = manifests[current] /\ g = manifests'[current] /\ e = bg.edit
  OBVIOUS
<1>2. current' = current /\ g.recs = f.recs
  BY <1>1, ApplyDescriptor
<1>3. bg'.pc \in {"idle", "compact"}
  BY BuildEnds DEF Apply
<1>4. /\ bg.pc = "sync" /\ minLog' = e.log
      /\ version' = (version \ e.del) \cup e.add
  BY <1>1 DEF Apply
<1>5. DescriptorHas((version \ e.del) \cup e.add, e.log)
  BY <1>1, <1>4 DEF EditInv
<1>6. DescriptorHas(version, minLog)'
  BY <1>1, <1>2, <1>4, <1>5 DEF DescriptorHas
<1>7. QED
  BY <1>3, <1>6 DEF EditInv

-----------------------------------------------------------------------------
(* The end of the process, and of the machine.                             *)

LEMMA RecoveryLeaving ==
  ASSUME TableInv, FilesInv, RecoveryInv, Leaving, DoneStays, TableInv'
  PROVE  RecoveryInv'
<1>1. PICK f, g : f = manifests[current] /\ g = manifests'[current]
  OBVIOUS
<1>2. /\ phase' = "down" /\ current' = current /\ tables' = tables
      /\ safe' \subseteq safe
  BY DEF Leaving, Closed, Crash, PowerLoss, OpenFails, disk, Gone
<1>3. /\ LogsAreFiles /\ \A n \in DOMAIN logs : NoJunk(logs[n].recs)
      /\ \A i \in safe : i \in Writes /\ wr[i].pc = "done"
      /\ current = 0 => safe = {}
      /\ current # 0 => FoundAgain(f)
  BY <1>1 DEF FilesInv, LogInv, LogsAreFiles, RecoveryInv
<1>4. \A i \in safe : wr'[i] = wr[i]
  BY <1>3 DEF DoneStays
<1>5. current # 0 => /\ GoodFile(current, f) /\ SyncedPart(f)
                     /\ GoodFile(current, g) /\ SyncedPart(g)
  <2>1. current # 0 => /\ current \in DOMAIN manifests /\ AllGood(manifests)
                       /\ OnDisk(tables, f)
    BY <1>1 DEF TableInv, WriteInv, DescriptorInv, VersionInv
  <2>2. current # 0 => /\ current \in DOMAIN manifests' /\ AllGood(manifests')
                       /\ OnDisk(tables', g)
    BY <1>1, <1>2 DEF TableInv, WriteInv, DescriptorInv, VersionInv
  <2>3. QED
    BY <1>1, <2>1, <2>2 DEF AllGood, OnDisk, SyncedPart
<1>6. \A v : Holds(v)
  BY <1>2 DEF Holds, Contents
<1>7. CASE PowerLoss
  <2>1. PICK cut \in Cuts(logs) : logs' = Cut(logs, cut)
    BY <1>7 DEF PowerLoss
  <2>2. /\ DOMAIN logs' = DOMAIN logs
        /\ \A n \in DOMAIN logs : /\ OnlySynced(n) \subseteq Whole(n)'
                                  /\ Whole(n)' = OnlySynced(n)'
                                  /\ NoJunk(logs[n].recs) => NoJunk(logs'[n].recs)
    BY <1>3, <2>1, LogsAreCut
  <2>3. \A n \in DOMAIN logs' : NoJunk(logs'[n].recs)
    BY <1>3, <2>2
  <2>4. \A i \in safe' : i \in safe /\ wr[i].sync
    BY <1>7 DEF PowerLoss
  <2>5. ASSUME NEW i \in safe', NEW recs, FoundSynced(i, recs)
        PROVE  Found(i, recs)' /\ FoundSynced(i, recs)'
    <3>1. Ids(Entries(Saved(recs)))' = Ids(Entries(Saved(recs)))
      BY <1>2 DEF Ids, Entries, Contents
    <3>2. ASSUME NEW n \in DOMAIN logs
          PROVE  /\ Ids(OnlySynced(n)) \subseteq Ids(Whole(n)')
                 /\ Ids(OnlySynced(n)) \subseteq Ids(OnlySynced(n)')
      BY <2>2, IdsGrow
    <3>3. CASE i \in Ids(Entries(Saved(recs)))
      BY <3>1, <3>3 DEF Found, FoundSynced
    <3>4. CASE \E n \in DOMAIN logs : LogOf(recs) <= n /\ i \in Ids(OnlySynced(n))
      BY <2>2, <3>2, <3>4 DEF Found, FoundSynced
    <3>5. QED
      BY <2>5, <3>3, <3>4 DEF FoundSynced
  <2>6. ASSUME current # 0 PROVE FoundAgain(g)'
    <3>1. Readings(g) \subseteq Readings(f)
      BY <1>1, <1>7, <2>6, CurrentCut DEF PowerLoss
    <3>2. Readable(g.recs) \in Readings(g)
      BY <1>5, <2>6, ReadingWhole
    <3>3. ASSUME NEW i \in safe', NEW recs \in Readings(g) \ {<< >>}
          PROVE  Found(i, recs)' /\ FoundSynced(i, recs)'
      <4>1. FoundSynced(i, recs)
        BY <1>3, <2>4, <2>6, <3>1 DEF FoundAgain
      <4>2. QED
        BY <2>5, <4>1
    <3>4. ASSUME NEW i \in safe', Readable(g.recs) # << >>
          PROVE  Found(i, Readable(g.recs))'
      <4>1. PICK recs : recs = Readable(g.recs)
        OBVIOUS
      <4>2. Found(i, recs)'
        BY <3>2, <3>3, <3>4, <4>1
      <4>3. QED
        BY <4>1, <4>2 DEF Found
    <3>5. QED
      BY <3>3, <3>4 DEF FoundAgain
  <2>7. current # 0 => FoundAgain(manifests[current])'
    BY <1>1, <1>2, <2>6 DEF FoundAgain
  <2>8. QED
    BY <1>2, <1>3, <1>4, <2>3, <2>7 DEF RecoveryInv
<1>8. CASE ~PowerLoss
  <2>1. logs' = logs /\ safe' = safe
    BY <1>8 DEF Leaving, Closed, Crash, OpenFails, disk
  <2>2. LogsGrow
    BY <2>1, LogsSame
  <2>3. ASSUME current # 0 PROVE FoundAgain(g)'
    <3>1. g = f
      BY <1>1, <1>8, <2>3, CurrentLeft
    <3>2. ASSUME NEW i \in safe
          PROVE  /\ Readable(g.recs) # << >> => Found(i, Readable(g.recs))'
                 /\ wr'[i].sync => \A recs \in Readings(g) \ {<< >>} : FoundSynced(i, recs)'
      <4>1. Readings(g) \subseteq Readings(f) /\ Readable(g.recs) = Readable(f.recs)
        BY <3>1
      <4>2. QED
        BY <1>3, <1>5, <1>6, <2>2, <2>3, <4>1, AgainStays
    <3>3. QED
      BY <2>1, <3>2 DEF FoundAgain
  <2>4. current # 0 => FoundAgain(manifests[current])'
    BY <1>1, <1>2, <2>3 DEF FoundAgain
  <2>5. QED
    BY <1>2, <1>3, <1>4, <2>1, <2>4 DEF RecoveryInv
<1>9. QED
  BY <1>7, <1>8

-----------------------------------------------------------------------------
(* DB::Open.                                                               *)

(* What DB::Open leaves of the descriptor CURRENT names, and of its files. *)
LEMMA AgainOpening ==
  ASSUME TableInv, RecoveryInv, Opening, current # 0, current' = current,
         manifests'[current] = manifests[current],
         LogsGrow \/ \A recs \in Readings(manifests[current]) \ {<< >>} : LogsFrom(LogOf(recs)),
         \A recs \in Readings(manifests[current]) : Holds(Saved(recs))
  PROVE  FoundAgain(manifests[current])'
<1>1. PICK f : f = manifests[current]
  OBVIOUS
<1>2. GoodFile(current, f) /\ SyncedPart(f) /\ FoundAgain(f)
  BY <1>1, WhileOpening DEF RecoveryInv
<1>3. Readable(f.recs) \in Readings(f)
  BY <1>2, ReadingWhole
<1>4. wr' = wr /\ safe' = safe
  BY DEF Opening, Open, NewDB, Recover, RecoverLogFile, NewLog, Describe, history
<1>5. ASSUME NEW recs \in Readings(f) \ {<< >>}, NEW i
      PROVE  /\ Found(i, recs) => Found(i, recs)'
             /\ FoundSynced(i, recs) => FoundSynced(i, recs)'
  <2>1. Holds(Saved(recs)) /\ (LogsGrow \/ LogsFrom(LogOf(recs)))
    BY <1>1
  <2>2. QED
    BY <2>1, FoundStays, FoundLeft
<1>6. ASSUME NEW i \in safe, Readable(f.recs) # << >>
      PROVE  Found(i, Readable(f.recs))'
  <2>1. PICK recs : recs = Readable(f.recs)
    OBVIOUS
  <2>2. Found(i, recs)
    BY <1>2, <1>6, <2>1 DEF FoundAgain
  <2>3. Found(i, recs)'
    BY <1>3, <1>5, <1>6, <2>1, <2>2
  <2>4. QED
    BY <2>1, <2>3 DEF Found
<1>7. ASSUME NEW i \in safe, wr[i].sync, NEW recs \in Readings(f) \ {<< >>}
      PROVE  FoundSynced(i, recs)'
  BY <1>2, <1>5, <1>7 DEF FoundAgain
<1>8. QED
  BY <1>1, <1>4, <1>6, <1>7 DEF FoundAgain

LEMMA RecoveryBegins ==
  ASSUME TableInv, FilesInv, RecoveryInv, Open \/ NewDB \/ Recover
  PROVE  RecoveryInv'
<1>0. Opening
  BY DEF Opening
<1>1. /\ logs' = logs /\ tables' = tables /\ wr' = wr /\ safe' = safe
  BY DEF Open, NewDB, Recover, disk, history
<1>2. /\ \A n \in DOMAIN logs' : NoJunk(logs'[n].recs)
      /\ \A i \in safe' : i \in Writes /\ wr'[i].pc = "done"
      /\ current = 0 => safe = {}
  BY <1>1 DEF RecoveryInv
<1>3. LogsGrow /\ \A v : Holds(v)
  BY <1>1, LogsSame DEF Holds, Contents
<1>4. ASSUME current # 0 PROVE current' = current /\ manifests' = manifests
  <2>1. phase \notin {"create", "install"}
    BY <1>4 DEF TableInv, WriteInv, DescriptorInv
  <2>2. QED
    BY <2>1 DEF Open, NewDB, Recover, disk
<1>5. current' # 0 => FoundAgain(manifests[current])'
  <2>1. CASE current # 0
    BY <1>0, <1>3, <1>4, <2>1, AgainOpening
  <2>2. CASE current = 0
    BY <1>1, <1>2, <2>2 DEF FoundAgain
  <2>3. QED
    BY <2>1, <2>2
<1>6. current' = 0 => safe' = {}
  BY <1>1, <1>2, <1>4
<1>7. phase' \in {"create", "recover", "install", "corrupt", "replay"}
  BY DEF Open, NewDB, Recover
<1>8. ASSUME phase' = "replay", NEW i \in safe
      PROVE  \/ i \in Ids(Entries(version)')
             \/ \E n \in toReplay' : i \in Ids(Whole(n)')
  <2>1. PICK R : R = Readable(manifests[current].recs)
    OBVIOUS
  <2>2. /\ Recover /\ R # << >> /\ version' = Saved(R)
        /\ toReplay' = {n \in DOMAIN logs : n >= LogOf(R)}
    BY <1>8, <2>1 DEF Open, NewDB, Recover, LogOf
  <2>3. current # 0
    BY <2>2 DEF Recover, TableInv, WriteInv, DescriptorInv
  <2>4. Found(i, R)
    BY <1>8, <2>1, <2>2, <2>3 DEF RecoveryInv, FoundAgain
  <2>5. CASE i \in Ids(Entries(Saved(R)))
    <3>1. Entries(version)' = Entries(Saved(R))
      BY <1>1, <2>2 DEF Entries, Contents
    <3>2. QED
      BY <2>5, <3>1
  <2>6. CASE \E n \in DOMAIN logs : LogOf(R) <= n /\ i \in Ids(Whole(n))
    <3>1. PICK n \in DOMAIN logs : LogOf(R) <= n /\ i \in Ids(Whole(n))
      BY <2>6
    <3>2. n \in toReplay'
      <4>1. n >= LogOf(R)
        BY <3>1
      <4>2. QED
        BY <2>2, <4>1
    <3>3. Whole(n)' = Whole(n)
      BY <1>1 DEF Whole
    <3>4. QED
      BY <3>1, <3>2, <3>3
  <2>7. QED
    BY <2>4, <2>5, <2>6 DEF Found
<1>9. phase' = "replay" =>
        \A i \in safe' : \/ i \in Ids(Entries(version))'
                         \/ \E n \in toReplay' : i \in Ids(Whole(n))'
  BY <1>1, <1>8 DEF Ids
<1>10. QED
  BY <1>2, <1>5, <1>6, <1>7, <1>9 DEF RecoveryInv

(* A log of the old ones becomes a table.                                  *)
LEMMA RecoveryReplay ==
  ASSUME TableInv, FilesInv, RecoveryInv, RecoverLogFile
  PROVE  RecoveryInv'
<1>0. Opening
  BY DEF Opening
<1>1. PICK n, es, f : /\ n = Min(toReplay) /\ es = EntriesOf(logs[n].recs)
                      /\ f = manifests[current]
  OBVIOUS
<1>2. /\ phase = "replay" /\ phase' = "replay" /\ logs' = logs /\ wr' = wr
      /\ safe' = safe /\ current' = current /\ manifests' = manifests
      /\ toReplay' = toReplay \ {n}
  BY <1>1 DEF RecoverLogFile, history
<1>3. \/ es = {} /\ tables' = tables /\ version' = version
      \/ /\ tables' = Put(tables, nextFile, es)
         /\ version' = version \cup {<<nextFile, 0>>}
  BY <1>1 DEF RecoverLogFile
<1>4. /\ current # 0 /\ GoodFile(current, f) /\ SyncedPart(f) /\ OnDisk(tables, f)
      /\ nextFile \in Nat /\ Sound(tables, nextFile, version) /\ Below(nextFile, f)
  BY <1>0, <1>1, <1>2, WhileOpening
     DEF TableInv, WriteInv, DescriptorInv, VersionInv
<1>5. \A k : k \in Nat /\ k < nextFile => Contents(k)' = Contents(k)
  BY <1>3, <1>4 DEF Contents, Put
<1>6. Holds(version)
  BY <1>4, <1>5 DEF Sound, Holds
<1>7. ASSUME NEW recs \in Readings(f) PROVE Holds(Saved(recs))
  <2>1. CASE recs = << >>
    BY <2>1, NothingSaved DEF Holds
  <2>2. CASE recs # << >>
    <3>1. NextOf(recs) \in Nat
      BY <1>4, <2>2, ReadingGood
    <3>2. NextOf(recs) <= nextFile /\ Sound(tables, NextOf(recs), Saved(recs))
      BY <1>4, <2>2 DEF Below, OnDisk
    <3>3. \A k \in Nums(Saved(recs)) : k \in Nat /\ k < nextFile
      BY <1>4, <3>1, <3>2 DEF Sound
    <3>4. QED
      BY <1>5, <3>3 DEF Holds
  <2>3. QED
    BY <2>1, <2>2
<1>8. LogsGrow
  BY <1>2, LogsSame
<1>9. FoundAgain(manifests[current])'
  BY <1>0, <1>1, <1>2, <1>4, <1>7, <1>8, AgainOpening
<1>10. Entries(version) \subseteq Entries(version)' /\ es \subseteq Entries(version)'
  <2>1. PICK v, w : v = version /\ w = version'
    OBVIOUS
  <2>2. Entries(v) \subseteq Entries(v)'
    BY <1>6, <2>1, EntriesStay
  <2>3. v \subseteq w
    BY <1>3, <2>1
  <2>4. Entries(v)' \subseteq Entries(w)'
    <3>1. Nums(v) \subseteq Nums(w)
      BY <2>3 DEF Nums
    <3>2. QED
      BY <3>1 DEF Entries
  <2>5. es \subseteq Entries(w)'
    <3>1. CASE es = {}
      BY <3>1
    <3>2. CASE es # {}
      <4>2. PICK k : k = nextFile
        OBVIOUS
      <4>3. tables' = Put(tables, k, es) /\ <<k, 0>> \in w
        BY <1>3, <2>1, <3>2, <4>2
      <4>4. Contents(k)' = es
        BY <4>3 DEF Contents, Put
      <4>5. k \in Nums(w)
        <5>1. PICK t : t = <<k, 0>>
          OBVIOUS
        <5>2. t \in w /\ t[1] = k
          BY <4>3, <5>1
        <5>3. QED
          BY <5>2 DEF Nums
      <4>6. QED
        BY <4>4, <4>5 DEF Entries
    <3>3. QED
      BY <3>1, <3>2
  <2>6. Entries(version)' = Entries(w)'
    BY <2>1 DEF Entries
  <2>7. QED
    BY <2>1, <2>2, <2>4, <2>5, <2>6
<1>11. ASSUME NEW i \in safe
       PROVE  \/ i \in Ids(Entries(version)')
              \/ \E m \in toReplay' : i \in Ids(Whole(m)')
  <2>1. \/ i \in Ids(Entries(version))
        \/ \E m \in toReplay : i \in Ids(Whole(m))
    BY <1>2 DEF RecoveryInv
  <2>2. CASE i \in Ids(Entries(version))
    BY <1>10, <2>2, IdsGrow
  <2>3. CASE \E m \in toReplay : i \in Ids(Whole(m))
    <3>1. PICK m \in toReplay : i \in Ids(Whole(m))
      BY <2>3
    <3>2. CASE m = n
      <4>1. Whole(m) = es
        BY <1>1, <3>2 DEF Whole
      <4>2. QED
        BY <1>10, <3>1, <4>1, IdsGrow
    <3>3. CASE m # n
      <4>1. m \in toReplay' /\ Whole(m)' = Whole(m)
        BY <1>2, <3>3 DEF Whole
      <4>2. QED
        BY <3>1, <4>1
    <3>4. QED
      BY <3>2, <3>3
  <2>4. QED
    BY <2>1, <2>2, <2>3
<1>12. \A i \in safe' : \/ i \in Ids(Entries(version))'
                        \/ \E m \in toReplay' : i \in Ids(Whole(m))'
  BY <1>2, <1>11 DEF Ids
<1>13. QED
  BY <1>2, <1>4, <1>9, <1>12 DEF RecoveryInv

LEMMA RecoveryNewLog ==
  ASSUME TableInv, FilesInv, RecoveryInv, NewLog
  PROVE  RecoveryInv'
<1>0. Opening
  BY DEF Opening
<1>1. /\ phase = "replay" /\ toReplay = {} /\ phase' = "describe"
      /\ logs' = Put(logs, nextFile, EmptyFile) /\ wr' = wr /\ safe' = safe
      /\ tables' = tables /\ version' = version
      /\ current' = current /\ manifests' = manifests
  BY DEF NewLog, data, history
<1>2. /\ current # 0 /\ nextFile \in Nat /\ LogsAreFiles
      /\ DOMAIN logs \subseteq 0 .. nextFile - 1
  BY <1>0, <1>1, WhileOpening
     DEF TableInv, WriteInv, DescriptorInv, FilesInv, LogInv, LogsAreFiles
<1>3. nextFile \notin DOMAIN logs
  BY <1>2
<1>4. LogsGrow
  BY <1>1, <1>2, <1>3, LogPut
<1>5. \A v : Holds(v)
  BY <1>1 DEF Holds, Contents
<1>6. FoundAgain(manifests[current])'
  BY <1>0, <1>1, <1>2, <1>4, <1>5, AgainOpening
<1>7. \A n \in DOMAIN logs' : NoJunk(logs'[n].recs)
  BY <1>1, EmptyLog DEF RecoveryInv, Put
<1>8. safe \subseteq Ids(Entries(version))
  BY <1>1 DEF RecoveryInv
<1>9. Entries(version)' = Entries(version) /\ Entries(version)' \subseteq Present'
  BY <1>1, PresentIs DEF Entries, Contents
<1>10. safe' \subseteq Ids(Present')
  BY <1>1, <1>8, <1>9, IdsGrow
<1>11. safe' \subseteq Ids(Present)'
  BY <1>10 DEF Ids
<1>12. QED
  BY <1>1, <1>2, <1>6, <1>7, <1>11 DEF RecoveryInv

(* While DB::Open ends, everything is in the tables.                       *)
LEMMA AllInTables ==
  ASSUME TableInv, FilesInv, RecoveryInv, phase \in {"describe", "name", "clean"}
  PROVE  safe \subseteq Ids(Entries(version)) /\ mem = {} /\ imm = << >>
<1>1. mem = {} /\ imm = << >>
  BY DEF FilesInv, LogInv, TableInv, WriteInv, WakeInv
<1>2. Present = Entries(version)
  BY <1>1, PresentIs, ImmIs
<1>3. QED
  BY <1>1, <1>2 DEF RecoveryInv

LEMMA RecoveryDescribe ==
  ASSUME TableInv, FilesInv, RecoveryInv, Describe
  PROVE  RecoveryInv'
<1>0. Opening
  BY DEF Opening
<1>1. /\ phase \in {"describe", "name", "clean"} /\ wr' = wr /\ safe' = safe
      /\ version' = version /\ mem' = mem /\ imm' = imm
      /\ logNum' = logNum /\ manifestNum' = manifestNum
  BY DEF Describe, data, history
<1>2. /\ current # 0 /\ current \in DOMAIN manifests /\ current \in Nat
      /\ logNum \in DOMAIN logs /\ DOMAIN logs \subseteq 0 .. logNum
      /\ logNum \in Nat /\ manifestNum \in Nat
      /\ GoodFile(current, manifests[current]) /\ SyncedPart(manifests[current])
  BY <1>0, <1>1, WhileOpening DEF TableInv, WriteInv, DescriptorInv, FilesInv, LogInv
<1>3. safe \subseteq Ids(Entries(version)) /\ mem = {} /\ imm = << >>
  BY <1>1, AllInTables
<1>4. /\ \A n \in DOMAIN logs : NoJunk(logs[n].recs)
      /\ \A i \in safe' : i \in Writes /\ wr'[i].pc = "done"
  BY <1>1 DEF RecoveryInv
<1>5. ASSUME Holds(version) PROVE safe' \subseteq Ids(Present)'
  <2>1. PICK v : v = version
    OBVIOUS
  <2>2. Ids(Entries(v)) \subseteq Ids(Entries(v)')
    BY <1>5, <2>1, EntriesStay
  <2>3. Entries(version)' = Entries(v)'
    BY <1>1, <2>1 DEF Entries
  <2>4. Ids(Entries(v)') \subseteq Ids(Present')
    BY <2>3, PresentIs, IdsGrow
  <2>5. Ids(Present)' = Ids(Present')
    BY DEF Ids
  <2>6. QED
    BY <1>1, <1>3, <2>1, <2>2, <2>4, <2>5
<1>6. ASSUME NEW i PROVE i \notin Ids(mem)'
  BY <1>1, <1>3 DEF Ids
<1>7. CASE phase = "describe"
  <2>1. /\ phase' = "name" /\ logs' = logs /\ tables' = tables /\ current' = current
        /\ manifests' = Put(manifests, manifestNum,
             Durably(Appended(EmptyFile, {Edit(version, {}, logNum)})))
    BY <1>7 DEF Describe
  <2>2. current # manifestNum
    <3>1. current < manifestNum
      BY <1>7 DEF TableInv, WriteInv, DescriptorInv
    <3>2. QED
      BY <1>2, <3>1
  <2>3. manifests'[current] = manifests[current]
    BY <1>2, <2>1, <2>2 DEF Put
  <2>4. LogsGrow /\ \A v : Holds(v)
    BY <2>1, LogsSame DEF Holds, Contents
  <2>5. FoundAgain(manifests[current])'
    BY <1>0, <1>2, <2>1, <2>3, <2>4, AgainOpening
  <2>6. safe' \subseteq Ids(Present)'
    BY <1>5, <2>4
  <2>7. QED
    BY <1>2, <1>4, <2>1, <2>5, <2>6 DEF RecoveryInv
<1>8. CASE phase = "name"
  <2>1. /\ phase' = "clean" /\ logs' = logs /\ tables' = tables
        /\ current' = manifestNum /\ manifests' = manifests
    BY <1>8 DEF Describe
  <2>2. PICK f : f = manifests[manifestNum]
    OBVIOUS
  <2>3. /\ Readings(f) = {f.recs} /\ Readable(f.recs) = f.recs
        /\ Saved(f.recs) = version
    BY <1>8, <2>2, NamedDescriptor DEF NamedIs
  <2>4. ASSUME NEW i \in safe PROVE Found(i, f.recs) /\ FoundSynced(i, f.recs)
    BY <1>3, <2>3 DEF Found, FoundSynced
  <2>5. ASSUME NEW i \in safe, NEW recs, recs = f.recs
        PROVE  Found(i, recs)' /\ FoundSynced(i, recs)'
    <3>1. Found(i, recs) /\ FoundSynced(i, recs)
      BY <2>4, <2>5
    <3>2. Found(i, recs)' = Found(i, recs) /\ FoundSynced(i, recs)' = FoundSynced(i, recs)
      BY <2>1, SameFound
    <3>3. QED
      BY <3>1, <3>2
  <2>6. manifests'[current'] = f
    BY <2>1, <2>2
  <2>7. FoundAgain(manifests[current])'
    BY <1>1, <2>3, <2>5, <2>6 DEF FoundAgain
  <2>8. Holds(version)
    BY <2>1 DEF Holds, Contents
  <2>9. safe' \subseteq Ids(Present)'
    BY <1>5, <2>8
  <2>10. current' # 0
    <3>1. current < manifestNum
      BY <1>8 DEF TableInv, WriteInv, DescriptorInv
    <3>2. QED
      BY <1>2, <2>1, <3>1
  <2>11. QED
    BY <1>4, <2>1, <2>7, <2>9, <2>10 DEF RecoveryInv
<1>9. CASE phase = "clean"
  <2>1. /\ phase' = "open" /\ current' = current
        /\ tables' = Without(tables, DOMAIN tables \ Live(version))
        /\ logs' = Without(logs, {n \in DOMAIN logs : n < minLog})
        /\ manifests' = Without(manifests, {n \in DOMAIN manifests : n < manifestNum})
    BY <1>9 DEF Describe, Collect
  <2>2. PICK f : f = manifests[current]
    OBVIOUS
  <2>3. /\ minLog = logNum /\ LogOf(f.recs) = logNum /\ current = manifestNum
        /\ Readings(f) = {f.recs} /\ NoJunk(f.recs) /\ Saved(f.recs) = version
    <3>1. ~bgError /\ bg.pc = "idle"
      BY <1>9 DEF TableInv, WriteInv, WakeInv
    <3>2. QED
      BY <1>9, <2>2, <3>1 DEF FilesInv, LogInv, TableInv, WriteInv, DescriptorInv, VersionInv
  <2>4. manifests'[current] = manifests[current]
    <3>1. ~(current < manifestNum)
      BY <1>2, <2>3
    <3>2. QED
      BY <1>2, <2>1, <3>1 DEF Without, Restrict
  <2>5. Holds(version)
    <3>1. Nums(version) \subseteq Live(version)
      BY DEF Live
    <3>2. QED
      BY <2>1, <3>1 DEF Holds, Contents, Without, Restrict
  <2>6. LogsFrom(logNum)
    <3>1. ASSUME NEW m \in DOMAIN logs, logNum <= m PROVE ~(m < minLog)
      BY <1>2, <2>3, <3>1
    <3>2. QED
      BY <2>1, <3>1 DEF LogsFrom, Without, Restrict
  <2>7. \A recs \in Readings(f) : Holds(Saved(recs)) /\ LogsFrom(LogOf(recs))
    BY <2>3, <2>5, <2>6
  <2>8. FoundAgain(manifests[current])'
    BY <1>0, <1>2, <2>1, <2>2, <2>4, <2>7, AgainOpening
  <2>9. \A n \in DOMAIN logs' : NoJunk(logs'[n].recs)
    BY <1>4, <2>1 DEF Without, Restrict
  <2>10. safe' \subseteq Ids(Present)'
    BY <1>5, <2>5
  <2>11. QED
    BY <1>2, <1>4, <1>6, <2>1, <2>8, <2>9, <2>10 DEF RecoveryInv
<1>10. QED
  BY <1>1, <1>7, <1>8, <1>9

LEMMA EditOpening ==
  ASSUME TableInv, FilesInv, Opening
  PROVE  EditInv'
<1>1. bg'.pc = "idle" /\ bg.pc = "idle" /\ phase # "open"
  BY WhileOpening
<1>2. CASE phase' # "open"
  BY <1>1, <1>2 DEF EditInv
<1>3. CASE phase' = "open"
  <2>1. /\ phase = "clean" /\ current' = current /\ minLog' = minLog
        /\ version' = version
        /\ manifests' = Without(manifests, {n \in DOMAIN manifests : n < manifestNum})
    BY <1>1, <1>3 DEF Opening, Open, NewDB, Recover, RecoverLogFile, NewLog,
       Describe, Collect, data
  <2>2. PICK f : f = manifests[current]
    OBVIOUS
  <2>3. /\ minLog = logNum /\ LogOf(f.recs) = logNum /\ current = manifestNum
        /\ f.recs # << >> /\ Saved(f.recs) = version /\ logNum \in Nat
        /\ current \in DOMAIN manifests /\ manifestNum \in Nat
    <3>1. ~bgError
      BY <2>1 DEF TableInv, WriteInv, WakeInv
    <3>2. QED
      BY <1>1, <2>1, <2>2, <3>1 DEF FilesInv, LogInv, TableInv, WriteInv, DescriptorInv, VersionInv
  <2>4. manifests'[current] = f
    <3>1. ~(current < manifestNum)
      BY <2>3
    <3>2. QED
      BY <2>1, <2>2, <2>3, <3>1 DEF Without, Restrict
  <2>5. minLog <= LogOf(f.recs)
    BY <2>3
  <2>6. DescriptorHas(version, minLog)'
    BY <2>1, <2>3, <2>4, <2>5 DEF DescriptorHas
  <2>7. QED
    BY <1>1, <2>6 DEF EditInv
<1>4. QED
  BY <1>2, <1>3

-----------------------------------------------------------------------------
(* Nothing is lost.                                                        *)

LEMMA FilesStep ==
  ASSUME TableInv, FilesInv, [Next]_vars
  PROVE  FilesInv'
<1>1. QueueInv
  BY DEF TableInv, WriteInv
<1>2. QED
  BY <1>1, GroupStep, OutputStep, LogStep DEF FilesInv

LEMMA TornStays ==
  ASSUME [Next]_vars, torn
  PROVE  torn'
<1>1. CASE Opening \/ UNCHANGED vars
  BY <1>1 DEF vars, history, Opening, Open, NewDB, Recover, RecoverLogFile,
     NewLog, Describe
<1>2. CASE Writing
  BY <1>2 DEF Writing, MakeRoomForWrite, AppendRecord, SyncLog, InsertInto,
     NoLog, AppendFails, SyncFails, history
<1>3. CASE Background
  BY <1>3 DEF Background, NothingToDo, FlushBegins, FlushFails,
     CompactionBegins, FlushBuilt, OpenCompactionOutputFile, FinishCompaction,
     CompactionFails, LogEdit, Apply, LogFails, history
<1>4. CASE ~(Opening \/ Writing \/ Background \/ UNCHANGED vars)
  BY <1>4 DEF Next, Enqueue, NewIterator, DeleteIterator, Close, Closed, Crash,
     PowerLoss, OpenFails, history
<1>5. QED
  BY <1>1, <1>2, <1>3, <1>4

(* Only a failed append lets the writer of a log get ahead of it.          *)
LEMMA TornAhead ==
  ASSUME "log" \in ahead => torn, [Next]_vars, "log" \in ahead'
  PROVE  torn'
<1>1. CASE AppendFails
  BY <1>1 DEF AppendFails
<1>2. ASSUME ~AppendFails PROVE "log" \in ahead
  <2>1. CASE Opening \/ UNCHANGED vars
    BY <2>1 DEF vars, Opening, Open, NewDB, Recover, RecoverLogFile, NewLog,
       Describe
  <2>2. CASE Writing
    <3>1. CASE MakeRoomForWrite
      BY <3>1 DEF MakeRoomForWrite
    <3>2. CASE AppendRecord \/ SyncLog \/ InsertInto \/ NoLog \/ SyncFails
      BY <3>2 DEF AppendRecord, SyncLog, InsertInto, NoLog, SyncFails
    <3>3. QED
      BY <1>2, <2>2, <3>1, <3>2 DEF Writing
  <2>3. CASE LogFails
    BY <2>3 DEF LogFails
  <2>4. CASE Background /\ ~LogFails
    BY <2>4 DEF Background, NothingToDo, FlushBegins, FlushFails,
       CompactionBegins, FlushBuilt, OpenCompactionOutputFile, FinishCompaction,
       CompactionFails, LogEdit, Apply
  <2>5. CASE ~(Opening \/ Writing \/ Background \/ UNCHANGED vars)
    BY <2>5 DEF Next, Enqueue, NewIterator, DeleteIterator, Close, Closed, Crash,
       PowerLoss, OpenFails, Gone
  <2>6. QED
    BY <2>1, <2>2, <2>3, <2>4, <2>5
<1>3. QED
  BY <1>1, <1>2, TornStays

LEMMA DurableStep ==
  ASSUME TableInv, FilesInv, DurableInv, [Next]_vars
  PROVE  DurableInv'
<1> SUFFICES ASSUME ~torn' PROVE RecoveryInv' /\ GroupLogged' /\ EditInv'
  BY TornAhead DEF DurableInv
<1>1. RecoveryInv /\ GroupLogged /\ EditInv /\ "log" \notin ahead
  BY TornStays DEF DurableInv
<1>2. TableInv' /\ FilesInv' /\ DoneStays
  BY TableStep, FilesStep, DoneStep DEF TableInv, WriteInv, FilesInv
<1>3. GroupLogged'
  BY <1>1, <1>2, GroupLoggedStep
<1>4. CASE UNCHANGED vars
  <2>1. /\ logs' = logs /\ tables' = tables /\ manifests' = manifests
        /\ current' = current /\ version' = version /\ mem' = mem /\ imm' = imm
        /\ phase' = phase /\ toReplay' = toReplay /\ safe' = safe /\ wr' = wr
        /\ logNum' = logNum /\ minLog' = minLog /\ bg' = bg /\ bgError' = bgError
    BY <1>4 DEF vars, disk, control, numbers, data, history
  <2>2. RecoveryInv'
    <3>1. FoundAgain(manifests[current])' <=> FoundAgain(manifests[current])
      BY <2>1, SameFound DEF FoundAgain
    <3>2. Ids(Present)' = Ids(Present) /\ Ids(mem)' = Ids(mem)
      BY <2>1 DEF Ids, Present, Contents
    <3>3. Ids(Entries(version))' = Ids(Entries(version))
      BY <2>1 DEF Ids, Entries, Contents
    <3>4. \A n : Ids(Whole(n))' = Ids(Whole(n)) /\ Ids(OnlySynced(n))' = Ids(OnlySynced(n))
      BY <2>1 DEF Ids, Whole, OnlySynced
    <3>5. \A i : InLog(i)' <=> InLog(i)
      BY <2>1, <3>4 DEF InLog, Ids, Whole, OnlySynced
    <3>6. QED
      BY <1>1, <2>1, <3>1, <3>2, <3>3, <3>4, <3>5 DEF RecoveryInv
  <2>3. EditInv'
    BY <1>1, <2>1 DEF EditInv, DescriptorHas, Entries, Contents
  <2>4. QED
    BY <1>3, <2>2, <2>3
<1>5. CASE Opening
  <2>1. RecoveryInv'
    BY <1>1, <1>5, RecoveryBegins, RecoveryReplay, RecoveryNewLog, RecoveryDescribe
       DEF Opening
  <2>2. QED
    BY <1>3, <1>5, <2>1, EditOpening
<1>6. CASE Leaving /\ phase' = "down"
  <2>1. RecoveryInv'
    BY <1>1, <1>2, <1>6, RecoveryLeaving
  <2>2. bg'.pc = "idle"
    BY <1>6, <1>2 DEF TableInv, WriteInv, WakeInv
  <2>3. EditInv'
    BY <1>6, <2>2 DEF EditInv
  <2>4. QED
    BY <1>3, <2>1, <2>3
<1>7. CASE phase = "open" /\ Quiet
  <2>1. RecoveryInv'
    BY <1>1, <1>2, <1>7, RecoveryQuiet
  <2>2. QED
    BY <1>1, <1>3, <1>7, <2>1, EditQuiet
<1>8. CASE phase = "open" /\ LogEdit
  BY <1>1, <1>3, <1>8, RecoveryLogEdit, EditLogEdit
<1>9. CASE phase = "open" /\ Apply
  BY <1>1, <1>2, <1>3, <1>9, RecoveryApply, EditApply
<1>10. CASE phase = "open" /\ LogFails
  BY <1>1, <1>2, <1>3, <1>10, RecoveryLogFails, EditLogFails
<1>11. QED
  BY <1>4, <1>5, <1>6, <1>7, <1>8, <1>9, <1>10, NextCases

LEMMA InitialFiles == Init => FilesInv /\ DurableInv
<1> SUFFICES ASSUME Init PROVE FilesInv /\ DurableInv
  OBVIOUS
<1>1. /\ logs = << >> /\ current = 0 /\ phase = "down" /\ mem = {} /\ imm = << >>
      /\ minLog = 0 /\ logNum = 0 /\ queue = << >> /\ safe = {} /\ bg = Idle
      /\ ahead = {}
  BY DEF Init
<1>2. bg.pc = "idle" /\ \A n : n \notin DOMAIN logs
  <2>1. bg.pc = "idle"
    BY <1>1 DEF Idle
  <2>2. << >> \in Seq({}) /\ Len(<< >>) = 0
    OBVIOUS
  <2>3. DOMAIN << >> = 1 .. 0
    BY <2>2, LenProperties
  <2>4. QED
    BY <1>1, <2>1, <2>3
<1>3. LogInv
  BY <1>1, <1>2 DEF LogInv
<1>4. GroupInv /\ OutputInv
  BY <1>1, <1>2 DEF GroupInv, OutputInv
<1>5. RecoveryInv /\ GroupLogged /\ EditInv
  BY <1>1, <1>2 DEF RecoveryInv, GroupLogged, EditInv
<1>6. QED
  BY <1>1, <1>3, <1>4, <1>5 DEF FilesInv, DurableInv

(* The inductive invariant behind recovery: every write that has to be     *)
(* there is, at every step of writing, flushing, compacting, logging an    *)
(* edit, crashing, losing power and recovering, in the memory and again    *)
(* in what the next recovery reads, however much of the unsynced ends of   *)
(* the files is left.                                                      *)
THEOREM DurableInvariant == Spec => [](FilesInv /\ DurableInv)
<1>1. Init => FilesInv /\ DurableInv
  BY InitialFiles
<1>2. TableInv /\ FilesInv /\ DurableInv /\ [Next]_vars => (FilesInv /\ DurableInv)'
  BY FilesStep, DurableStep
<1>3. QED
  BY <1>1, <1>2, TablesInvariant, PTL DEF Spec

(* Durable (include/leveldb/options.h, WriteOptions::sync) holds whatever  *)
(* the numbers of writers, crashes, failing calls and readers, and however *)
(* large memtables, groups and levels may be.                              *)
THEOREM NothingIsLost == Spec => []Durable
<1>1. DurableInv => Durable
  BY DEF DurableInv, RecoveryInv, Durable
<1>2. QED
  BY <1>1, DurableInvariant, PTL

-----------------------------------------------------------------------------
(* The sequence numbers of a group.                                        *)

(* The numbers of the group are new, and no two of its entries share one.  *)
LEMMA GroupNumbers ==
  ASSUME QueueInv, GroupInv, Busy, lastSeq \in Nat
  PROVE  /\ Cardinality(Batches) \in Nat
         /\ \A e \in GroupEntries : /\ e.s \in Nat /\ lastSeq < e.s
                                    /\ e.s <= lastSeq + Cardinality(Batches)
         /\ Alike(GroupEntries)
<1> DEFINE upTo(k) == {j \in Batches : j <= k}
           entry(k) == [id |-> queue[k], s |-> lastSeq + Cardinality(upTo(k))]
<1>1. wr[Leader].group \in Nat /\ Batches \subseteq 1 .. wr[Leader].group
  BY DEF GroupInv, Busy, Batches, QueueInv
<1>2. IsFiniteSet(Batches) /\ Batches \subseteq Nat
  <2>1. IsFiniteSet(1 .. wr[Leader].group)
    BY <1>1, FS_Interval
  <2>2. PICK I : I = 1 .. wr[Leader].group
    OBVIOUS
  <2>3. IsFiniteSet(Batches)
    BY <1>1, <2>1, <2>2, FS_Subset
  <2>4. QED
    BY <1>1, <2>3
<1>3. Cardinality(Batches) \in Nat
  BY <1>2, FS_CardinalityType
<1>4. ASSUME NEW k \in Batches
      PROVE  /\ Cardinality(upTo(k)) \in Nat /\ 0 < Cardinality(upTo(k))
             /\ Cardinality(upTo(k)) <= Cardinality(Batches)
  <2>1. upTo(k) \subseteq Batches /\ k \in upTo(k)
    BY <1>2
  <2>2. IsFiniteSet(upTo(k)) /\ upTo(k) # {}
    BY <1>2, <2>1, FS_Subset
  <2> HIDE DEF upTo
  <2>3. Cardinality(upTo(k)) \in Nat /\ Cardinality(upTo(k)) # 0
    BY <2>2, FS_CardinalityType, FS_EmptySet
  <2>4. Cardinality(upTo(k)) <= Cardinality(Batches)
    BY <1>2, <2>1, FS_Subset
  <2>5. QED
    BY <2>3, <2>4
<1>5. ASSUME NEW k \in Batches, NEW m \in Batches, k < m
      PROVE  Cardinality(upTo(k)) < Cardinality(upTo(m))
  <2>1. upTo(k) \subseteq upTo(m) /\ m \in upTo(m) /\ m \notin upTo(k)
    <3>1. k \in Nat /\ m \in Nat /\ \A j \in Batches : j \in Nat
      BY <1>2
    <3>2. \A j \in Batches : j <= k => j <= m
      BY <1>5, <3>1
    <3>3. m <= m /\ ~(m <= k)
      BY <1>5, <3>1
    <3>4. QED
      BY <3>2, <3>3
  <2>2. IsFiniteSet(upTo(m)) /\ IsFiniteSet(upTo(k))
    <3>1. upTo(m) \subseteq Batches /\ upTo(k) \subseteq Batches
      OBVIOUS
    <3> HIDE DEF upTo
    <3>2. QED
      BY <1>2, <3>1, FS_Subset
  <2> HIDE DEF upTo
  <2>3. Cardinality(upTo(k)) <= Cardinality(upTo(m)) /\ upTo(k) # upTo(m)
    BY <2>1, <2>2, FS_Subset
  <2>4. Cardinality(upTo(k)) # Cardinality(upTo(m))
    BY <2>1, <2>2, <2>3, FS_Subset
  <2>5. QED
    BY <1>4, <2>3, <2>4
<1>6. GroupEntries = {entry(k) : k \in Batches}
  BY DEF GroupEntries
<1>7. \A k : entry(k).s = lastSeq + Cardinality(upTo(k))
  OBVIOUS
<1> HIDE DEF upTo, entry
<1>8. ASSUME NEW e \in GroupEntries
      PROVE  /\ e.s \in Nat /\ lastSeq < e.s
             /\ e.s <= lastSeq + Cardinality(Batches)
  <2>1. PICK k \in Batches : e = entry(k)
    BY <1>6
  <2>2. QED
    BY <1>3, <1>4, <1>7, <2>1
<1>9. ASSUME NEW e \in GroupEntries, NEW f \in GroupEntries, e.s = f.s
      PROVE  e = f
  <2>1. PICK k \in Batches, m \in Batches : e = entry(k) /\ f = entry(m)
    BY <1>6
  <2>2. Cardinality(upTo(k)) = Cardinality(upTo(m))
    BY <1>4, <1>7, <1>9, <2>1
  <2>3. ~(k < m) /\ ~(m < k)
    BY <1>4, <1>5, <2>2
  <2>4. k = m
    BY <1>2, <2>3
  <2>5. QED
    BY <2>1, <2>4
<1>10. QED
  BY <1>3, <1>8, <1>9 DEF Alike

(* The group that is in the log and not yet in the memtable.               *)
LEMMA FleetingIs ==
  /\ (Busy /\ wr[Leader].pc # "append") => Fleeting = GroupEntries
  /\ ~Busy \/ wr[Leader].pc = "append" => Fleeting = {}
  /\ (Busy' /\ wr'[Leader'].pc # "append") => Fleeting' = GroupEntries'
  /\ ~Busy' \/ wr'[Leader'].pc = "append" => Fleeting' = {}
BY DEF Busy, Fleeting

LEMMA FleetingWoken ==
  ASSUME QueueInv, GroupInv, queue' = queue, Woken(wr'), lastSeq' = lastSeq
  PROVE  Fleeting' = Fleeting
<1>1. Leader' = Leader
  BY DEF Leader
<1>2. CASE Busy
  <2>1. Leader \in Writes /\ wr[Leader].pc # "wait"
    BY <1>2 DEF Busy, Leader, QueueInv
  <2>2. wr'[Leader] = wr[Leader]
    BY <2>1 DEF Woken
  <2>3. Busy'
    BY <1>1, <1>2, <2>2 DEF Busy
  <2>4. GroupEntries' = GroupEntries
    BY <2>3, GroupWoken, GroupStays
  <2>5. QED
    BY <1>1, <1>2, <2>2, <2>3, <2>4, FleetingIs
<1>3. CASE ~Busy
  <2>1. ~Busy'
    BY <1>3, GroupWoken DEF GroupGoesOn
  <2>2. QED
    BY <1>3, <2>1, FleetingIs
<1>4. QED
  BY <1>2, <1>3

(* The group comes to its log, stays, or its numbers are used up.          *)
Grouping ==
  \/ /\ AppendRecord /\ Busy /\ Fleeting = {} /\ Fleeting' = GroupEntries
     /\ lastSeq' = lastSeq
  \/ Fleeting' = Fleeting /\ lastSeq' = lastSeq
  \/ /\ Busy /\ Fleeting' = {} /\ lastSeq' = lastSeq + Cardinality(Batches)

LEMMA GroupingWrites ==
  ASSUME QueueInv, GroupInv, phase = "open", AppendRecord \/ SyncLog
  PROVE  /\ lastSeq' = lastSeq
         /\ AppendRecord => Busy /\ Fleeting = {} /\ Fleeting' = GroupEntries
         /\ SyncLog => Fleeting' = Fleeting
<1>1. /\ queue # << >> /\ queue' = queue /\ lastSeq' = lastSeq
      /\ wr[Leader].pc \in {"append", "sync"}
      /\ AppendRecord => wr[Leader].pc = "append"
      /\ SyncLog => wr[Leader].pc = "sync"
      /\ wr' \in {Wr(Leader, "sync"), Wr(Leader, "insert")}
  BY DEF AppendRecord, SyncLog, At, numbers
<1>2. Leader' = Leader /\ Leader \in Writes /\ wr \in [Writes -> Writer]
  BY <1>1 DEF Leader, QueueInv
<1>3. wr'[Leader].pc \in {"sync", "insert"}
  BY <1>1, <1>2 DEF Wr, Writer
<1>4. Busy /\ Busy'
  BY <1>1, <1>2, <1>3 DEF Busy
<1>5. ~GroupBegins /\ Writing
  BY <1>1 DEF GroupBegins, MakeRoomForWrite, Writing
<1>6. GroupEntries' = GroupEntries
  BY <1>1, <1>4, <1>5, GroupWriting, GroupStays
<1>7. QED
  BY <1>1, <1>2, <1>3, <1>4, <1>6, FleetingIs

LEMMA GroupingQuiet ==
  ASSUME QueueInv, GroupInv, phase = "open", Quiet
  PROVE  Grouping
<1>1. CASE InsertInto \/ AppendFails \/ SyncFails
  <2>1. /\ queue # << >> /\ wr[Leader].pc \in {"append", "sync", "insert"}
        /\ lastSeq' = lastSeq + Cardinality(Batches)
    BY <1>1 DEF InsertInto, AppendFails, SyncFails, At
  <2>2. Busy
    BY <2>1 DEF Busy
  <2>3. wr[Leader].group \in Nat
    BY <2>2 DEF Busy, GroupInv, QueueInv
  <2>4. PICK w : Woken(w) /\ Return(w, wr[Leader].group)
    BY <1>1, WokenForms DEF InsertInto, AppendFails, SyncFails
  <2>5. ~Busy'
    BY <2>3, <2>4, GroupReturns
  <2>6. QED
    BY <2>1, <2>2, <2>5, FleetingIs DEF Grouping
<1>2. CASE MakeRoomForWrite \/ NoLog
  <2>1. ~Busy /\ lastSeq' = lastSeq
    BY <1>2 DEF MakeRoomForWrite, NoLog, Busy, numbers
  <2>2. ~Busy' \/ wr'[Leader'].pc = "append"
    <3>1. CASE GroupBegins
      <4>1. Leader' = Leader /\ Leader \in Writes /\ wr \in [Writes -> Writer]
        BY <3>1 DEF GroupBegins, Leader, QueueInv
      <4>2. wr'[Leader] = [wr[Leader] EXCEPT !.pc = "append", !.group = GroupSize]
        BY <3>1, <4>1 DEF GroupBegins
      <4>3. PICK x \in Writer : x = wr[Leader]
        BY <4>1
      <4>4. wr'[Leader].pc = "append"
        BY <4>2, <4>3 DEF Writer
      <4>5. QED
        BY <4>1, <4>4
    <3>2. CASE ~GroupBegins
      <4>1. Writing /\ ~AppendRecord /\ ~SyncLog
        BY <1>2, <2>1 DEF Writing, AppendRecord, SyncLog, At, Busy
      <4>2. QED
        BY <2>1, <3>2, <4>1, GroupWriting DEF GroupGoesOn
    <3>3. QED
      BY <3>1, <3>2
  <2>3. QED
    BY <2>1, <2>2, FleetingIs DEF Grouping
<1>3. CASE AppendRecord \/ SyncLog
  BY <1>3, GroupingWrites DEF Grouping
<1>4. CASE \E i \in Writes, sync, null \in BOOLEAN : Enqueue(i, sync, null)
  <2>1. PICK i \in Writes, sync \in BOOLEAN, null \in BOOLEAN : Enqueue(i, sync, null)
    BY <1>4
  <2>2. /\ queue' = Append(queue, i) /\ lastSeq' = lastSeq /\ wr[i].pc = "new"
        /\ \A j \in Writes : j # i => wr'[j] = wr[j]
    BY <2>1 DEF Enqueue, numbers, QueueInv
  <2>3. CASE Busy
    <3>1. /\ Leader = queue[1] /\ queue[1] \in Writes /\ queue[1] # i
          /\ queue \in Seq(Writes) /\ queue # << >>
      BY <2>2, <2>3 DEF Busy, Leader, QueueInv
    <3>2. queue' # << >> /\ Leader' = Leader
      BY <2>2, <3>1 DEF Leader
    <3>3. wr'[Leader] = wr[Leader]
      BY <2>2, <3>1
    <3>4. Busy'
      BY <2>3, <3>2, <3>3 DEF Busy
    <3>5. GroupEntries' = GroupEntries
      BY <2>1, <2>2, <3>4, GroupJoined, GroupStays
    <3>6. QED
      BY <2>2, <2>3, <3>2, <3>3, <3>4, <3>5, FleetingIs DEF Grouping
  <2>4. CASE ~Busy
    <3>1. ~Busy'
      BY <2>1, <2>4, GroupJoined DEF GroupGoesOn
    <3>2. QED
      BY <2>2, <2>4, <3>1, FleetingIs DEF Grouping
  <2>5. QED
    BY <2>3, <2>4
<1>5. CASE \/ FlushBegins \/ CompactionBegins \/ FinishCompaction
           \/ OpenCompactionOutputFile \/ NewIterator \/ DeleteIterator \/ Close
  <2>1. queue' = queue /\ wr' = wr
    BY <1>5, QueueUntouched
  <2>2. lastSeq' = lastSeq
    BY <1>5 DEF FlushBegins, CompactionBegins, FinishCompaction,
       OpenCompactionOutputFile, NewIterator, DeleteIterator, Close, numbers
  <2>3. QED
    BY <2>1, <2>2, WokenForms, FleetingWoken DEF Grouping
<1>6. CASE \/ NothingToDo \/ FlushFails \/ CompactionFails
           \/ \E l \in {0, 1} : FlushBuilt(l)
  <2>1. queue' = queue /\ Woken(wr')
    BY <1>6, EndingWakes DEF Ending
  <2>2. lastSeq' = lastSeq
    BY <1>6 DEF NothingToDo, FlushFails, CompactionFails, FlushBuilt, numbers
  <2>3. QED
    BY <2>1, <2>2, FleetingWoken DEF Grouping
<1>7. QED
  BY <1>1, <1>2, <1>3, <1>4, <1>5, <1>6 DEF Quiet, Simple, Writing

-----------------------------------------------------------------------------
(* What may be read again.                                                 *)

LEMMA NamedHas ==
  /\ \A x : x \in Named <=>
       current # 0 /\ \E recs \in Readings(manifests[current]) : x \in Entries(Saved(recs))
  /\ \A x : x \in Named' <=>
       /\ current' # 0
       /\ \E recs \in Readings(manifests'[current']) : x \in Entries(Saved(recs))'
BY DEF Named

LEMMA LoggedHas ==
  /\ \A x : x \in Logged <=> \E n \in DOMAIN logs : MayReplay(n) /\ x \in Whole(n)
  /\ \A x : x \in Logged' <=> \E n \in DOMAIN logs' : MayReplay(n)' /\ x \in Whole(n)'
BY DEF Logged

LEMMA WorldHas ==
  /\ \A x : x \in World <=> \/ x \in Present \/ x \in Based \/ x \in Added
                            \/ x \in Named \/ x \in Logged \/ x \in Fleeting
  /\ \A x : x \in World' <=> \/ x \in Present' \/ x \in Based' \/ x \in Added'
                             \/ x \in Named' \/ x \in Logged' \/ x \in Fleeting'
BY DEF World

(* The tables of v get no new entries.                                     *)
Fades(v) == \A n \in Nums(v) : Contents(n)' \subseteq Contents(n)

LEMMA EntriesFade ==
  ASSUME NEW v, Fades(v)
  PROVE  Entries(v)' \subseteq Entries(v)
BY DEF Fades, Entries

LEMMA NamedLess ==
  ASSUME current' = current,
         current # 0 =>
           /\ Readings(manifests'[current]) \subseteq Readings(manifests[current])
           /\ \A recs \in Readings(manifests[current]) : Fades(Saved(recs))
  PROVE  Named' \subseteq Named
<1> SUFFICES ASSUME NEW x \in Named' PROVE x \in Named
  OBVIOUS
<1>1. PICK recs \in Readings(manifests'[current']) : x \in Entries(Saved(recs))'
  BY NamedHas
<1>2. current # 0
  BY NamedHas
<1>3. recs \in Readings(manifests[current]) /\ Fades(Saved(recs))
  BY <1>1, <1>2
<1>4. x \in Entries(Saved(recs))
  BY <1>1, <1>3 DEF Fades, Entries
<1>5. QED
  BY <1>2, <1>3, <1>4, NamedHas

LEMMA LoggedLess ==
  ASSUME \A n \in DOMAIN logs' :
           MayReplay(n)' => \/ Whole(n)' = {}
                            \/ n \in DOMAIN logs /\ MayReplay(n) /\ Whole(n)' \subseteq Whole(n)
  PROVE  Logged' \subseteq Logged
<1> SUFFICES ASSUME NEW x \in Logged' PROVE x \in Logged
  OBVIOUS
<1>1. PICK n \in DOMAIN logs' : MayReplay(n)' /\ x \in Whole(n)'
  BY LoggedHas
<1>2. n \in DOMAIN logs /\ MayReplay(n) /\ x \in Whole(n)
  BY <1>1
<1>3. QED
  BY <1>2, LoggedHas

(* A descriptor keeps describing its tables as long as they get no entries.*)
LEMMA DescribedStays ==
  ASSUME NEW f, NEW g, Described(f), Readings(g) \subseteq Readings(f),
         \A recs \in Readings(f) : Fades(Saved(recs)),
         Readable(g.recs) = Readable(f.recs) \/ Readings(g) = {Readable(g.recs)}
  PROVE  Described(g)'
<1> SUFFICES ASSUME NEW recs \in Readings(g) \ {<< >>}
             PROVE  /\ LastOf(recs) \in Nat /\ LastOf(recs) <= LastOf(Readable(g.recs))
                    /\ Bounded(Entries(Saved(recs)), LastOf(recs))'
  BY DEF Described
<1>1. /\ LastOf(recs) \in Nat /\ LastOf(recs) <= LastOf(Readable(f.recs))
      /\ Bounded(Entries(Saved(recs)), LastOf(recs)) /\ Fades(Saved(recs))
  BY DEF Described
<1>2. LastOf(recs) <= LastOf(Readable(g.recs))
  BY <1>1
<1>3. Entries(Saved(recs))' \subseteq Entries(Saved(recs))
  BY <1>1 DEF Fades, Entries
<1>4. QED
  BY <1>1, <1>2, <1>3 DEF Bounded

(* The numbers of the entries are bounded.                                 *)
Numbered == \E b \in Nat : Bounded(World, b)

LEMMA WorldLess ==
  ASSUME World' \subseteq World, WorldInv, Numbered
  PROVE  Alike(World') /\ Numbered'
<1>1. Alike(World')
  BY DEF WorldInv, Alike
<1>2. PICK b \in Nat : Bounded(World, b)
  BY DEF Numbered
<1>3. Bounded(World', b)
  BY <1>2 DEF Bounded
<1>4. QED
  BY <1>1, <1>3 DEF Numbered, Bounded

-----------------------------------------------------------------------------
(* Steps of the open database that change no version.                      *)

LEMMA FadesUsed ==
  ASSUME ContentsStay
  PROVE  /\ Fades(version) /\ Fades(bg.comp.base)
         /\ \A recs \in Readings(manifests[current]) : Fades(Saved(recs))
BY DEF ContentsStay, Fades, Unused

LEMMA PresentQuiet ==
  ASSUME TableInv, FilesInv, phase = "open", Quiet, NEW x \in Present'
  PROVE  x \in Present \/ (InsertInto /\ x \in GroupEntries)
<1>1. version' = version /\ ContentsStay
  BY QuietStays DEF FilesInv, VersionsStay
<1>2. PICK v : v = version
  OBVIOUS
<1>3. Entries(v)' \subseteq Entries(v)
  BY <1>1, <1>2, FadesUsed, EntriesFade
<1>4. Entries(version)' = Entries(v)'
  BY <1>1, <1>2 DEF Entries
<1>5. CASE x \in Entries(version)'
  BY <1>2, <1>3, <1>4, <1>5, PresentIs
<1>6. CASE x \in mem' \cup (UNION Range(imm'))
  <2>1. CASE mem' = mem /\ imm' = imm
    BY <1>6, <2>1, PresentIs
  <2>2. CASE NextLog
    <3>1. imm' = <<mem>> /\ mem' = {}
      BY <2>2 DEF NextLog
    <3>2. x \in mem
      BY <1>6, <3>1, ImmIs
    <3>3. QED
      BY <3>2, PresentIs
  <2>3. CASE InsertInto
    <3>1. mem' = mem \cup GroupEntries /\ imm' = imm
      BY <2>3 DEF InsertInto
    <3>2. QED
      BY <1>6, <2>3, <3>1, PresentIs
  <2>4. QED
    BY <2>1, <2>2, <2>3, QuietMemory
<1>7. QED
  BY <1>5, <1>6, PresentIs

LEMMA BaseQuiet ==
  ASSUME TableInv, phase = "open", Quiet
  PROVE  bg'.comp.base \in {bg.comp.base, version, {}}
<1>0. Locals(bg)
  BY WhileOpen
<1>1. None.base = {} /\ Idle.comp = None
  BY DEF None, Idle
<1>2. CASE Simple
  <2>1. bg' = bg
    BY <1>2 DEF Simple, NewIterator, DeleteIterator, Close, Enqueue, Writing,
       MakeRoomForWrite, AppendRecord, SyncLog, InsertInto, NoLog, AppendFails,
       SyncFails
  <2>2. QED
    BY <2>1
<1>3. CASE FlushBegins \/ OpenCompactionOutputFile \/ FinishCompaction
  <2>1. CASE FlushBegins
    BY <1>0, <2>1 DEF FlushBegins, Locals
  <2>2. CASE OpenCompactionOutputFile
    BY <1>0, <2>2 DEF OpenCompactionOutputFile, Locals
  <2>3. CASE FinishCompaction
    BY <1>0, <2>3 DEF FinishCompaction, Locals
  <2>4. QED
    BY <1>3, <2>1, <2>2, <2>3
<1>4. CASE FlushFails \/ \E l \in {0, 1} : FlushBuilt(l)
  <2>1. CASE Fail
    <3>1. bg'.comp = None \/ bg'.comp = bg.comp
      BY <2>1, BuildEnds DEF Fail
    <3>2. QED
      BY <1>1, <3>1
  <2>2. CASE ~Fail
    <3>1. bg'.comp = bg.comp
      BY <1>0, <1>4, <2>2 DEF FlushFails, FlushBuilt, Locals
    <3>2. QED
      BY <3>1
  <2>3. QED
    BY <2>1, <2>2
<1>5. CASE CompactionBegins
  <2>1. PICK S, c, e :
          \/ /\ bg' = [bg EXCEPT !.pc = "compact", !.comp = c]
             /\ c = [in |-> S, out |-> {}, base |-> version]
          \/ bg' = [bg EXCEPT !.pc = "log", !.kind = "move", !.edit = e]
    BY <1>5 DEF CompactionBegins
  <2>2. bg'.comp.base = version \/ bg'.comp = bg.comp
    <3>1. CASE bg' = [bg EXCEPT !.pc = "log", !.kind = "move", !.edit = e]
      BY <1>0, <3>1 DEF Locals
    <3>2. CASE /\ bg' = [bg EXCEPT !.pc = "compact", !.comp = c]
               /\ c = [in |-> S, out |-> {}, base |-> version]
      <4>1. bg'.comp = c
        BY <1>0, <3>2 DEF Locals
      <4>2. QED
        BY <3>2, <4>1
    <3>3. QED
      BY <2>1, <3>1, <3>2
  <2>3. QED
    BY <2>2
<1>6. CASE NothingToDo \/ CompactionFails
  <2>1. bg' = Idle
    BY <1>6 DEF NothingToDo, CompactionFails, BackgroundCallEnds
  <2>2. QED
    BY <1>1, <2>1
<1>7. QED
  BY <1>2, <1>3, <1>4, <1>5, <1>6 DEF Quiet

LEMMA BasedQuiet ==
  ASSUME TableInv, FilesInv, phase = "open", Quiet
  PROVE  Based' \subseteq Based \cup Present
<1>1. PICK b : b = bg'.comp.base
  OBVIOUS
<1>2. Based' = Entries(b)'
  BY <1>1 DEF Based, Entries
<1>3. b \in {bg.comp.base, version, {}} /\ ContentsStay
  BY <1>1, BaseQuiet, QuietStays DEF FilesInv
<1>4. CASE b = {}
  BY <1>2, <1>4, NothingSaved DEF Entries
<1>5. CASE b \in {bg.comp.base, version}
  <2>1. Entries(b)' \subseteq Entries(b)
    BY <1>3, <1>5, FadesUsed, EntriesFade
  <2>2. Entries(b) \subseteq Based \cup Present
    BY <1>5, PresentIs DEF Based
  <2>3. QED
    BY <1>2, <2>1, <2>2
<1>6. QED
  BY <1>3, <1>4, <1>5

(* The edits the background thread prepares: their tables hold what memory *)
(* or the inputs of the compaction hold.                                   *)
NewEdit == /\ bg'.pc = "log" /\ bg'.edit.last = lastSeq
           /\ Added' \subseteq Present \cup Based

LEMMA FlushAdds ==
  ASSUME TableInv, FilesInv, phase = "open", NEW l \in {0, 1}, FlushBuilt(l), ~Fail
  PROVE  NewEdit
<1>1. /\ bg.pc = "flush" /\ Locals(bg) /\ imm # << >>
      /\ imm[1] # {} => bg.num \in DOMAIN tables
  BY WhileOpen DEF FlushBuilt, TableInv, BuildInv
<1>2. PICK add : /\ add = IF imm[1] = {} THEN {} ELSE {<<bg.num, l>>}
                 /\ bg' = [bg EXCEPT !.pc = "log", !.edit = Edit(add, {}, logNum)]
  BY DEF FlushBuilt
<1>3. bg'.pc = "log" /\ bg'.edit.add = add /\ bg'.edit.last = lastSeq
  BY <1>1, <1>2 DEF Locals, Edit
<1>4. Entries(add)' \subseteq imm[1]
  <2>1. CASE imm[1] = {}
    BY <1>2, <2>1 DEF Entries, Nums
  <2>2. CASE imm[1] # {}
    <3>1. PICK n : n = bg.num
      OBVIOUS
    <3>2. tables' = Put(tables, n, imm[1])
      BY <1>1, <2>2, <3>1 DEF FlushBuilt
    <3>3. Contents(n)' = imm[1]
      BY <3>2 DEF Contents, Put
    <3>a. PICK t : t = <<n, l>>
      OBVIOUS
    <3>b. t[1] = n /\ add = {t}
      BY <1>2, <2>2, <3>1, <3>a
    <3>4. Nums(add) = {n}
      BY <3>b DEF Nums
    <3>5. QED
      BY <3>3, <3>4 DEF Entries
  <2>3. QED
    BY <2>1, <2>2
<1>5. Added' = Entries(add)'
  BY <1>3 DEF Added, Entries
<1>6. imm[1] \subseteq Present
  <2>1. imm = <<imm[1]>>
    BY <1>1 DEF FilesInv, LogInv
  <2>2. UNION Range(imm) = imm[1]
    BY <2>1, ImmIs
  <2>3. QED
    BY <2>2, PresentIs
<1>7. QED
  BY <1>3, <1>4, <1>5, <1>6 DEF NewEdit

LEMMA MoveAdds ==
  ASSUME TableInv, FilesInv, phase = "open", CompactionBegins, bg'.pc \in {"log", "sync"}
  PROVE  NewEdit
<1>0. Locals(bg) /\ ContentsStay
  BY WhileOpen, QuietStays DEF FilesInv, Quiet
<1>1. PICK S, c :
         /\ S \subseteq version
         /\ \/ bg' = [bg EXCEPT !.pc = "compact", !.comp = c]
            \/ bg' = [bg EXCEPT !.pc = "log", !.kind = "move",
                       !.edit = Edit({<<t[1], 1>> : t \in S}, S, minLog)]
  BY DEF CompactionBegins, L0
<1>2. PICK add : add = {<<t[1], 1>> : t \in S}
  OBVIOUS
<1>3. bg' = [bg EXCEPT !.pc = "log", !.kind = "move", !.edit = Edit(add, S, minLog)]
  <2>1. CASE bg' = [bg EXCEPT !.pc = "compact", !.comp = c]
    <3>1. bg'.pc = "compact"
      BY <1>0, <2>1 DEF Locals
    <3>2. QED
      BY <3>1
  <2>2. QED
    BY <1>1, <1>2, <2>1
<1>4. bg'.pc = "log" /\ bg'.edit.add = add /\ bg'.edit.last = lastSeq
  BY <1>0, <1>3 DEF Locals, Edit
<1>5. Nums(add) \subseteq Nums(version)
  <2>1. ASSUME NEW n \in Nums(add) PROVE n \in Nums(version)
    <3>1. PICK u \in add : n = u[1]
      BY DEF Nums
    <3>2. PICK t \in S : u = <<t[1], 1>>
      BY <1>2, <3>1
    <3>3. n = t[1] /\ t \in version
      BY <1>1, <3>1, <3>2
    <3>4. QED
      BY <3>3 DEF Nums
  <2>2. QED
    BY <2>1
<1>6. Added' = Entries(add)'
  BY <1>4 DEF Added, Entries
<1>7. \A n \in Nums(version) : Contents(n)' \subseteq Contents(n)
  BY <1>0, FadesUsed DEF Fades
<1>8. Entries(add)' \subseteq Entries(version)
  BY <1>5, <1>7 DEF Entries
<1>9. QED
  BY <1>4, <1>6, <1>8, PresentIs DEF NewEdit

LEMMA MergeAdds ==
  ASSUME TableInv, FilesInv, phase = "open", FinishCompaction
  PROVE  NewEdit
<1>1. PICK in, out, add : /\ in = bg.comp.in /\ out = bg.comp.out
                          /\ add = {<<n, 1>> : n \in out}
  OBVIOUS
<1>2. /\ Locals(bg) /\ in \subseteq bg.comp.base
      /\ \A n \in out : n \in DOMAIN tables
  BY <1>1, WhileOpen DEF FinishCompaction, TableInv, BuildInv
<1>3. bg' = [bg EXCEPT !.pc = "log", !.kind = "merge", !.edit = Edit(add, in, minLog)]
  BY <1>1 DEF FinishCompaction
<1>4. bg'.pc = "log" /\ bg'.edit.add = add /\ bg'.edit.last = lastSeq
  BY <1>2, <1>3 DEF Locals, Edit
<1>5. PICK all : /\ all = UNION {Contents(m) : m \in Nums(in)}
                 /\ tables' = [n \in DOMAIN tables |->
                                 IF n \in out THEN all ELSE tables[n]]
  BY <1>1 DEF FinishCompaction
<1>6. \A n \in out : Contents(n)' = all
  BY <1>2, <1>5 DEF Contents
<1>7. Nums(add) \subseteq out
  <2>1. ASSUME NEW n \in Nums(add) PROVE n \in out
    <3>1. PICK u \in add : n = u[1]
      BY DEF Nums
    <3>2. PICK m \in out : u = <<m, 1>>
      BY <1>1, <3>1
    <3>3. QED
      BY <3>1, <3>2
  <2>2. QED
    BY <2>1
<1>8. Entries(add)' \subseteq all
  BY <1>6, <1>7 DEF Entries
<1>9. all \subseteq Based
  BY <1>2, <1>5 DEF Based, Entries, Nums
<1>10. Added' = Entries(add)'
  BY <1>4 DEF Added, Entries
<1>11. QED
  BY <1>4, <1>8, <1>9, <1>10 DEF NewEdit

LEMMA AddedQuiet ==
  ASSUME TableInv, FilesInv, phase = "open", Quiet
  PROVE  \/ bg'.pc \notin {"log", "sync"} /\ Added' = {}
         \/ bg' = bg /\ Added' = Added
         \/ NewEdit
<1>1. CASE bg'.pc \notin {"log", "sync"}
  BY <1>1 DEF Added
<1>2. CASE bg'.pc \in {"log", "sync"}
  <2>1. CASE Simple
    <3>1. bg' = bg /\ tables' = tables
      BY <2>1 DEF Simple, NewIterator, DeleteIterator, Close, Enqueue, Writing,
         MakeRoomForWrite, AppendRecord, SyncLog, InsertInto, NoLog, AppendFails,
         SyncFails, disk
    <3>2. QED
      BY <3>1 DEF Added, Entries, Contents
  <2>2. CASE CompactionBegins
    BY <1>2, <2>2, MoveAdds
  <2>3. CASE FinishCompaction
    BY <2>3, MergeAdds
  <2>4. CASE \E l \in {0, 1} : FlushBuilt(l) /\ ~Fail
    BY <2>4, FlushAdds
  <2>5. CASE FlushBegins \/ OpenCompactionOutputFile
    <3>1. Locals(bg)
      BY WhileOpen
    <3>2. bg'.pc \in {"flush", "compact"}
      BY <2>5, <3>1 DEF FlushBegins, OpenCompactionOutputFile, Locals
    <3>3. QED
      BY <1>2, <3>2
  <2>6. CASE Fail
    BY <1>2, <2>6, BuildEnds DEF Fail
  <2>7. CASE NothingToDo \/ CompactionFails
    <3>1. bg' = Idle
      BY <2>7 DEF NothingToDo, CompactionFails, BackgroundCallEnds
    <3>2. bg'.pc = "idle"
      BY <3>1 DEF Idle
    <3>3. QED
      BY <1>2, <3>2
  <2>8. QED
    BY <2>1, <2>2, <2>3, <2>4, <2>5, <2>6, <2>7 DEF Quiet, FlushFails
<1>3. QED
  BY <1>1, <1>2

(* Only AddRecord brings entries to a log, those of the group.             *)
LEMMA LogReplacedHas ==
  ASSUME NEW n, n \in DOMAIN logs', logNum \in DOMAIN logs, NEW g,
         logs' = [logs EXCEPT ![logNum] = g]
  PROVE  /\ n \in DOMAIN logs
         /\ \/ n = logNum /\ Whole(n)' = EntriesOf(g.recs)
            \/ Whole(n)' = Whole(n)
<1>1. n \in DOMAIN logs /\ logs'[n] = IF n = logNum THEN g ELSE logs[n]
  OBVIOUS
<1>2. QED
  BY <1>1 DEF Whole

LEMMA LoggedQuiet ==
  ASSUME TableInv, FilesInv, phase = "open", Quiet, NEW x \in Logged'
  PROVE  x \in Logged \/ (AppendRecord /\ x \in GroupEntries)
<1> DEFINE f == logs[logNum]
<1>1. /\ logNum \in DOMAIN logs /\ logNum < nextFile /\ DOMAIN logs \subseteq 0 .. logNum
      /\ logNum \in Nat /\ LogsAreFiles
  BY DEF FilesInv, LogInv, LogsAreFiles
<1>2. LogFile(f) /\ DOMAIN f = {"recs", "synced"}
  BY <1>1, LogHas DEF LogsAreFiles
<1>3. PICK n \in DOMAIN logs' : x \in Whole(n)'
  BY LoggedHas
<1>4. ASSUME NEW m \in DOMAIN logs, x \in Whole(m) PROVE x \in Logged
  BY <1>4, LoggedHas DEF MayReplay
<1>5. CASE AppendRecord
  <2>1. PICK y : y = GroupEntries
    OBVIOUS
  <2>2. PICK file \in Astray("log", f) :
           logs' = [logs EXCEPT ![logNum] = Appended(file, y)]
    BY <1>5, <2>1 DEF AppendRecord
  <2>3. PICK g : g = Appended(file, y)
    OBVIOUS
  <2>4. logs' = [logs EXCEPT ![logNum] = g]
    BY <2>2, <2>3
  <2> HIDE DEF f
  <2>5. EntriesOf(g.recs) \subseteq EntriesOf(f.recs) \cup y
    BY <1>2, <2>2, <2>3, GroupAppended
  <2>6. Whole(logNum) = EntriesOf(f.recs)
    BY DEF Whole, f
  <2>7. QED
    BY <1>1, <1>3, <1>4, <1>5, <2>1, <2>4, <2>5, <2>6, LogReplacedHas
<1>6. CASE SyncLog \/ AppendFails
  <2>1. PICK g : /\ logs' = [logs EXCEPT ![logNum] = g]
                 /\ EntriesOf(g.recs) = EntriesOf(f.recs)
    <3>1. CASE SyncLog
      <4>1. PICK g : g = Synced(f)
        OBVIOUS
      <4>2. logs' = [logs EXCEPT ![logNum] = g]
        BY <3>1, <4>1 DEF SyncLog
      <4> HIDE DEF f
      <4>3. g.recs = f.recs
        BY <1>2, <4>1, LogSynced
      <4>4. QED
        BY <4>2, <4>3
    <3>2. CASE AppendFails
      <4>1. PICK left \in {<< >>, <<Junk>>} :
               logs' = [logs EXCEPT ![logNum].recs = @ \o left]
        BY <3>2 DEF AppendFails
      <4>2. PICK g : g = [f EXCEPT !.recs = @ \o left]
        OBVIOUS
      <4>3. logs' = [logs EXCEPT ![logNum] = g]
        BY <4>1, <4>2
      <4> HIDE DEF f
      <4>4. EntriesOf(g.recs) = EntriesOf(f.recs)
        BY <1>2, <4>2, LogTorn
      <4>5. QED
        BY <4>3, <4>4
    <3>3. QED
      BY <1>6, <3>1, <3>2
  <2>2. Whole(logNum) = EntriesOf(f.recs)
    BY DEF Whole
  <2> HIDE DEF f
  <2>3. QED
    BY <1>1, <1>3, <1>4, <2>1, <2>2, LogReplacedHas
<1>7. CASE logs' = Put(logs, nextFile, EmptyFile)
  <2>1. n = nextFile => Whole(n)' = {}
    BY <1>7, EmptyLog DEF Put, Whole
  <2>2. n # nextFile => n \in DOMAIN logs /\ Whole(n)' = Whole(n)
    BY <1>7 DEF Put, Whole
  <2>3. QED
    BY <1>3, <1>4, <2>1, <2>2
<1>8. CASE logs' = logs
  BY <1>3, <1>4, <1>8 DEF Whole
<1>9. QED
  <2>1. MakeRoomForWrite => logs' = logs \/ logs' = Put(logs, nextFile, EmptyFile)
    BY DEF MakeRoomForWrite
  <2>2. CASE ~(AppendRecord \/ SyncLog \/ AppendFails \/ MakeRoomForWrite)
    <3>1. logs' = logs
      BY <2>2 DEF Quiet, Simple, NewIterator, DeleteIterator, Close, Enqueue,
         Writing, InsertInto, NoLog, SyncFails, FlushBegins, FlushFails,
         CompactionBegins, FlushBuilt, OpenCompactionOutputFile, FinishCompaction,
         NothingToDo, CompactionFails, disk
    <3>2. QED
      BY <1>8, <3>1
  <2>3. QED
    BY <1>5, <1>6, <1>7, <1>8, <2>1, <2>2

FreshInv == SequenceInv /\ WorldInv /\ Numbered

(* Only a group that comes to its log is new.                              *)
LEMMA WorldQuiet ==
  ASSUME TableInv, FilesInv, phase = "open", Quiet, NEW x \in World'
  PROVE  x \in World \/ (AppendRecord /\ x \in GroupEntries)
<1>0. QueueInv /\ GroupInv
  BY DEF TableInv, WriteInv, FilesInv
<1>1. CASE x \in Present'
  <2>1. CASE InsertInto /\ x \in GroupEntries
    <3>1. Busy /\ wr[Leader].pc # "append"
      BY <2>1 DEF InsertInto, At, Busy
    <3>2. QED
      BY <2>1, <3>1, FleetingIs, WorldHas
  <2>2. QED
    BY <1>1, <2>1, PresentQuiet, WorldHas
<1>2. CASE x \in Based'
  BY <1>2, BasedQuiet, WorldHas
<1>3. CASE x \in Added'
  BY <1>3, AddedQuiet, WorldHas DEF NewEdit
<1>4. CASE x \in Named'
  <2>1. current' = current /\ manifests' = manifests /\ ContentsStay
    BY QuietStays DEF FilesInv, VersionsStay
  <2>2. Named' \subseteq Named
    BY <2>1, FadesUsed, NamedLess
  <2>3. QED
    BY <1>4, <2>2, WorldHas
<1>5. CASE x \in Logged'
  BY <1>5, LoggedQuiet, WorldHas
<1>6. CASE x \in Fleeting'
  BY <1>0, <1>6, GroupingQuiet, WorldHas DEF Grouping
<1>7. QED
  BY <1>1, <1>2, <1>3, <1>4, <1>5, <1>6, WorldHas

LEMMA WorldInvQuiet ==
  ASSUME TableInv, FilesInv, FreshInv, phase = "open", Quiet
  PROVE  WorldInv' /\ Numbered'
<1>0. QueueInv /\ GroupInv /\ lastSeq \in Nat /\ Grouping
  BY GroupingQuiet DEF TableInv, WriteInv, FilesInv, FreshInv, SequenceInv
<1>1. PICK b \in Nat : Bounded(World, b)
  BY DEF FreshInv, Numbered
<1>2. /\ Alike(World) /\ \A e \in World : e.s \in Nat
      /\ \A e \in World : e \in Fleeting \/ e.s <= lastSeq
  BY <1>1 DEF FreshInv, WorldInv, Bounded
<1>3. Busy => /\ Cardinality(Batches) \in Nat /\ Alike(GroupEntries)
              /\ \A e \in GroupEntries : /\ e.s \in Nat /\ lastSeq < e.s
                                         /\ e.s <= lastSeq + Cardinality(Batches)
  BY <1>0, GroupNumbers
<1>4. CASE AppendRecord
  <2>1. Busy /\ Fleeting = {} /\ Fleeting' = GroupEntries /\ lastSeq' = lastSeq
    BY <1>0, <1>4, GroupingWrites
  <2>2. \A e \in World : e.s <= lastSeq
    BY <1>2, <2>1
  <2>3. \A e \in World' : e \in World \/ e \in GroupEntries
    BY WorldQuiet
  <2>4. ASSUME NEW e \in World', NEW f \in World', e.s = f.s PROVE e = f
    BY <1>0, <1>2, <1>3, <2>1, <2>2, <2>3, <2>4 DEF Alike
  <2>5. Alike(World')
    BY <2>4 DEF Alike
  <2>6. \A e \in World' : e \in Fleeting' \/ e.s <= lastSeq'
    BY <2>1, <2>2, <2>3
  <2>7. WorldInv'
    BY <2>5, <2>6 DEF WorldInv, Alike
  <2>8. PICK c \in Nat : c = lastSeq + Cardinality(Batches)
    BY <1>0, <1>3, <2>1
  <2>9. \A e \in World' : e.s \in Nat /\ e.s <= c
    BY <1>0, <1>2, <1>3, <2>1, <2>2, <2>3, <2>8
  <2>10. Numbered'
    BY <2>9 DEF Numbered, Bounded
  <2>11. QED
    BY <2>7, <2>10
<1>5. CASE ~AppendRecord
  <2>1. World' \subseteq World
    BY <1>5, WorldQuiet
  <2>2. Alike(World') /\ Numbered'
    BY <2>1, WorldLess DEF FreshInv
  <2>3. ASSUME NEW e \in World' PROVE e \in Fleeting' \/ e.s <= lastSeq'
    <3>1. e \in World /\ (e \in Fleeting \/ e.s <= lastSeq) /\ e.s \in Nat
      BY <1>2, <2>1
    <3>2. CASE Fleeting' = Fleeting /\ lastSeq' = lastSeq
      BY <3>1, <3>2
    <3>3. CASE Busy /\ Fleeting' = {} /\ lastSeq' = lastSeq + Cardinality(Batches)
      <4>1. Fleeting \subseteq GroupEntries
        BY FleetingIs
      <4>2. QED
        BY <1>0, <1>3, <3>1, <3>3, <4>1
    <3>4. QED
      BY <1>0, <1>5, <3>2, <3>3 DEF Grouping
  <2>4. QED
    BY <2>2, <2>3 DEF WorldInv, Alike
<1>6. QED
  BY <1>4, <1>5

LEMMA SequenceQuiet ==
  ASSUME TableInv, FilesInv, FreshInv, phase = "open", Quiet
  PROVE  SequenceInv'
<1>f. PICK f : f = manifests[current]
  OBVIOUS
<1>0. QueueInv /\ GroupInv /\ lastSeq \in Nat /\ Grouping /\ current # 0
  BY GroupingQuiet, WhileOpen DEF TableInv, WriteInv, FilesInv, FreshInv, SequenceInv
<1>1. /\ phase' = "open" /\ current' = current /\ manifests' = manifests /\ ContentsStay
  BY QuietStays DEF FilesInv, VersionsStay
<1>2. /\ Described(f) /\ LastBelow(lastSeq, f) /\ Bounded(Present \cup Based, lastSeq)
      /\ bg.pc \in {"log", "sync"} => /\ bg.edit.last \in Nat /\ bg.edit.last <= lastSeq
                                      /\ Bounded(Added, bg.edit.last)
      /\ bg.pc = "log" => LastBelow(bg.edit.last, f)
  BY <1>0, <1>f DEF FreshInv, SequenceInv
<1>3. Busy => /\ Cardinality(Batches) \in Nat
              /\ \A e \in GroupEntries : /\ e.s \in Nat
                                         /\ e.s <= lastSeq + Cardinality(Batches)
  BY <1>0, GroupNumbers
<1>4. lastSeq' \in Nat /\ lastSeq <= lastSeq'
  BY <1>0, <1>3 DEF Grouping
<1>5. Described(f)'
  BY <1>1, <1>2, <1>f, FadesUsed, DescribedStays
<1>6. LastBelow(lastSeq', f)
  <2>1. \A recs \in Readings(f) \ {<< >>} : LastOf(recs) \in Nat /\ LastOf(recs) <= lastSeq
    BY <1>2 DEF Described, LastBelow
  <2>2. QED
    BY <1>0, <1>4, <2>1 DEF LastBelow
<1>7. ASSUME NEW x \in Present' \cup Based' PROVE x.s \in Nat /\ x.s <= lastSeq'
  <2>1. CASE x \in Present \cup Based
    BY <1>0, <1>2, <1>4, <2>1 DEF Bounded
  <2>2. CASE InsertInto /\ x \in GroupEntries
    <3>1. Busy /\ lastSeq' = lastSeq + Cardinality(Batches)
      BY <2>2 DEF InsertInto, At, Busy
    <3>2. QED
      BY <1>3, <2>2, <3>1
  <2>3. QED
    BY <1>7, <2>1, <2>2, PresentQuiet, BasedQuiet
<1>8. bg'.pc \in {"log", "sync"} =>
        /\ bg'.edit.last \in Nat /\ bg'.edit.last <= lastSeq'
        /\ Bounded(Added', bg'.edit.last)
        /\ bg'.pc = "log" => LastBelow(bg'.edit.last, f)
  <2>1. CASE bg' = bg /\ Added' = Added
    BY <1>0, <1>2, <1>4, <2>1
  <2>2. CASE NewEdit
    <3>1. Bounded(Added', lastSeq)
      BY <1>2, <2>2 DEF NewEdit, Bounded
    <3>2. QED
      BY <1>0, <1>2, <1>4, <2>2, <3>1 DEF NewEdit
  <2>3. QED
    BY <2>1, <2>2, AddedQuiet
<1>9. manifests'[current'] = f
  BY <1>1, <1>f
<1>10. Described(manifests[current])'
  BY <1>5, <1>9 DEF Described
<1>11. Bounded(Present \cup Based, lastSeq)' /\ LastBelow(lastSeq, manifests[current])'
  BY <1>6, <1>7, <1>9 DEF Bounded, LastBelow
<1>12. QED
  BY <1>0, <1>1, <1>4, <1>8, <1>9, <1>10, <1>11 DEF SequenceInv, Bounded, LastBelow

-----------------------------------------------------------------------------
(* LogAndApply.                                                            *)

LEMMA WorldStays ==
  ASSUME FreshInv, phase = "open", World' \subseteq World, Fleeting' = Fleeting,
         lastSeq' = lastSeq
  PROVE  WorldInv' /\ Numbered'
<1>1. Alike(World') /\ Numbered'
  BY WorldLess DEF FreshInv
<1>2. \A e \in World' : e \in Fleeting' \/ e.s <= lastSeq'
  BY DEF FreshInv, WorldInv
<1>3. QED
  BY <1>1, <1>2 DEF WorldInv, Alike

LEMMA EntriesJoin ==
  ASSUME NEW v, NEW del, NEW add, NEW w, w = (v \ del) \cup add
  PROVE  Entries(w) \subseteq Entries(v) \cup Entries(add)
<1>1. Nums(w) \subseteq Nums(v) \cup Nums(add)
  BY DEF Nums
<1>2. QED
  BY <1>1 DEF Entries

(* What the open database keeps, with the group at the front.              *)
LEMMA FleetingLogged ==
  ASSUME TableInv, FilesInv, phase = "open", LogEdit \/ Apply \/ LogFails
  PROVE  /\ Fleeting' = Fleeting /\ lastSeq' = lastSeq /\ mem' = mem
         /\ phase' = "open" /\ current' = current
         /\ Logged' \subseteq Logged
<1>1. QueueInv /\ GroupInv
  BY DEF TableInv, WriteInv, FilesInv
<1>2. /\ lastSeq' = lastSeq /\ mem' = mem /\ phase' = "open" /\ current' = current
  BY DEF LogEdit, Apply, LogFails, numbers, data, control
<1>3. queue' = queue /\ Woken(wr')
  <2>1. CASE LogEdit
    BY <1>1, <2>1, QueueUntouched, WokenForms
  <2>2. CASE Apply \/ LogFails
    BY <1>1, <2>2, EndingWakes DEF Ending
  <2>3. QED
    BY <2>1, <2>2
<1>4. Fleeting' = Fleeting
  BY <1>1, <1>2, <1>3, FleetingWoken
<1>5. DOMAIN logs' \subseteq DOMAIN logs /\ \A n \in DOMAIN logs' : logs'[n] = logs[n]
  BY LoggedLogs DEF FilesInv, LogInv, LogsAreFiles
<1>6. \A n \in DOMAIN logs' : MayReplay(n) /\ Whole(n)' = Whole(n)
  BY <1>5 DEF MayReplay, Whole
<1>7. QED
  BY <1>2, <1>4, <1>5, <1>6, LoggedLess

LEMMA FreshLogEdit ==
  ASSUME TableInv, FilesInv, FreshInv, phase = "open", LogEdit
  PROVE  FreshInv'
<1>1. PICK f, g, e : f = manifests[current] /\ g = manifests'[current] /\ e = bg.edit
  OBVIOUS
<1>2. /\ current' = current /\ current # 0 /\ Locals(bg)
      /\ (Extends(f, e, g) /\ NoJunk(f.recs)) \/ NoMore(f, g)
  BY <1>1, LogEditDescriptor, WhileOpen
<1>3. /\ bg.pc = "log" /\ tables' = tables /\ version' = version /\ imm' = imm
      /\ bg' = [bg EXCEPT !.pc = "sync"]
  BY DEF LogEdit, data
<1>4. bg'.pc = "sync" /\ bg'.edit = e /\ bg'.comp = bg.comp
  BY <1>1, <1>2, <1>3 DEF Locals
<1>5. /\ Fleeting' = Fleeting /\ lastSeq' = lastSeq /\ mem' = mem
      /\ phase' = "open" /\ Logged' \subseteq Logged
  BY FleetingLogged
<1>6. /\ Described(f) /\ LastBelow(lastSeq, f) /\ Bounded(Present \cup Based, lastSeq)
      /\ e.last \in Nat /\ e.last <= lastSeq /\ Bounded(Added, e.last)
      /\ LastBelow(e.last, f) /\ lastSeq \in Nat
  BY <1>1, <1>2, <1>3 DEF FreshInv, SequenceInv
<1>7. Added = Entries(e.add)
  BY <1>1, <1>3 DEF Added
<1>8. /\ Present' = Present /\ Based' = Based /\ Added' = Added
      /\ \A v : Entries(v)' = Entries(v)
  <2>1. \A v : Entries(v)' = Entries(v)
    BY <1>3 DEF Entries, Contents
  <2>2. Present' = Present
    BY <1>3, <1>5 DEF Present, Contents
  <2>3. Based' = Based
    BY <1>3, <1>4 DEF Based, Entries, Contents
  <2>4. Added' = Added
    BY <1>1, <1>3, <1>4 DEF Added, Entries, Contents
  <2>5. QED
    BY <2>1, <2>2, <2>3, <2>4
<1>9. \A recs \in Readings(g) :
        recs \in Readings(f) \/ (Extends(f, e, g) /\ NoJunk(f.recs) /\ recs = g.recs)
  BY <1>2 DEF Extends, NoMore
<1>10. ASSUME Extends(f, e, g), NoJunk(f.recs)
       PROVE  /\ f.recs \in Readings(f) /\ Readable(g.recs) = g.recs
              /\ LastOf(g.recs) = e.last
              /\ Entries(Saved(g.recs)) \subseteq Entries(Saved(f.recs)) \cup Added
              /\ Bounded(Entries(Saved(g.recs)), e.last)
  <2>1. /\ f.recs \in Readings(f) /\ Readable(g.recs) = g.recs
        /\ EditOf(Last(g.recs)) = e
        /\ Saved(g.recs) = (Saved(f.recs) \ e.del) \cup e.add
    BY <1>10 DEF Extends
  <2>2. Entries(Saved(g.recs)) \subseteq Entries(Saved(f.recs)) \cup Added
    BY <1>7, <2>1, EntriesJoin
  <2>3. Bounded(Entries(Saved(f.recs)), e.last)
    <3>1. CASE f.recs = << >>
      BY <3>1, NothingSaved DEF Entries, Bounded
    <3>2. CASE f.recs # << >>
      <4>1. /\ LastOf(f.recs) \in Nat /\ LastOf(f.recs) <= e.last
            /\ Bounded(Entries(Saved(f.recs)), LastOf(f.recs))
        BY <1>6, <2>1, <3>2 DEF Described, LastBelow
      <4>2. QED
        BY <1>6, <4>1 DEF Bounded
    <3>3. QED
      BY <3>1, <3>2
  <2>4. QED
    BY <1>6, <2>1, <2>2, <2>3 DEF LastOf, Bounded
<1>11. ASSUME NEW recs \in Readings(g) \ {<< >>}
       PROVE  /\ LastOf(recs) \in Nat /\ LastOf(recs) <= LastOf(Readable(g.recs))
              /\ Bounded(Entries(Saved(recs)), LastOf(recs))
              /\ LastOf(recs) <= lastSeq
  <2>1. CASE Extends(f, e, g) /\ NoJunk(f.recs)
    <3>1. CASE recs = g.recs
      BY <1>6, <1>10, <2>1, <3>1
    <3>2. CASE recs \in Readings(f)
      BY <1>6, <1>10, <2>1, <3>2 DEF Described, LastBelow
    <3>3. QED
      BY <1>9, <3>1, <3>2
  <2>2. CASE NoMore(f, g)
    <3>1. recs \in Readings(f) /\ Readable(g.recs) = Readable(f.recs)
      BY <2>2 DEF NoMore
    <3>2. QED
      BY <1>6, <3>1 DEF Described, LastBelow
  <2>3. QED
    BY <1>2, <2>1, <2>2
<1>12. Named' \subseteq Named \cup Added
  <2>1. ASSUME NEW x \in Named' PROVE x \in Named \cup Added
    <3>1. PICK recs \in Readings(g) : x \in Entries(Saved(recs))'
      BY <1>1, <1>2, NamedHas
    <3>2. x \in Entries(Saved(recs))
      BY <1>3, <3>1 DEF Entries, Contents
    <3>3. CASE recs \in Readings(f)
      BY <1>1, <1>2, <3>2, <3>3, NamedHas
    <3>4. CASE Extends(f, e, g) /\ NoJunk(f.recs) /\ recs = g.recs
      BY <1>1, <1>2, <1>10, <3>2, <3>4, NamedHas
    <3>5. QED
      BY <1>9, <3>3, <3>4
  <2>2. QED
    BY <2>1
<1>13. World' \subseteq World
  BY <1>5, <1>8, <1>12, WorldHas
<1>14. WorldInv' /\ Numbered'
  BY <1>5, <1>13, WorldStays
<1>15. manifests'[current'] = g
  BY <1>1, <1>2
<1>16. Described(manifests[current])'
  <2>1. ASSUME NEW recs \in Readings(g) \ {<< >>}
        PROVE  Bounded(Entries(Saved(recs)), LastOf(recs))'
    BY <1>3, <1>11 DEF Bounded, Entries, Contents
  <2>2. QED
    BY <1>11, <1>15, <2>1 DEF Described
<1>17. LastBelow(lastSeq, manifests[current])'
  BY <1>5, <1>11, <1>15 DEF LastBelow
<1>18. SequenceInv'
  BY <1>1, <1>2, <1>4, <1>5, <1>6, <1>8, <1>16, <1>17 DEF SequenceInv, Bounded
<1>19. QED
  BY <1>14, <1>18 DEF FreshInv

LEMMA FreshEnds ==
  ASSUME TableInv, FilesInv, FreshInv, phase = "open", Apply \/ LogFails
  PROVE  FreshInv'
<1>1. PICK f, g, e, v : /\ f = manifests[current] /\ g = manifests'[current]
                        /\ e = bg.edit /\ v = version'
  OBVIOUS
<1>2. /\ Fleeting' = Fleeting /\ lastSeq' = lastSeq /\ mem' = mem
      /\ phase' = "open" /\ current' = current /\ Logged' \subseteq Logged
  BY FleetingLogged
<1>3. current # 0 /\ bg.pc \in {"log", "sync"} /\ (Apply => bg.pc = "sync")
  BY WhileOpen DEF Apply, LogFails
<1>4. Readings(g) \subseteq Readings(f) /\ Readable(g.recs) = Readable(f.recs)
  BY <1>1, ApplyDescriptor, FailedDescriptor DEF NoMore
<1>5. \A n : Contents(n)' \subseteq Contents(n)
  <2>1. tables' = tables \/ \E S : tables' = Without(tables, S)
    BY DEF Apply, LogFails
  <2>2. QED
    BY <2>1 DEF Contents, Without, Restrict
<1>6. /\ Described(f) /\ LastBelow(lastSeq, f) /\ Bounded(Present \cup Based, lastSeq)
      /\ e.last \in Nat /\ e.last <= lastSeq /\ Bounded(Added, e.last)
      /\ lastSeq \in Nat
  BY <1>1, <1>3 DEF FreshInv, SequenceInv
<1>7. bg'.pc \notin {"log", "sync"} /\ (bg'.comp = bg.comp \/ bg'.comp = None)
  BY BuildEnds DEF Apply, LogFails, Fail
<1>8. Added' = {}
  BY <1>7 DEF Added
<1>9. Based' \subseteq Based
  <2>1. PICK b : b = bg'.comp.base
    OBVIOUS
  <2>2. b = bg.comp.base \/ b = {}
    BY <1>7, <2>1 DEF None
  <2>3. Based' = Entries(b)'
    BY <2>1 DEF Based, Entries
  <2>4. Entries(b)' \subseteq Entries(b) /\ Entries({}) = {}
    BY <1>5, NothingSaved DEF Entries
  <2>5. QED
    BY <2>2, <2>3, <2>4 DEF Based
<1>10. Present' \subseteq Present \cup Added
  <2>1. v = (version \ e.del) \cup e.add \/ v = version
    BY <1>1 DEF Apply, LogFails
  <2>2. Entries(v) \subseteq Entries(version) \cup Entries(e.add)
    BY <2>1, EntriesJoin
  <2>3. Entries(version)' = Entries(v)' /\ Entries(v)' \subseteq Entries(v)
    BY <1>1, <1>5 DEF Entries
  <2>4. Added = Entries(e.add)
    BY <1>1, <1>3 DEF Added
  <2>5. imm' = imm \/ imm' = << >>
    BY DEF Apply, LogFails
  <2>6. UNION Range(imm') \subseteq UNION Range(imm)
    BY <2>5, ImmIs DEF Range
  <2>7. QED
    BY <1>2, <2>2, <2>3, <2>4, <2>6, PresentIs
<1>11. \A recs : Fades(Saved(recs))
  BY <1>5 DEF Fades
<1>12. Named' \subseteq Named
  BY <1>1, <1>2, <1>4, <1>11, NamedLess
<1>13. World' \subseteq World
  BY <1>2, <1>8, <1>9, <1>10, <1>12, WorldHas
<1>14. WorldInv' /\ Numbered'
  BY <1>2, <1>13, WorldStays
<1>15. manifests'[current'] = g /\ Described(g)'
  BY <1>1, <1>2, <1>4, <1>6, <1>11, DescribedStays
<1>16. Described(manifests[current])'
  BY <1>15 DEF Described
<1>17. LastBelow(lastSeq, manifests[current])'
  BY <1>2, <1>4, <1>6, <1>15 DEF LastBelow
<1>18. Bounded(Present \cup Based, lastSeq)'
  <2>1. Bounded(Added, lastSeq)
    BY <1>6 DEF Bounded
  <2>2. QED
    BY <1>2, <1>6, <1>9, <1>10, <2>1 DEF Bounded
<1>19. SequenceInv'
  BY <1>2, <1>3, <1>6, <1>7, <1>16, <1>17, <1>18 DEF SequenceInv
<1>20. QED
  BY <1>14, <1>19 DEF FreshInv

-----------------------------------------------------------------------------
(* A crash.                                                                *)

LEMMA FreshLeaving ==
  ASSUME TableInv, FilesInv, FreshInv, Leaving
  PROVE  FreshInv'
<1>1. /\ phase' = "down" /\ lastSeq' = 0 /\ version' = {} /\ mem' = {} /\ imm' = << >>
      /\ queue' = << >> /\ bg' = Idle
      /\ current' = current /\ tables' = tables
  BY DEF Leaving, Closed, Crash, PowerLoss, OpenFails, disk, Gone
<1>2. bg'.pc = "idle" /\ bg'.comp.base = {}
  BY <1>1 DEF Idle, None
<1>3. Present' = {} /\ Based' = {} /\ Added' = {} /\ Fleeting' = {}
  <2>1. Present' = {}
    BY <1>1, NothingSaved DEF Present, Range
  <2>2. Based' = {}
    BY <1>2, NothingSaved DEF Based, Entries
  <2>3. Added' = {} /\ Fleeting' = {}
    BY <1>1, <1>2 DEF Added, Fleeting
  <2>4. QED
    BY <2>1, <2>2, <2>3
<1>4. PICK f, g : f = manifests[current] /\ g = manifests'[current]
  OBVIOUS
<1>5. ASSUME current # 0
      PROVE  /\ Readings(g) \subseteq Readings(f)
             /\ Readable(g.recs) = Readable(f.recs) \/ Readings(g) = {Readable(g.recs)}
  <2>1. CASE PowerLoss
    BY <1>4, <1>5, <2>1, CurrentCut DEF PowerLoss
  <2>2. CASE ~PowerLoss
    BY <1>4, <1>5, <2>2, CurrentLeft
  <2>3. QED
    BY <2>1, <2>2
<1>6. DOMAIN logs' = DOMAIN logs /\ \A n \in DOMAIN logs : Whole(n)' \subseteq Whole(n)
  <2>1. CASE PowerLoss
    BY <2>1, LogsAreCut DEF PowerLoss, FilesInv, LogInv, LogsAreFiles
  <2>2. CASE ~PowerLoss
    <3>1. logs' = logs
      BY <2>2 DEF Leaving, Closed, Crash, OpenFails, disk
    <3>2. QED
      BY <3>1 DEF Whole
  <2>3. QED
    BY <2>1, <2>2
<1>7. \A recs : Fades(Saved(recs))
  BY <1>1 DEF Fades, Contents
<1>8. Named' \subseteq Named
  BY <1>1, <1>4, <1>5, <1>7, NamedLess
<1>9. Logged' \subseteq Logged
  <2>1. ASSUME NEW n, MayReplay(n)' PROVE MayReplay(n)
    <3>1. /\ current # 0
          /\ \E recs \in Readings(manifests'[current]) \ {<< >>} : LogOf(recs) <= n
      BY <1>1, <2>1 DEF MayReplay
    <3>2. QED
      BY <1>4, <1>5, <3>1 DEF MayReplay
  <2>2. QED
    BY <1>6, <2>1, LoggedLess
<1>10. World' \subseteq World
  BY <1>3, <1>8, <1>9, WorldHas
<1>11. Alike(World') /\ Numbered'
  BY <1>10, WorldLess DEF FreshInv
<1>12. current' # 0 => Described(manifests[current])'
  <2>1. ASSUME current # 0 PROVE Described(g)'
    <3>1. Described(f)
      BY <1>4, <2>1 DEF FreshInv, SequenceInv
    <3>2. QED
      BY <1>5, <1>7, <2>1, <3>1, DescribedStays
  <2>2. manifests'[current'] = g
    BY <1>1, <1>4
  <2>3. QED
    BY <1>1, <2>1, <2>2 DEF Described
<1>13. current' = 0 => DOMAIN logs' = {}
  BY <1>1, <1>6 DEF FreshInv, SequenceInv
<1>14. Bounded(Present \cup Based, lastSeq)'
  BY <1>3 DEF Bounded
<1>15. SequenceInv'
  BY <1>1, <1>2, <1>12, <1>13, <1>14 DEF SequenceInv
<1>16. QED
  BY <1>1, <1>11, <1>15 DEF FreshInv, WorldInv, Alike

-----------------------------------------------------------------------------
(* DB::Open.                                                               *)

(* Nothing is in memory but the version.                                   *)
LEMMA OnlyVersion ==
  ASSUME TableInv, FilesInv, Opening
  PROVE  /\ phase # "open" /\ bg'.pc = "idle"
         /\ Present = Entries(version) /\ Present' = Entries(version)'
         /\ Based' = {} /\ Added' = {} /\ Fleeting' = {}
<1>1. /\ phase # "open" /\ bg'.pc = "idle" /\ bg'.comp = None
  BY WhileOpening
<1>2. mem = {} /\ imm = << >> /\ queue = << >>
  BY <1>1 DEF FilesInv, LogInv, TableInv, WriteInv, WakeInv
<1>3. mem' = mem /\ imm' = imm /\ queue' = queue
  BY DEF Opening, Open, NewDB, Recover, RecoverLogFile, NewLog, Describe, data
<1>4. UNION Range(<< >>) = {}
  BY ImmIs
<1>5. Present = Entries(version) /\ Present' = Entries(version)'
  BY <1>2, <1>3, <1>4, PresentIs
<1>6. Based' = {}
  <2>1. bg'.comp.base = {}
    BY <1>1 DEF None
  <2>2. QED
    BY <2>1, NothingSaved DEF Based, Entries
<1>7. Added' = {} /\ Fleeting' = {}
  BY <1>1, <1>2, <1>3 DEF Added, Fleeting
<1>8. QED
  BY <1>1, <1>5, <1>6, <1>7

LEMMA WorldOpening ==
  ASSUME TableInv, FilesInv, FreshInv, Opening, phase' # "open",
         Entries(version)' \subseteq World, Named' \subseteq World, Logged' \subseteq World
  PROVE  WorldInv' /\ Numbered'
<1>1. World' \subseteq World
  BY OnlyVersion, WorldHas
<1>2. QED
  BY <1>1, WorldLess DEF FreshInv, WorldInv, Alike

(* The files are as they were.                                             *)
LEMMA SameDisk ==
  ASSUME logs' = logs, tables' = tables, current' = current,
         current # 0 => manifests'[current] = manifests[current],
         phase # "open", phase' # "open"
  PROVE  /\ Named' = Named /\ Logged' = Logged
         /\ \A n : MayReplay(n)' = MayReplay(n)
         /\ \A v : Entries(v)' = Entries(v)
         /\ current # 0 /\ Described(manifests[current]) => Described(manifests[current])'
<1>1. \A v : Entries(v)' = Entries(v)
  BY DEF Entries, Contents
<1>2. CASE current = 0
  <2>1. \A n : MayReplay(n)' = FALSE /\ MayReplay(n) = FALSE
    BY <1>2 DEF MayReplay
  <2>2. QED
    BY <1>1, <1>2, <2>1 DEF Named, Logged
<1>3. CASE current # 0
  <2>1. PICK f : f = manifests[current] /\ manifests'[current'] = f
    BY <1>3
  <2>2. \A n : MayReplay(n)' = MayReplay(n)
    BY <1>3, <2>1 DEF MayReplay
  <2>3. \A n : Whole(n)' = Whole(n)
    BY DEF Whole
  <2>4. Logged' = Logged
    BY <2>2, <2>3 DEF Logged
  <2>5. \A recs : Entries(Saved(recs))' = Entries(Saved(recs))
    BY DEF Entries, Contents
  <2>6. Named' = Named
    BY <1>3, <2>1, <2>5 DEF Named
  <2>7. ASSUME Described(f) PROVE Described(manifests[current])'
    BY <2>1, <2>5, <2>7 DEF Described
  <2>8. QED
    BY <1>1, <2>1, <2>2, <2>4, <2>6, <2>7
<1>4. QED
  BY <1>2, <1>3

LEMMA FreshBegins ==
  ASSUME TableInv, FilesInv, FreshInv, Open \/ Recover
  PROVE  FreshInv'
<1>0. Opening /\ phase # "open" /\ phase' # "open"
  BY DEF Opening, Open, Recover
<1>1. /\ logs' = logs /\ tables' = tables /\ current' = current /\ manifests' = manifests
  BY DEF Open, Recover, disk
<1>2. /\ Named' = Named /\ Logged' = Logged
      /\ \A n : MayReplay(n)' = MayReplay(n)
      /\ \A v : Entries(v)' = Entries(v)
      /\ current # 0 => Described(manifests[current])'
  BY <1>0, <1>1, SameDisk DEF FreshInv, SequenceInv
<1>3. Present = Entries(version) /\ Present' = Entries(version)' /\ Based' = {}
      /\ bg'.pc = "idle"
  BY <1>0, OnlyVersion
<1>4. current = 0 => DOMAIN logs = {}
  BY DEF FreshInv, SequenceInv
<1>5. CASE version' = version /\ lastSeq' = lastSeq /\ phase' \in {"create", "recover", "corrupt"}
  <2>1. Entries(version)' = Entries(version)
    BY <1>1, <1>5 DEF Entries, Contents
  <2>2. WorldInv' /\ Numbered'
    BY <1>0, <1>2, <1>3, <2>1, WorldOpening, WorldHas
  <2>3. Bounded(Present \cup Based, lastSeq)' /\ lastSeq' \in Nat
    BY <1>3, <1>5, <2>1 DEF FreshInv, SequenceInv, Bounded
  <2>4. SequenceInv'
    BY <1>1, <1>2, <1>3, <1>4, <1>5, <2>3 DEF SequenceInv
  <2>5. QED
    BY <2>2, <2>4 DEF FreshInv
<1>6. CASE Recover /\ phase' = "replay"
  <2>1. PICK f, R : f = manifests[current] /\ R = Readable(f.recs)
    OBVIOUS
  <2>2. /\ R # << >> /\ version' = Saved(R) /\ lastSeq' = LastOf(R)
        /\ toReplay' = {n \in DOMAIN logs : n >= LogOf(R)}
    BY <1>6, <2>1 DEF Recover, LogOf, LastOf
  <2>3. current # 0
    BY <1>6 DEF Recover, TableInv, WriteInv, DescriptorInv
  <2>4. GoodFile(current, f) /\ SyncedPart(f) /\ Described(f)
    BY <1>0, <2>1, <2>3, WhileOpening DEF FreshInv, SequenceInv
  <2>5. R \in Readings(f)
    BY <2>1, <2>4, ReadingWhole
  <2>6. /\ LastOf(R) \in Nat /\ Bounded(Entries(Saved(R)), LastOf(R))
        /\ LastBelow(LastOf(R), f)
    BY <2>1, <2>2, <2>4, <2>5 DEF Described, LastBelow
  <2>7. Entries(version)' = Entries(Saved(R))
    BY <1>1, <2>2 DEF Entries, Contents
  <2>8. Entries(Saved(R)) \subseteq Named
    BY <2>1, <2>3, <2>5, NamedHas
  <2>9. WorldInv' /\ Numbered'
    BY <1>0, <1>2, <2>7, <2>8, WorldOpening, WorldHas
  <2>10. Bounded(Present \cup Based, lastSeq)' /\ lastSeq' \in Nat
    BY <1>3, <2>2, <2>6, <2>7 DEF Bounded
  <2>11. LastBelow(lastSeq, manifests[current])'
    BY <1>1, <2>1, <2>2, <2>6 DEF LastBelow
  <2>12. ASSUME NEW n \in toReplay' PROVE MayReplay(n)'
    <3>1. LogOf(R) <= n
      BY <2>2
    <3>2. MayReplay(n)
      BY <2>1, <2>2, <2>3, <2>5, <3>1 DEF MayReplay
    <3>3. QED
      BY <1>2, <3>2
  <2>13. SequenceInv'
    BY <1>1, <1>2, <1>3, <1>6, <2>3, <2>10, <2>11, <2>12 DEF SequenceInv
  <2>14. QED
    BY <2>9, <2>13 DEF FreshInv
<1>7. QED
  <2>1. Open => version' = version /\ lastSeq' = lastSeq /\ phase' \in {"create", "recover"}
    BY DEF Open, numbers, data
  <2>2. Recover => \/ phase' = "replay"
                   \/ version' = version /\ lastSeq' = lastSeq /\ phase' = "corrupt"
    BY DEF Recover, numbers
  <2>3. QED
    BY <1>5, <1>6, <2>1, <2>2

LEMMA FreshNewDB ==
  ASSUME TableInv, FilesInv, FreshInv, NewDB
  PROVE  FreshInv'
<1>0. Opening /\ phase \in {"create", "install"} /\ phase' \in {"install", "recover"}
  BY DEF Opening, NewDB
<1>1. current = 0 /\ DOMAIN logs = {}
  BY <1>0 DEF TableInv, WriteInv, DescriptorInv, FreshInv, SequenceInv
<1>2. logs' = logs /\ tables' = tables /\ version' = version /\ lastSeq' = lastSeq
  BY DEF NewDB, numbers, data
<1>3. Present = Entries(version) /\ Present' = Entries(version)' /\ Based' = {}
      /\ bg'.pc = "idle"
  BY <1>0, OnlyVersion
<1>4. Entries(version)' = Entries(version)
  BY <1>2 DEF Entries, Contents
<1>5. Logged' = {}
  BY <1>1, <1>2, LoggedHas
<1>6. Named' = {} /\ (current' # 0 => Described(manifests[current])')
  <2>1. CASE phase = "create"
    <3>1. current' = 0
      BY <1>1, <2>1 DEF NewDB
    <3>2. QED
      BY <3>1 DEF Named
  <2>2. CASE phase = "install"
    <3>1. PICK f, e : f = manifests[1] /\ e = FirstEdit
      OBVIOUS
    <3>2. f = Appended(EmptyFile, {e}) /\ manifests'[current'] = f
      BY <2>2, <3>1 DEF TableInv, VersionInv, NewDB
    <3>3. e.add = {} /\ e.del = {} /\ e.last = 0 /\ e.next = 2
      BY <3>1 DEF FirstEdit
    <3>4. PICK m \in Nat : GoodEdit(m, e) /\ Sound(tables, e.next, e.add)
      <4>1. GoodEdit(1, e) /\ Sound(tables, e.next, e.add)
        BY <3>3, FS_EmptySet, NothingSaved DEF GoodEdit, Sound
      <4>2. QED
        BY <4>1
    <3>a. PICK ts : ts = tables
      OBVIOUS
    <3>b. Saved(f.recs) = e.add /\ Readable(f.recs) = f.recs
      <4>1. /\ m \in Nat /\ GoodEdit(m, e) /\ Sound(ts, e.next, e.add)
            /\ f = Appended(EmptyFile, {e}) /\ e.del = {}
        BY <3>2, <3>3, <3>4, <3>a
      <4>2. QED
        BY <4>1, OneRecord, Zenon
    <3>5. Saved(f.recs) = {} /\ Readable(f.recs) = f.recs
      BY <3>3, <3>b
    <3>6. /\ \A recs \in Readings(f) : recs = << >> \/ recs = f.recs
          /\ LastOf(f.recs) = 0
      BY <3>2, <3>3, OneReading DEF LastOf
    <3>7. \A recs \in Readings(f) : Saved(recs) = {}
      BY <3>5, <3>6, NothingSaved
    <3>8. \A recs \in Readings(f) : Entries(Saved(recs))' = {}
      BY <3>7, NothingSaved DEF Entries
    <3>9. Named' = {}
      BY <3>2, <3>8, NamedHas
    <3>10. Described(manifests[current])'
      <4>1. ASSUME NEW recs \in Readings(f) \ {<< >>}
            PROVE  /\ LastOf(recs) \in Nat /\ LastOf(recs) <= LastOf(Readable(f.recs))
                   /\ Bounded(Entries(Saved(recs)), LastOf(recs))'
        BY <3>5, <3>6, <3>8 DEF Bounded
      <4>2. QED
        BY <3>2, <4>1 DEF Described
    <3>11. QED
      BY <3>9, <3>10
  <2>3. QED
    BY <1>0, <2>1, <2>2
<1>7. WorldInv' /\ Numbered'
  BY <1>0, <1>3, <1>4, <1>5, <1>6, WorldOpening, WorldHas
<1>8. Bounded(Present \cup Based, lastSeq)' /\ lastSeq' \in Nat
  BY <1>2, <1>3, <1>4 DEF FreshInv, SequenceInv, Bounded
<1>9. SequenceInv'
  BY <1>0, <1>1, <1>2, <1>3, <1>6, <1>8 DEF SequenceInv
<1>10. QED
  BY <1>7, <1>9 DEF FreshInv

(* RecoverLogFile takes the last sequence number past those of the log.    *)
LEMMA MaxSequenceIs ==
  ASSUME lastSeq \in Nat, NEW b \in Nat, NEW es, Bounded(es, b)
  PROVE  /\ MaxSequence(es) \in Nat /\ lastSeq <= MaxSequence(es)
         /\ Bounded(es, MaxSequence(es))
<1> DEFINE T == {lastSeq} \cup {e.s : e \in es}
<1>1. PICK n \in Nat : lastSeq <= n /\ b <= n
  <2>1. CASE lastSeq <= b
    BY <2>1
  <2>2. CASE ~(lastSeq <= b)
    BY <2>2
  <2>3. QED
    BY <2>1, <2>2
<1>2. \A e \in es : e.s \in 0 .. n
  BY <1>1 DEF Bounded
<1>3. T \in SUBSET (0 .. n) /\ lastSeq \in T /\ \A e \in es : e.s \in T
  BY <1>1, <1>2
<1>4. MaxSequence(es) = Max(T)
  BY DEF MaxSequence
<1> HIDE DEF T
<1>5. Max(T) \in T /\ \A y \in T : y <= Max(T)
  BY <1>3, GreatestOf
<1>6. PICK m : m = Max(T) /\ m = MaxSequence(es)
  BY <1>4
<1>a. m \in T /\ \A y \in T : y <= m
  BY <1>5, <1>6
<1>b. T \subseteq Nat
  BY <1>3
<1>7. m \in Nat /\ lastSeq <= m /\ \A e \in es : e.s <= m
  BY <1>3, <1>a, <1>b
<1>8. \A e \in es : e.s \in Nat
  BY <1>2
<1>9. QED
  BY <1>6, <1>7, <1>8 DEF Bounded

LEMMA FreshReplay ==
  ASSUME TableInv, FilesInv, FreshInv, RecoverLogFile
  PROVE  FreshInv'
<1>0. Opening
  BY DEF Opening
<1>1. PICK n, es, f : /\ n = Min(toReplay) /\ es = EntriesOf(logs[n].recs)
                      /\ f = manifests[current]
  OBVIOUS
<1>2. /\ phase = "replay" /\ phase' = "replay" /\ logs' = logs
      /\ current' = current /\ manifests' = manifests
      /\ toReplay' = toReplay \ {n} /\ lastSeq' = MaxSequence(es)
      /\ toReplay # {}
  BY <1>1 DEF RecoverLogFile
<1>3. \/ es = {} /\ tables' = tables /\ version' = version
      \/ /\ tables' = Put(tables, nextFile, es)
         /\ version' = version \cup {<<nextFile, 0>>}
  BY <1>1 DEF RecoverLogFile
<1>4. /\ current # 0 /\ GoodFile(current, f) /\ SyncedPart(f) /\ OnDisk(tables, f)
      /\ nextFile \in Nat /\ Sound(tables, nextFile, version) /\ Below(nextFile, f)
  BY <1>0, <1>1, <1>2, WhileOpening
     DEF TableInv, WriteInv, DescriptorInv, VersionInv
<1>5. \A k : k \in Nat /\ k < nextFile => Contents(k)' = Contents(k)
  BY <1>3, <1>4 DEF Contents, Put
<1>6. Fades(version)
  BY <1>4, <1>5 DEF Sound, Fades
<1>7. ASSUME NEW recs \in Readings(f) PROVE Fades(Saved(recs))
  <2>1. CASE recs = << >>
    BY <2>1, NothingSaved DEF Fades
  <2>2. CASE recs # << >>
    <3>1. NextOf(recs) \in Nat
      BY <1>4, <2>2, ReadingGood
    <3>2. NextOf(recs) <= nextFile /\ Sound(tables, NextOf(recs), Saved(recs))
      BY <1>4, <2>2 DEF Below, OnDisk
    <3>3. \A k \in Nums(Saved(recs)) : k \in Nat /\ k < nextFile
      BY <1>4, <3>1, <3>2 DEF Sound
    <3>4. QED
      BY <1>5, <3>3 DEF Fades
  <2>3. QED
    BY <2>1, <2>2
<1>8. n \in toReplay /\ n \in DOMAIN logs /\ MayReplay(n) /\ es = Whole(n)
  <2>1. toReplay \in SUBSET Nat /\ toReplay \subseteq DOMAIN logs
    BY <1>2 DEF TableInv, WriteInv, DescriptorInv, FilesInv, LogInv
  <2>2. n \in toReplay
    BY <1>1, <1>2, <2>1, LeastOf
  <2>3. QED
    BY <1>1, <1>2, <2>1, <2>2 DEF FreshInv, SequenceInv, Whole
<1>9. es \subseteq World
  BY <1>8, LoggedHas, WorldHas
<1>10. Entries(version)' \subseteq Entries(version) \cup es
  <2>1. PICK v, w, k : v = version /\ w = version' /\ k = nextFile
    OBVIOUS
  <2>2. Entries(v)' \subseteq Entries(v)
    BY <1>6, <2>1, EntriesFade
  <2>3. Entries(version)' = Entries(w)'
    BY <2>1 DEF Entries
  <2>4. CASE w = v
    BY <2>1, <2>2, <2>3, <2>4
  <2>5. CASE w = v \cup {<<k, 0>>} /\ tables' = Put(tables, k, es)
    <3>1. PICK t : t = <<k, 0>>
      OBVIOUS
    <3>2. t[1] = k /\ w = v \cup {t}
      BY <2>5, <3>1
    <3>3. Nums(w) \subseteq Nums(v) \cup {k}
      BY <3>2 DEF Nums
    <3>4. Contents(k)' = es
      BY <2>5 DEF Contents, Put
    <3>5. Entries(w)' \subseteq Entries(v)' \cup es
      BY <3>3, <3>4 DEF Entries
    <3>6. QED
      BY <2>1, <2>2, <2>3, <3>5
  <2>6. QED
    BY <1>3, <2>1, <2>4, <2>5
<1>11. Present = Entries(version) /\ Present' = Entries(version)' /\ Based' = {}
       /\ bg'.pc = "idle"
  BY <1>0, OnlyVersion
<1>12. Named' \subseteq Named
  BY <1>1, <1>2, <1>4, <1>7, NamedLess
<1>13. \A m : MayReplay(m)' = MayReplay(m) /\ Whole(m)' = Whole(m)
  BY <1>2 DEF MayReplay, Whole
<1>14. Logged' = Logged
  BY <1>2, <1>13 DEF Logged
<1>15. WorldInv' /\ Numbered'
  BY <1>0, <1>2, <1>9, <1>10, <1>11, <1>12, <1>14, WorldOpening, WorldHas
<1>16. PICK b \in Nat : Bounded(es, b)
  BY <1>9 DEF FreshInv, Numbered, Bounded
<1>17. /\ lastSeq \in Nat /\ Described(f) /\ LastBelow(lastSeq, f)
       /\ Bounded(Present, lastSeq) /\ \A m \in toReplay : MayReplay(m)
  BY <1>1, <1>2, <1>4 DEF FreshInv, SequenceInv, Bounded
<1>18. lastSeq' \in Nat /\ lastSeq <= lastSeq' /\ Bounded(es, lastSeq')
  BY <1>2, <1>16, <1>17, MaxSequenceIs
<1>19. Bounded(Present \cup Based, lastSeq)'
  <2>1. ASSUME NEW x \in Present' PROVE x.s \in Nat /\ x.s <= lastSeq'
    BY <1>10, <1>11, <1>17, <1>18 DEF Bounded
  <2>2. QED
    BY <1>11, <2>1 DEF Bounded
<1>20. manifests'[current'] = f /\ Described(f)'
  BY <1>1, <1>2, <1>7, <1>17, DescribedStays
<1>21. Described(manifests[current])'
  BY <1>20 DEF Described
<1>22. LastBelow(lastSeq, manifests[current])'
  <2>1. \A recs \in Readings(f) \ {<< >>} : LastOf(recs) \in Nat /\ LastOf(recs) <= lastSeq
    BY <1>17 DEF Described, LastBelow
  <2>2. QED
    BY <1>17, <1>18, <1>20, <2>1 DEF LastBelow
<1>23. \A m \in toReplay' : MayReplay(m)'
  BY <1>2, <1>13, <1>17
<1>24. SequenceInv'
  BY <1>2, <1>4, <1>11, <1>18, <1>19, <1>21, <1>22, <1>23 DEF SequenceInv
<1>25. QED
  BY <1>15, <1>24 DEF FreshInv

LEMMA FreshNewLog ==
  ASSUME TableInv, FilesInv, FreshInv, NewLog
  PROVE  FreshInv'
<1>0. Opening
  BY DEF Opening
<1>1. /\ phase = "replay" /\ phase' = "describe"
      /\ logs' = Put(logs, nextFile, EmptyFile)
      /\ tables' = tables /\ version' = version /\ lastSeq' = lastSeq
      /\ current' = current /\ manifests' = manifests
  BY DEF NewLog, data
<1>2. current # 0
  BY <1>1 DEF TableInv, WriteInv, DescriptorInv
<1>3. Present = Entries(version) /\ Present' = Entries(version)' /\ Based' = {}
      /\ bg'.pc = "idle"
  BY <1>0, OnlyVersion
<1>4. Entries(version)' = Entries(version)
  BY <1>1 DEF Entries, Contents
<1>5. \A recs : Fades(Saved(recs))
  BY <1>1 DEF Fades, Contents
<1>6. Named' \subseteq Named
  BY <1>1, <1>5, NamedLess
<1>7. Logged' \subseteq Logged
  <2>1. ASSUME NEW n \in DOMAIN logs', MayReplay(n)'
        PROVE  \/ Whole(n)' = {}
               \/ n \in DOMAIN logs /\ MayReplay(n) /\ Whole(n)' \subseteq Whole(n)
    <3>1. MayReplay(n)
      BY <1>1, <2>1 DEF MayReplay
    <3>2. CASE n = nextFile
      BY <1>1, <3>2, EmptyLog DEF Put, Whole
    <3>3. CASE n # nextFile
      BY <1>1, <3>1, <3>3 DEF Put, Whole
    <3>4. QED
      BY <3>2, <3>3
  <2>2. QED
    BY <2>1, LoggedLess
<1>8. WorldInv' /\ Numbered'
  BY <1>0, <1>1, <1>3, <1>4, <1>6, <1>7, WorldOpening, WorldHas
<1>9. PICK f : f = manifests[current]
  OBVIOUS
<1>10. /\ Described(f) /\ LastBelow(lastSeq, f) /\ lastSeq \in Nat
       /\ Bounded(Present, lastSeq)
  BY <1>1, <1>2, <1>9 DEF FreshInv, SequenceInv, Bounded
<1>11. manifests'[current'] = f /\ Described(f)'
  BY <1>1, <1>5, <1>9, <1>10, DescribedStays
<1>12. Described(manifests[current])'
  BY <1>11 DEF Described
<1>13. LastBelow(lastSeq, manifests[current])' /\ Bounded(Present \cup Based, lastSeq)'
  BY <1>1, <1>3, <1>4, <1>10, <1>11 DEF LastBelow, Bounded
<1>14. SequenceInv'
  BY <1>1, <1>2, <1>3, <1>10, <1>12, <1>13 DEF SequenceInv
<1>15. QED
  BY <1>8, <1>14 DEF FreshInv

(* The first LogAndApply writes the last sequence number down.             *)
LEMMA NamedLast ==
  ASSUME TableInv, phase = "name"
  PROVE  LastOf(manifests[manifestNum].recs) = lastSeq
<1>1. PICK e, h : e = Edit(version, {}, logNum) /\ h = Appended(EmptyFile, {e})
  OBVIOUS
<1>2. manifests[manifestNum] = Synced(h)
  BY <1>1 DEF TableInv, VersionInv, Durably
<1>3. e.last = lastSeq
  BY <1>1 DEF Edit
<1>4. DOMAIN EmptyFile = {"recs", "synced"}
  BY DEF EmptyFile
<1>5. DOMAIN h = {"recs", "synced"}
  BY <1>1, <1>4 DEF Appended
<1>6. manifests[manifestNum].recs = h.recs
  BY <1>2, <1>5 DEF Synced
<1>7. EditOf(Last(h.recs)) = e
  BY <1>1, OneReading
<1>8. QED
  BY <1>3, <1>6, <1>7 DEF LastOf

LEMMA FreshDescribe ==
  ASSUME TableInv, FilesInv, FreshInv, Describe
  PROVE  FreshInv'
<1>0. Opening
  BY DEF Opening
<1>1. /\ phase \in {"describe", "name", "clean"} /\ version' = version
      /\ lastSeq' = lastSeq /\ phase' \in {"name", "clean", "open"}
      /\ phase' = "open" <=> phase = "clean"
  BY DEF Describe, data
<1>2. /\ current # 0 /\ current \in DOMAIN manifests /\ current \in Nat
      /\ logNum \in DOMAIN logs /\ DOMAIN logs \subseteq 0 .. logNum
      /\ logs[logNum] = EmptyFile /\ logNum \in Nat
  BY <1>0, <1>1, WhileOpening DEF TableInv, WriteInv, DescriptorInv, FilesInv, LogInv
<1>3. /\ Present = Entries(version) /\ Present' = Entries(version)' /\ Based' = {}
      /\ Added' = {} /\ Fleeting' = {} /\ bg'.pc = "idle"
  BY <1>0, OnlyVersion
<1>4. PICK f, v : f = manifests[current] /\ v = version
  OBVIOUS
<1>5. /\ Described(f) /\ LastBelow(lastSeq, f) /\ lastSeq \in Nat
      /\ Bounded(Present, lastSeq)
  BY <1>1, <1>2, <1>4 DEF FreshInv, SequenceInv, Bounded
<1>6. \A n : Contents(n)' \subseteq Contents(n)
  <2>1. tables' = tables \/ \E S : tables' = Without(tables, S)
    BY DEF Describe, Collect
  <2>2. QED
    BY <2>1 DEF Contents, Without, Restrict
<1>7. Entries(version)' = Entries(v)' /\ Entries(v)' \subseteq Entries(v)
  BY <1>1, <1>4, <1>6 DEF Entries
<1>8. Present' \subseteq Present
  BY <1>3, <1>4, <1>7
<1>9. Bounded(Present \cup Based, lastSeq)'
  BY <1>1, <1>3, <1>5, <1>8 DEF Bounded
<1>10. \A recs : Fades(Saved(recs))
  BY <1>6 DEF Fades
<1>11. ASSUME NEW g, manifests'[current'] = g, current' # 0, Described(g)',
              LastBelow(lastSeq, g)
       PROVE  SequenceInv'
  <2>1. Described(manifests[current])'
    BY <1>11 DEF Described
  <2>2. LastBelow(lastSeq, manifests[current])'
    BY <1>1, <1>11 DEF LastBelow
  <2>3. QED
    BY <1>1, <1>3, <1>5, <1>9, <1>11, <2>1, <2>2 DEF SequenceInv
<1>12. CASE phase = "describe"
  <2>1. /\ current' = current /\ logs' = logs /\ phase' = "name" /\ tables' = tables
        /\ \E x : manifests' = Put(manifests, manifestNum, x)
    BY <1>12 DEF Describe
  <2>2. current # manifestNum
    BY <1>2, <1>12 DEF TableInv, WriteInv, DescriptorInv
  <2>3. manifests'[current'] = f
    BY <1>2, <1>4, <2>1, <2>2 DEF Put
  <2>4. Named' = Named /\ Logged' = Logged
    BY <1>4, <1>12, <2>1, <2>3, SameDisk
  <2>5. WorldInv' /\ Numbered'
    BY <1>0, <1>3, <1>8, <2>1, <2>4, WorldOpening, WorldHas
  <2>6. Described(f)'
    BY <1>5, <1>10, DescribedStays
  <2>7. QED
    BY <1>2, <1>5, <1>11, <2>1, <2>3, <2>5, <2>6 DEF FreshInv
<1>13. CASE phase = "name"
  <2>1. /\ current' = manifestNum /\ logs' = logs /\ tables' = tables
        /\ manifests' = manifests /\ phase' = "clean"
    BY <1>13 DEF Describe
  <2>2. PICK g : g = manifests[manifestNum]
    OBVIOUS
  <2>3. /\ Readings(g) = {g.recs} /\ g.recs # << >> /\ Readable(g.recs) = g.recs
        /\ Saved(g.recs) = v /\ LogOf(g.recs) = logNum /\ LastOf(g.recs) = lastSeq
    BY <1>4, <1>13, <2>2, NamedDescriptor, NamedLast DEF NamedIs
  <2>4. current' # 0 /\ manifests'[current'] = g
    <3>1. current < manifestNum /\ manifestNum \in Nat
      BY <1>13 DEF TableInv, WriteInv, DescriptorInv
    <3>2. QED
      BY <1>2, <2>1, <2>2, <3>1
  <2>5. Named' \subseteq Present
    <3>1. ASSUME NEW x \in Named' PROVE x \in Present
      <4>1. PICK recs \in Readings(g) : x \in Entries(Saved(recs))'
        BY <2>4, NamedHas
      <4>2. Saved(recs) = v
        BY <2>3, <4>1
      <4>3. x \in Entries(v)'
        BY <4>1, <4>2 DEF Entries
      <4>4. QED
        BY <1>3, <1>4, <1>7, <4>3
    <3>2. QED
      BY <3>1
  <2>6. Logged' = {}
    <3>1. ASSUME NEW n \in DOMAIN logs', MayReplay(n)' PROVE Whole(n)' = {}
      <4>1. \E recs \in Readings(g) \ {<< >>} : LogOf(recs) <= n
        BY <2>1, <2>4, <3>1 DEF MayReplay
      <4>2. logNum <= n
        BY <2>3, <4>1
      <4>3. n = logNum
        BY <1>2, <2>1, <4>2
      <4>4. QED
        BY <1>2, <2>1, <4>3, EmptyLog DEF Whole
    <3>2. QED
      BY <3>1, LoggedHas
  <2>7. WorldInv' /\ Numbered'
    BY <1>0, <1>3, <1>8, <2>1, <2>5, <2>6, WorldOpening, WorldHas
  <2>8. Entries(Saved(g.recs))' \subseteq Present
    <3>1. Entries(Saved(g.recs))' = Entries(v)'
      BY <2>3 DEF Entries
    <3>2. QED
      BY <1>3, <1>4, <1>7, <3>1
  <2>9. Described(g)' /\ LastBelow(lastSeq, g)
    <3>1. Bounded(Entries(Saved(g.recs)), LastOf(g.recs))'
      BY <1>5, <2>3, <2>8 DEF Bounded
    <3>2. QED
      BY <1>5, <2>3, <3>1 DEF Described, LastBelow
  <2>10. QED
    BY <1>11, <2>4, <2>7, <2>9 DEF FreshInv
<1>14. CASE phase = "clean"
  <2>1. /\ current' = current /\ phase' = "open"
        /\ logs' = Without(logs, {n \in DOMAIN logs : n < minLog})
        /\ manifests' = Without(manifests, {n \in DOMAIN manifests : n < manifestNum})
    BY <1>14 DEF Describe, Collect
  <2>2. /\ current = manifestNum /\ minLog = logNum
        /\ Readings(f) = {f.recs} /\ Saved(f.recs) = v
    BY <1>4, <1>14 DEF TableInv, WriteInv, WakeInv, DescriptorInv, VersionInv,
       FilesInv, LogInv
  <2>3. manifests'[current'] = f
    BY <1>2, <1>4, <2>1, <2>2 DEF Without, Restrict
  <2>4. Described(f)'
    BY <1>5, <1>10, DescribedStays
  <2>5. Named' \subseteq Present
    <3>1. ASSUME NEW x \in Named' PROVE x \in Present
      <4>1. PICK recs \in Readings(f) : x \in Entries(Saved(recs))'
        BY <2>3, NamedHas
      <4>2. Saved(recs) = v
        BY <2>2, <4>1
      <4>3. x \in Entries(v)'
        BY <4>1, <4>2 DEF Entries
      <4>4. QED
        BY <1>3, <1>4, <1>7, <4>3
    <3>2. QED
      BY <3>1
  <2>6. Logged' = {}
    <3>1. ASSUME NEW n \in DOMAIN logs' PROVE Whole(n)' = {}
      <4>1. n \in DOMAIN logs /\ ~(n < logNum) /\ logs'[n] = logs[n]
        BY <2>1, <2>2 DEF Without, Restrict
      <4>2. n = logNum
        BY <1>2, <4>1
      <4>3. QED
        BY <1>2, <4>1, <4>2, EmptyLog DEF Whole
    <3>2. QED
      BY <3>1, LoggedHas
  <2>7. World' \subseteq Present
    BY <1>3, <1>8, <2>5, <2>6, WorldHas
  <2>8. World' \subseteq World
    BY <2>7, WorldHas
  <2>9. Alike(World') /\ Numbered'
    BY <2>8, WorldLess DEF FreshInv
  <2>10. \A e \in World' : e.s <= lastSeq'
    BY <1>1, <1>5, <2>7 DEF Bounded
  <2>11. WorldInv'
    BY <2>9, <2>10 DEF WorldInv, Alike
  <2>12. QED
    BY <1>2, <1>5, <1>11, <2>1, <2>3, <2>4, <2>9, <2>11 DEF FreshInv
<1>15. QED
  BY <1>1, <1>12, <1>13, <1>14

-----------------------------------------------------------------------------
(* Together.                                                               *)

LEMMA FreshStep ==
  ASSUME TableInv, FilesInv, FreshInv, [Next]_vars
  PROVE  FreshInv'
<1>1. CASE UNCHANGED vars
  <2>1. /\ logs' = logs /\ tables' = tables /\ manifests' = manifests
        /\ current' = current /\ phase' = phase /\ toReplay' = toReplay
        /\ version' = version /\ lastSeq' = lastSeq /\ mem' = mem /\ imm' = imm
        /\ queue' = queue /\ wr' = wr /\ bg' = bg
    BY <1>1 DEF vars, disk, control, numbers, data
  <2>2. /\ Present' = Present /\ Based' = Based /\ Added' = Added
    BY <2>1 DEF Present, Based, Added, Entries, Contents
  <2>3. Named' = Named
    BY <2>1 DEF Named, Entries, Contents
  <2>4. \A n : MayReplay(n)' = MayReplay(n)
    BY <2>1 DEF MayReplay
  <2>5. Logged' = Logged
    BY <2>1, <2>4 DEF Logged, Whole
  <2>6. Fleeting' = Fleeting
    BY <2>1 DEF Fleeting, GroupEntries, Batches, Leader
  <2>7. World' = World
    BY <2>2, <2>3, <2>5, <2>6 DEF World
  <2>8. current # 0 /\ Described(manifests[current]) => Described(manifests[current])'
    BY <2>1 DEF Described, Bounded, Entries, Contents
  <2>9. SequenceInv'
    BY <2>1, <2>2, <2>4, <2>8 DEF FreshInv, SequenceInv
  <2>10. WorldInv' /\ Numbered'
    BY <2>1, <2>6, <2>7 DEF FreshInv, WorldInv, Numbered
  <2>11. QED
    BY <2>9, <2>10 DEF FreshInv
<1>2. CASE Opening
  BY <1>2, FreshBegins, FreshNewDB, FreshReplay, FreshNewLog, FreshDescribe DEF Opening
<1>3. CASE Leaving
  BY <1>3, FreshLeaving
<1>4. CASE phase = "open" /\ Quiet
  BY <1>4, SequenceQuiet, WorldInvQuiet DEF FreshInv
<1>5. CASE phase = "open" /\ (LogEdit \/ Apply \/ LogFails)
  BY <1>5, FreshLogEdit, FreshEnds
<1>6. QED
  BY <1>1, <1>2, <1>3, <1>4, <1>5, NextCases

LEMMA InitialFresh == Init => FreshInv
<1> SUFFICES ASSUME Init PROVE FreshInv
  OBVIOUS
<1>1. /\ logs = << >> /\ current = 0 /\ phase = "down" /\ mem = {} /\ imm = << >>
      /\ version = {} /\ lastSeq = 0 /\ queue = << >> /\ bg = Idle
  BY DEF Init
<1>2. bg.pc = "idle" /\ bg.comp.base = {}
  BY <1>1 DEF Idle, None
<1>3. DOMAIN logs = {}
  <2>1. << >> \in Seq({}) /\ Len(<< >>) = 0
    OBVIOUS
  <2>2. DOMAIN << >> = 1 .. 0
    BY <2>1, LenProperties
  <2>3. QED
    BY <1>1, <2>2
<1>4. Present = {}
  BY <1>1, NothingSaved, ImmIs DEF Present, Range
<1>5. Based = {} /\ Added = {} /\ Fleeting = {} /\ Named = {}
  BY <1>1, <1>2, NothingSaved DEF Based, Added, Fleeting, Named, Entries
<1>6. Logged = {}
  BY <1>3, LoggedHas
<1>7. World = {}
  BY <1>4, <1>5, <1>6 DEF World
<1>8. WorldInv
  BY <1>1, <1>7 DEF WorldInv, Alike
<1>9. Numbered
  <2>1. 0 \in Nat /\ Bounded(World, 0)
    BY <1>7 DEF Bounded
  <2>2. QED
    BY <2>1 DEF Numbered
<1>10. SequenceInv
  BY <1>1, <1>2, <1>3, <1>4, <1>5 DEF SequenceInv, Bounded
<1>11. QED
  BY <1>8, <1>9, <1>10 DEF FreshInv

(* The inductive invariant behind the sequence numbers: what a recovery may*)
(* ever read again, whichever unsynced ends of the files are left, has one *)
(* entry for a number, the descriptor bounds the numbers of its tables,    *)
(* and while the database is open only the group that is in the log and    *)
(* not yet in the memtable is above the last number.                       *)
THEOREM SequenceInvariant == Spec => []FreshInv
<1>1. Init => FreshInv
  BY InitialFresh
<1>2. TableInv /\ FilesInv /\ FreshInv /\ [Next]_vars => FreshInv'
  BY FreshStep
<1>3. FilesInv /\ DurableInv => FilesInv
  OBVIOUS
<1>4. QED
  BY <1>1, <1>2, <1>3, TablesInvariant, DurableInvariant, PTL DEF Spec

(* FreshSequence: DBImpl::Write (db_impl.cc:1202-1236) and DBImpl::Recover *)
(* (db_impl.cc:314-366) never give a sequence number twice, after a failed *)
(* append or sync, a crash, a power loss or a recovery of part of the logs,*)
(* whatever the bounds.                                                    *)
THEOREM NumbersAreFresh == Spec => []FreshSequence
<1>1. FreshInv => FreshSequence
  <2> SUFFICES ASSUME FreshInv, phase = "open"
               PROVE  /\ \A e, f \in Present : e.s = f.s => e = f
                      /\ \A e \in Present : e.s <= lastSeq
    BY DEF FreshSequence
  <2>1. Present \subseteq World /\ Alike(World)
    BY WorldHas DEF FreshInv, WorldInv
  <2>2. Bounded(Present, lastSeq)
    BY DEF FreshInv, SequenceInv, Bounded
  <2>3. QED
    BY <2>1, <2>2 DEF Alike, Bounded
<1>2. QED
  BY <1>1, SequenceInvariant, PTL

=============================================================================
