---------------------------- MODULE DBImplProofs ----------------------------
(***************************************************************************)
(* Proofs about LevelDB, for any number of writes, crashes and failing     *)
(* calls, and any limits: no writer is left behind, the tables that are    *)
(* needed are kept, and the database can always be opened again.           *)
(***************************************************************************)
EXTENDS DBImpl, TLAPS, SequenceTheorems, FiniteSetTheorems,
        WellFoundedInduction

-----------------------------------------------------------------------------
(* Sets of numbers, and finite sets.                                       *)

(* A set of numbers has a least one.                                       *)
LEMMA LeastOf ==
  ASSUME NEW T \in SUBSET Nat, T # {}
  PROVE  Min(T) \in T /\ \A y \in T : Min(T) <= y
<1> DEFINE R == {ss \in Nat \X Nat : ss[1] < ss[2]}
<1>0. IsWellFoundedOn(R, Nat)
  BY NatLessThanWellFounded, Zenon DEF OpToRel
<1>a. \A a, b \in Nat : a < b => <<a, b>> \in R
  OBVIOUS
<1> HIDE DEF R
<1>1. PICK x \in T : \A y \in T : ~(<<y, x>> \in R)
  BY <1>0, WFMin
<1>2. ASSUME NEW y \in T PROVE x <= y
  <2>1. x \in Nat /\ y \in Nat
    OBVIOUS
  <2>2. ~(<<y, x>> \in R)
    BY <1>1
  <2>3. ~(y < x)
    BY <2>1, <2>2, <1>a
  <2>4. QED
    BY <2>1, <2>3
<1>3. QED
  BY <1>2 DEF Min

(* A set of numbers up to n has a greatest one.                            *)
LEMMA GreatestOf ==
  ASSUME NEW n \in Nat, NEW T \in SUBSET (0 .. n), T # {}
  PROVE  Max(T) \in T /\ \A y \in T : y <= Max(T)
<1> DEFINE U == {n - x : x \in T}
<1>0. PICK z \in T : TRUE
  OBVIOUS
<1>1. U \in SUBSET Nat /\ n - z \in U
  OBVIOUS
<1>2. Min(U) \in U /\ \A y \in U : Min(U) <= y
  BY <1>1, LeastOf
<1>3. PICK x \in T : Min(U) = n - x
  BY <1>2
<1>4. \A y \in T : n - x <= n - y
  BY <1>2, <1>3
<1>5. \A y \in T : x \in Nat /\ y \in Nat
  OBVIOUS
<1>6. \A y \in T : x >= y
  BY <1>4, <1>5
<1>7. QED
  BY <1>5, <1>6 DEF Max

(* Sets of at most one element, and images of finite sets.                 *)
LEMMA AtMostOne ==
  ASSUME NEW x, NEW S \in SUBSET {x}
  PROVE  Cardinality(S) \in Nat /\ Cardinality(S) <= 1
<1>1. IsFiniteSet({x}) /\ Cardinality({x}) = 1
  BY FS_Singleton
<1>2. IsFiniteSet(S) /\ Cardinality(S) <= Cardinality({x})
  BY <1>1, FS_Subset
<1>3. Cardinality(S) \in Nat
  BY <1>2, FS_CardinalityType
<1>4. QED
  BY <1>1, <1>2, <1>3

-----------------------------------------------------------------------------
(* The queue of writers.                                                   *)

(* SignalAll moves the waiting writers on and leaves the others alone.     *)
LEMMA Signalled ==
  ASSUME NEW w \in [Writes -> Writer]
  PROVE  /\ SignalAll(w) \in [Writes -> Writer]
         /\ \A i \in Writes : /\ SignalAll(w)[i].pc # "wait"
                              /\ w[i].pc # "wait" => SignalAll(w)[i] = w[i]
                              /\ w[i].pc = "wait" => SignalAll(w)[i].pc = "room"
<1>1. ASSUME NEW i \in Writes
      PROVE  /\ SignalAll(w)[i] \in Writer
             /\ SignalAll(w)[i].pc # "wait"
             /\ w[i].pc # "wait" => SignalAll(w)[i] = w[i]
             /\ w[i].pc = "wait" => SignalAll(w)[i].pc = "room"
  BY DEF SignalAll, Writer, AtFront
<1>2. SignalAll(w) = [i \in Writes |-> SignalAll(w)[i]]
  BY DEF SignalAll
<1>3. QED
  BY <1>1, <1>2

(* The writers w are those of wr, some of them woken from their waiting.   *)
Woken(w) ==
  /\ w \in [Writes -> Writer]
  /\ \A i \in Writes : \/ w[i] = wr[i]
                       \/ wr[i].pc = "wait" /\ w[i].pc = "room"

LEMMA WokenForms ==
  ASSUME QueueInv
  PROVE  /\ Woken(wr) /\ Woken(SignalAll(wr)) /\ Woken(Alarmed(wr))
         /\ Woken(SignalAll(Alarmed(wr)))
<1>1. wr \in [Writes -> Writer]
  BY DEF QueueInv
<1>2. Woken(wr)
  BY <1>1 DEF Woken
<1>3. Woken(SignalAll(wr))
  BY <1>1, Signalled DEF Woken
<1>4. Woken(Alarmed(wr))
  BY <1>2, <1>3 DEF Alarmed
<1>5. ASSUME NEW w, Woken(w) PROVE Woken(SignalAll(w))
  <2>1. w \in [Writes -> Writer]
    BY <1>5 DEF Woken
  <2>2. SignalAll(w) \in [Writes -> Writer]
    BY <2>1, Signalled
  <2>3. ASSUME NEW i \in Writes
        PROVE  \/ SignalAll(w)[i] = wr[i]
               \/ wr[i].pc = "wait" /\ SignalAll(w)[i].pc = "room"
    <3>1. /\ w[i].pc # "wait" => SignalAll(w)[i] = w[i]
          /\ w[i].pc = "wait" => SignalAll(w)[i].pc = "room"
      BY <2>1, Signalled
    <3>2. w[i] = wr[i] \/ (wr[i].pc = "wait" /\ w[i].pc = "room")
      BY <1>5 DEF Woken
    <3>3. QED
      BY <3>1, <3>2
  <2>4. QED
    BY <2>2, <2>3 DEF Woken
<1>6. QED
  BY <1>2, <1>3, <1>4, <1>5

(* Waking writers leaves the queue in order.                               *)
LEMMA QueueKept ==
  ASSUME QueueInv, queue' = queue, Woken(wr')
  PROVE  QueueInv'
<1>1. \A k \in 1 .. Len(queue) : queue[k] \in Writes
  BY DEF QueueInv
<1>2. queue # << >> => wr'[queue[1]].pc \in AtFront
  <2>1. SUFFICES ASSUME queue # << >> PROVE wr'[queue[1]].pc \in AtFront
    OBVIOUS
  <2>2. queue[1] \in Writes
    BY <1>1, <2>1 DEF QueueInv
  <2>3. QED
    BY <2>1, <2>2 DEF QueueInv, Woken, AtFront
<1>3. \A k \in 2 .. Len(queue) : wr'[queue[k]].pc = "queued"
  BY <1>1 DEF QueueInv, Woken
<1>4. QED
  BY <1>2, <1>3 DEF QueueInv, Woken

(* The end of Write: the first n are done, the next one is at the front.   *)
LEMMA QueueShortened ==
  ASSUME QueueInv, NEW n \in Nat, NEW w, Woken(w), Return(w, n)
  PROVE  QueueInv' /\ (queue' # << >> => queue # << >> /\ wr'[queue'[1]].pc = "room")
<1> DEFINE L == Len(queue)
<1>1. /\ queue \in Seq(Writes) /\ L \in Nat
      /\ \A k \in 1 .. L : queue[k] \in Writes
      /\ \A j, k \in 1 .. L : queue[j] = queue[k] => j = k
      /\ \A k \in 2 .. L : wr[queue[k]].pc = "queued"
  BY DEF QueueInv
<1>2. wr' = Returned(w, n) /\ queue' = SubSeq(queue, n + 1, L)
  BY DEF Return
<1> HIDE DEF L
<1>3. ASSUME NEW i \in Writes PROVE wr'[i] \in Writer
  BY <1>2 DEF Returned, Woken, Writer, AtFront, NewWr
<1>4. wr' \in [Writes -> Writer]
  BY <1>2, <1>3 DEF Returned
<1>5. CASE n >= L
  <2>1. queue' = << >>
    BY <1>1, <1>2, <1>5, SubSeqEmpty
  <2>2. QED
    BY <2>1, <1>4 DEF QueueInv
<1>6. CASE n < L
  <2>1. /\ queue' \in Seq(Writes) /\ Len(queue') = L - n
        /\ \A k \in 1 .. L - n : queue'[k] = queue[n + k]
    <3>1. \A k \in n + 1 .. L : queue[k] \in Writes
      BY <1>1
    <3>2. /\ queue' \in Seq(Writes)
          /\ Len(queue') = IF n + 1 <= L THEN L - (n + 1) + 1 ELSE 0
          /\ \A k \in 1 .. L - (n + 1) + 1 : queue'[k] = queue[n + 1 + k - 1]
      BY <1>1, <1>2, <3>1, SubSeqProperties
    <3>3. n + 1 <= L /\ L - (n + 1) + 1 = L - n
      BY <1>1, <1>6
    <3>4. \A k \in 1 .. L - n : n + 1 + k - 1 = n + k
      BY <1>1
    <3>5. QED
      BY <3>2, <3>3, <3>4
  <2>2. \A j, k \in 1 .. Len(queue') : queue'[j] = queue'[k] => j = k
    <3>1. SUFFICES ASSUME NEW j \in 1 .. L - n, NEW k \in 1 .. L - n,
                          queue'[j] = queue'[k]
                   PROVE  j = k
      BY <2>1
    <3>2. n + j \in 1 .. L /\ n + k \in 1 .. L /\ queue[n + j] = queue[n + k]
      BY <1>1, <2>1, <3>1
    <3>3. n + j = n + k
      BY <1>1, <3>2
    <3>4. QED
      BY <3>3
  <2>3. ASSUME NEW k \in 1 .. L - n, NEW j \in 1 .. n
        PROVE  queue[j] # queue[n + k]
    BY <1>1, <1>6
  <2>4. wr'[queue'[1]].pc = "room"
    <3>1. queue'[1] = queue[n + 1] /\ queue[n + 1] \in Writes
      BY <1>1, <1>6, <2>1
    <3>2. ~ \E j \in 1 .. n : queue[j] = queue[n + 1]
      BY <1>1, <1>6, <2>3
    <3>3. wr'[queue[n + 1]] = [w[queue[n + 1]] EXCEPT !.pc = "room"]
      BY <1>2, <1>6, <3>1, <3>2 DEF Returned, L
    <3>4. w[queue[n + 1]] \in Writer
      BY <3>1 DEF Woken
    <3>5. QED
      BY <3>1, <3>3, <3>4 DEF Writer
  <2>5. ASSUME NEW k \in 2 .. Len(queue') PROVE wr'[queue'[k]].pc = "queued"
    <3>1. k \in 1 .. L - n /\ n + k \in 2 .. L
      BY <1>1, <2>1
    <3>2. queue'[k] = queue[n + k] /\ queue[n + k] \in Writes
      BY <1>1, <2>1, <3>1
    <3>3. ~ \E j \in 1 .. n : queue[j] = queue[n + k]
      BY <2>3, <3>1
    <3>4. queue[n + 1] # queue[n + k]
      BY <1>1, <1>6, <3>1
    <3>5. wr'[queue[n + k]] = w[queue[n + k]]
      BY <1>2, <3>2, <3>3, <3>4 DEF Returned
    <3>6. wr[queue[n + k]].pc = "queued"
      BY <1>1, <3>1
    <3>7. QED
      BY <3>2, <3>5, <3>6 DEF Woken
  <2>6. queue # << >>
    BY <1>6, <1>1 DEF L
  <2>7. QED
    BY <1>4, <2>1, <2>2, <2>4, <2>5, <2>6 DEF QueueInv, AtFront
<1>7. QED
  BY <1>1, <1>5, <1>6

(* BuildBatchGroup takes at least the leader.                              *)
LEMMA GroupIsNumber ==
  ASSUME QueueInv, queue # << >>
  PROVE  /\ GroupSize \in Nat /\ GroupSize \in 1 .. Len(queue)
         /\ \A k \in 2 .. GroupSize : SyncFits(wr[Leader], wr[queue[k]])
<1> DEFINE ok(n) == /\ \A k \in 2 .. n : SyncFits(wr[Leader], wr[queue[k]])
                    /\ Cardinality({k \in 1 .. n : ~wr[queue[k]].null})
                         <= MaxGroup
           T == {n \in 1 .. Len(queue) : ok(n)}
<1>1. Len(queue) \in Nat /\ 1 \in 1 .. Len(queue)
  BY DEF QueueInv
<1>2. ok(1)
  <2>1. {k \in 1 .. 1 : ~wr[queue[k]].null} \in SUBSET {1}
    OBVIOUS
  <2>2. /\ Cardinality({k \in 1 .. 1 : ~wr[queue[k]].null}) \in Nat
        /\ Cardinality({k \in 1 .. 1 : ~wr[queue[k]].null}) <= 1
    BY <2>1, AtMostOne
  <2>3. QED
    BY <2>2, LimitsAssumption
<1>3. T \in SUBSET (0 .. Len(queue)) /\ 1 \in T
  BY <1>1, <1>2
<1>t. \A n \in T : n \in 1 .. Len(queue) /\ ok(n)
  OBVIOUS
<1> HIDE DEF T
<1>4. Max(T) \in T
  BY <1>1, <1>3, GreatestOf
<1>5. Max(T) \in 1 .. Len(queue) /\ ok(Max(T))
  BY <1>4, <1>t
<1>6. GroupSize = Max(T)
  BY DEF GroupSize, T
<1>7. QED
  BY <1>1, <1>5, <1>6

(* The first writer goes on, the queue stays.                              *)
LEMMA LeaderMoves ==
  ASSUME QueueInv, queue # << >>, queue' = queue,
         wr' \in [Writes -> Writer], wr'[Leader].pc \in AtFront,
         \A i \in Writes : i # Leader => wr'[i] = wr[i]
  PROVE  QueueInv'
<1>1. Leader = queue[1] /\ Len(queue) \in Nat /\ 1 \in 1 .. Len(queue)
  BY DEF QueueInv, Leader
<1>2. ASSUME NEW k \in 2 .. Len(queue) PROVE wr'[queue[k]].pc = "queued"
  <2>1. queue[k] \in Writes /\ queue[k] # queue[1]
    BY <1>1 DEF QueueInv
  <2>2. QED
    BY <1>1, <2>1 DEF QueueInv
<1>3. QED
  BY <1>1, <1>2 DEF QueueInv

(* Changes of one writer's record.                                         *)
OneChanged(w, w2, i) ==
  w2 \in [Writes -> Writer] /\ \A j \in Writes : j # i => w2[j] = w[j]

LEMMA WriterChanges ==
  ASSUME NEW w \in [Writes -> Writer], NEW i \in Writes, NEW pc \in AtFront
  PROVE  /\ OneChanged(w, [w EXCEPT ![i].pc = pc], i)
         /\ [w EXCEPT ![i].pc = pc][i].pc = pc
         /\ OneChanged(w, [w EXCEPT ![i].force = FALSE], i)
         /\ [w EXCEPT ![i].force = FALSE][i].pc = w[i].pc
<1>1. w[i] \in Writer
  OBVIOUS
<1>2. /\ [w[i] EXCEPT !.pc = pc] \in Writer
      /\ [w[i] EXCEPT !.pc = pc].pc = pc
      /\ [w[i] EXCEPT !.force = FALSE] \in Writer
      /\ [w[i] EXCEPT !.force = FALSE].pc = w[i].pc
  BY <1>1 DEF Writer
<1>3. /\ [w EXCEPT ![i].pc = pc] = [w EXCEPT ![i] = [w[i] EXCEPT !.pc = pc]]
      /\ [w EXCEPT ![i].force = FALSE]
           = [w EXCEPT ![i] = [w[i] EXCEPT !.force = FALSE]]
  OBVIOUS
<1>4. ASSUME NEW r \in Writer
      PROVE  OneChanged(w, [w EXCEPT ![i] = r], i) /\ [w EXCEPT ![i] = r][i] = r
  BY DEF OneChanged
<1>5. QED
  BY <1>2, <1>3, <1>4

LEMMA LeaderGoes ==
  ASSUME QueueInv, queue # << >>, queue' = queue, NEW pc \in AtFront,
         NEW g \in Nat,
         \/ wr' = [wr EXCEPT ![queue[1]].pc = pc]
         \/ wr' = [wr EXCEPT ![queue[1]].pc = pc, ![queue[1]].group = g]
         \/ wr' = [wr EXCEPT ![queue[1]].force = FALSE]
  PROVE  QueueInv'
<1>1. /\ queue[1] \in Writes /\ Leader = queue[1]
      /\ wr \in [Writes -> Writer] /\ wr[queue[1]].pc \in AtFront
  BY DEF QueueInv, Leader
<1>2. CASE wr' = [wr EXCEPT ![queue[1]].pc = pc]
  <2>1. OneChanged(wr, wr', queue[1]) /\ wr'[queue[1]].pc = pc
    BY <1>1, <1>2, WriterChanges
  <2>2. QED
    BY <1>1, <2>1, LeaderMoves DEF OneChanged
<1>3. CASE wr' = [wr EXCEPT ![queue[1]].pc = pc, ![queue[1]].group = g]
  <2> DEFINE r == [wr[queue[1]] EXCEPT !.pc = pc, !.group = g]
  <2>a. wr' = [wr EXCEPT ![queue[1]] = r]
    <3> PICK q \in Writes : q = queue[1]
      BY <1>1
    <3>1. [wr EXCEPT ![q].pc = pc, ![q].group = g]
            = [wr EXCEPT ![q] = [wr[q] EXCEPT !.pc = pc, !.group = g]]
      BY <1>1
    <3>2. QED
      BY <1>3, <3>1
  <2>b. r \in Writer /\ r.pc = pc
    <3> PICK x \in Writer : x = wr[queue[1]]
      BY <1>1
    <3>1. [x EXCEPT !.pc = pc, !.group = g] \in Writer
      BY DEF Writer
    <3>2. QED
      BY <3>1 DEF Writer
  <2> HIDE DEF r
  <2>1. OneChanged(wr, wr', queue[1]) /\ wr'[queue[1]].pc = pc
    <3>1. wr' \in [Writes -> Writer] /\ wr'[queue[1]] = r
      BY <1>1, <2>a, <2>b
    <3>2. QED
      BY <1>1, <2>a, <2>b, <3>1 DEF OneChanged
  <2>2. QED
    BY <1>1, <2>1, LeaderMoves DEF OneChanged
<1>4. CASE wr' = [wr EXCEPT ![queue[1]].force = FALSE]
  <2>1. OneChanged(wr, wr', queue[1]) /\ wr'[queue[1]].pc = wr[queue[1]].pc
    BY <1>1, <1>4, WriterChanges
  <2>2. QED
    BY <1>1, <2>1, LeaderMoves DEF OneChanged
<1>5. QED
  BY <1>2, <1>3, <1>4

(* The steps that touch neither the queue nor the writers.                 *)
LEMMA QueueUntouched ==
  ASSUME \/ Opening \/ FlushBegins \/ CompactionBegins \/ FinishCompaction
         \/ OpenCompactionOutputFile \/ LogEdit
         \/ NewIterator \/ DeleteIterator \/ Close \/ UNCHANGED vars
  PROVE  queue' = queue /\ wr' = wr
<1>1. CASE Opening
  BY <1>1 DEF Opening, Open, NewDB, Recover, RecoverLogFile, NewLog, Describe
<1>2. CASE FlushBegins \/ CompactionBegins \/ FinishCompaction
  BY <1>2 DEF FlushBegins, CompactionBegins, FinishCompaction
<1>3. CASE OpenCompactionOutputFile \/ LogEdit
  BY <1>3 DEF OpenCompactionOutputFile, LogEdit
<1>4. CASE NewIterator \/ DeleteIterator \/ Close \/ UNCHANGED vars
  BY <1>4 DEF NewIterator, DeleteIterator, Close, vars
<1>5. QED
  BY <1>1, <1>2, <1>3, <1>4

(* The steps that end something the background thread did: they wake all.  *)
Ending == \/ NothingToDo \/ FlushFails \/ CompactionFails \/ Apply \/ LogFails
          \/ \E l \in {0, 1} : FlushBuilt(l)

LEMMA EndingWakes ==
  ASSUME QueueInv, Ending
  PROVE  queue' = queue /\ Woken(wr')
<1>1. CASE NothingToDo
  BY <1>1, WokenForms DEF NothingToDo, BackgroundCallEnds
<1>2. ASSUME Fail PROVE Woken(wr')
  BY <1>2, WokenForms DEF Fail, Ends, BackgroundCallEnds
<1>3. CASE FlushFails \/ LogFails
  BY <1>2, <1>3 DEF FlushFails, LogFails
<1>4. CASE CompactionFails
  BY <1>4, WokenForms DEF CompactionFails, BackgroundCallEnds
<1>5. CASE Apply
  BY <1>5, WokenForms DEF Apply, Ends, BackgroundCallEnds
<1>6. CASE \E l \in {0, 1} : FlushBuilt(l)
  BY <1>2, <1>6, WokenForms DEF FlushBuilt
<1>7. QED
  BY <1>1, <1>3, <1>4, <1>5, <1>6 DEF Ending

LEMMA QueueWriting ==
  ASSUME QueueInv, Writing
  PROVE  QueueInv'
<1> USE DEF Leader
<1>1. ASSUME queue # << >>
      PROVE  /\ queue[1] \in Writes /\ wr[queue[1]] \in Writer
             /\ Head(queue) = queue[1] /\ wr[queue[1]].group \in Nat
             /\ GroupSize \in Nat
  <2>1. queue[1] \in Writes /\ wr[queue[1]] \in Writer /\ Head(queue) = queue[1]
    BY <1>1 DEF QueueInv
  <2>2. wr[queue[1]].group \in Nat
    BY <2>1 DEF Writer
  <2>3. GroupSize \in Nat
    BY <1>1, GroupIsNumber
  <2>4. QED
    BY <2>1, <2>2, <2>3
<1>2. CASE MakeRoomForWrite
  <2>1. queue # << >>
    BY <1>2 DEF MakeRoomForWrite
  <2>2. CASE Return(wr, 1)
    BY <2>2, QueueShortened, WokenForms
  <2>3. CASE /\ queue' = queue
             /\ \/ wr' = [wr EXCEPT ![queue[1]].pc = "append",
                                    ![queue[1]].group = GroupSize]
                \/ wr' = [wr EXCEPT ![queue[1]].pc = "wait"]
                \/ wr' = [wr EXCEPT ![queue[1]].force = FALSE]
    <3>1. "append" \in AtFront /\ "wait" \in AtFront /\ GroupSize \in Nat
      BY <1>1, <2>1 DEF AtFront
    <3>2. QED
      BY <2>1, <2>3, <3>1, LeaderGoes
  <2>4. QED
    BY <1>1, <1>2, <2>1, <2>2, <2>3 DEF MakeRoomForWrite, Wr
<1>3. CASE AppendRecord \/ SyncLog
  <2>1. queue # << >> /\ queue' = queue
    BY <1>3 DEF AppendRecord, SyncLog, At
  <2>2. wr' = [wr EXCEPT ![queue[1]].pc = "sync"] \/
        wr' = [wr EXCEPT ![queue[1]].pc = "insert"]
    BY <1>1, <1>3, <2>1 DEF AppendRecord, SyncLog, Wr
  <2>3. "sync" \in AtFront /\ "insert" \in AtFront /\ 0 \in Nat
    BY DEF AtFront
  <2>4. QED
    BY <2>1, <2>2, <2>3, LeaderGoes
<1>4. CASE InsertInto \/ AppendFails
  <2>1. queue # << >> /\ Return(wr, wr[queue[1]].group)
    BY <1>1, <1>4 DEF InsertInto, AppendFails, At
  <2>2. QED
    BY <1>1, <2>1, QueueShortened, WokenForms
<1>5. CASE SyncFails
  <2>1. queue # << >> /\ Return(Alarmed(wr), wr[queue[1]].group)
    BY <1>1, <1>5 DEF SyncFails, At
  <2>2. QED
    BY <1>1, <2>1, QueueShortened, WokenForms
<1>6. CASE NoLog
  <2>1. Return(wr, 1)
    BY <1>6 DEF NoLog
  <2>2. QED
    BY <2>1, QueueShortened, WokenForms
<1>7. QED
  BY <1>2, <1>3, <1>4, <1>5, <1>6 DEF Writing

LEMMA QueueJoined ==
  ASSUME QueueInv, NEW i \in Writes, NEW sync \in BOOLEAN, NEW null \in BOOLEAN,
         Enqueue(i, sync, null)
  PROVE  QueueInv'
<1> DEFINE L == Len(queue)
           pc == IF queue = << >> THEN "room" ELSE "queued"
<1>1. /\ queue \in Seq(Writes) /\ L \in Nat
      /\ \A k \in 1 .. L : queue[k] \in Writes
      /\ queue' = Append(queue, i) /\ wr[i].pc = "new"
      /\ wr' = [wr EXCEPT ![i] = [pc |-> pc, sync |-> sync, null |-> null,
                                  force |-> null, group |-> 0]]
  BY DEF QueueInv, Enqueue
<1>2. ASSUME NEW k \in 1 .. L PROVE queue[k] # i
  BY <1>1 DEF QueueInv, AtFront
<1>3. /\ queue' \in Seq(Writes) /\ Len(queue') = L + 1 /\ queue'[L + 1] = i
      /\ \A k \in 1 .. L : queue'[k] = queue[k]
  BY <1>1, AppendProperties
<1>4. wr' \in [Writes -> Writer] /\ wr'[i].pc = pc
  BY <1>1 DEF QueueInv, Writer, AtFront
<1>5. \A j \in Writes : j # i => wr'[j] = wr[j]
  BY <1>1 DEF QueueInv
<1> HIDE DEF pc
<1>6. \A j, k \in 1 .. Len(queue') : queue'[j] = queue'[k] => j = k
  BY <1>1, <1>2, <1>3 DEF QueueInv
<1>7. CASE queue = << >>
  <2>1. L = 0 /\ pc = "room"
    BY <1>7 DEF pc
  <2>2. QED
    BY <1>3, <1>4, <1>6, <2>1 DEF QueueInv, AtFront
<1>8. CASE queue # << >>
  <2>1. pc = "queued" /\ 1 \in 1 .. L
    BY <1>1, <1>8 DEF pc
  <2>2. wr'[queue'[1]].pc \in AtFront
    BY <1>1, <1>2, <1>3, <1>5, <1>8, <2>1 DEF QueueInv
  <2>3. ASSUME NEW k \in 2 .. Len(queue') PROVE wr'[queue'[k]].pc = "queued"
    <3>1. CASE k = L + 1
      BY <1>3, <1>4, <2>1, <3>1
    <3>2. CASE k # L + 1
      <4>1. k \in 2 .. L /\ k \in 1 .. L
        BY <1>1, <1>3, <3>2
      <4>2. QED
        BY <1>1, <1>2, <1>3, <1>5, <4>1 DEF QueueInv
    <3>3. QED
      BY <3>1, <3>2
  <2>4. QED
    BY <1>3, <1>4, <1>6, <2>2, <2>3 DEF QueueInv
<1>9. QED
  BY <1>7, <1>8

LEMMA QueueGone ==
  ASSUME QueueInv, Gone
  PROVE  QueueInv'
<1>1. ASSUME NEW i \in Writes PROVE wr'[i] \in Writer
  BY DEF QueueInv, Gone, Writer, NewWr
<1>2. wr' \in [Writes -> Writer]
  BY <1>1 DEF Gone
<1>3. QED
  BY <1>2 DEF QueueInv, Gone

(* The end of the process.                                                 *)
Leaving == Closed \/ Crash \/ PowerLoss \/ OpenFails

LEMMA QueueStep == QueueInv /\ [Next]_vars => QueueInv'
<1> SUFFICES ASSUME QueueInv, [Next]_vars PROVE QueueInv'
  OBVIOUS
<1>1. CASE \/ Opening \/ FlushBegins \/ CompactionBegins \/ FinishCompaction
           \/ OpenCompactionOutputFile \/ LogEdit
           \/ NewIterator \/ DeleteIterator \/ Close \/ UNCHANGED vars
  BY <1>1, QueueUntouched, QueueKept, WokenForms
<1>2. CASE Ending
  BY <1>2, EndingWakes, QueueKept
<1>3. CASE Writing
  BY <1>3, QueueWriting
<1>4. ASSUME NEW i \in Writes, NEW sync \in BOOLEAN,
             Enqueue(i, sync, FALSE) \/ Enqueue(i, FALSE, TRUE)
      PROVE  QueueInv'
  BY <1>4, QueueJoined
<1>5. CASE Leaving
  BY <1>5, QueueGone DEF Leaving, Closed, Crash, PowerLoss, OpenFails
<1>6. QED
  BY <1>1, <1>2, <1>3, <1>4, <1>5 DEF Next, Background, Ending, Leaving

-----------------------------------------------------------------------------
(* The background thread.                                                  *)

(* Nothing waits after SignalAll.                                          *)
LEMMA NobodyWaits ==
  ASSUME QueueInv, NEW w, Woken(w), wr' = SignalAll(w), queue' = queue,
         queue # << >>
  PROVE  wr'[queue[1]].pc # "wait"
<1>1. queue[1] \in Writes
  BY DEF QueueInv
<1>2. QED
  BY <1>1, Signalled DEF Woken

(* A full level 0 needs a compaction, long before writes stop for it.      *)
LEMMA StopNeedsCompaction ==
  ASSUME IsFiniteSet(version), Cardinality(L0(version)) >= L0Stop
  PROVE  NeedsCompaction(version)
<1>1. IsFiniteSet(L0(version))
  BY FS_Subset DEF L0
<1>2. Cardinality(L0(version)) \in Nat
  BY <1>1, FS_CardinalityType
<1>3. QED
  BY <1>2, LimitsAssumption DEF NeedsCompaction

LEMMA WakeOpening ==
  ASSUME WakeInv, Opening
  PROVE  WakeInv'
<1>1. phase # "open" /\ queue = << >>
  BY DEF WakeInv, Opening, Open, NewDB, Recover, RecoverLogFile, NewLog, Describe
<1>2. queue' = queue /\ wr' = wr
  BY QueueUntouched
<1>3. bg' = bg /\ imm' = imm /\ bgError' = bgError /\ shutting' = shutting
  BY DEF Opening, Open, NewDB, Recover, RecoverLogFile, NewLog, Describe,
         data, control
<1>4. CASE Describe /\ phase = "clean"
  <2>1. /\ scheduled' = Schedule(FALSE, FALSE, << >>, version)
        /\ version' = version /\ phase' = "open"
    BY <1>4 DEF Describe, data
  <2>2. QED
    BY <1>1, <1>2, <1>3, <2>1 DEF WakeInv, Schedule
<1>5. CASE ~(Describe /\ phase = "clean")
  <2>1. scheduled' = scheduled /\ phase' # "open"
    BY <1>5 DEF Opening, Open, NewDB, Recover, RecoverLogFile, NewLog, Describe,
                control
  <2>2. QED
    BY <1>1, <1>2, <1>3, <2>1 DEF WakeInv
<1>6. QED
  BY <1>4, <1>5

(* The steps with which the background thread works on.                    *)
Working == FlushBegins \/ CompactionBegins \/ FinishCompaction
             \/ OpenCompactionOutputFile \/ LogEdit

LEMMA WakeWorking ==
  ASSUME WakeInv, Working
  PROVE  WakeInv'
<1>1. queue' = queue /\ wr' = wr
  BY QueueUntouched DEF Working
<1>2. /\ control' = control /\ imm' = imm /\ version' = version
  BY DEF Working, FlushBegins, CompactionBegins, FinishCompaction,
         OpenCompactionOutputFile, LogEdit, data
<1>3. scheduled
  BY DEF Working, FlushBegins, CompactionBegins, FinishCompaction,
         OpenCompactionOutputFile, LogEdit, MayWork, WakeInv
<1>4. QED
  BY <1>1, <1>2, <1>3 DEF WakeInv, control

(* What a step that ends something leaves: nobody waits, and the thread is *)
(* scheduled again when there is more to do, or goes on with a compaction. *)
LEMMA WakeEnds ==
  ASSUME QueueInv, WakeInv, NEW w, Woken(w), NEW err, NEW im, NEW v,
         Ends(w, err, im, v) \/ BackgroundCallEnds(w, err, im, v),
         phase = "open", phase' = phase, shutting' = shutting, queue' = queue,
         bgError' = err, imm' = im, version' = v, scheduled
  PROVE  WakeInv'
<1>1. wr' = SignalAll(w)
  BY DEF Ends, BackgroundCallEnds
<1>2. queue # << >> => wr'[queue[1]].pc # "wait"
  BY <1>1, NobodyWaits
<1>3. CASE BackgroundCallEnds(w, err, im, v)
  <2>1. bg'.pc = "idle" /\ scheduled' = Schedule(FALSE, err, im, v)
    BY <1>3 DEF BackgroundCallEnds, Idle
  <2>2. QED
    BY <1>2, <2>1 DEF WakeInv, Schedule
<1>4. CASE ~BackgroundCallEnds(w, err, im, v)
  <2>1. scheduled' = scheduled
    BY <1>4 DEF Ends
  <2>2. QED
    BY <1>2, <2>1 DEF WakeInv
<1>5. QED
  BY <1>3, <1>4

LEMMA WakeEnding ==
  ASSUME QueueInv, WakeInv, Ending
  PROVE  WakeInv'
<1>1. /\ queue' = queue /\ phase' = phase /\ shutting' = shutting
  BY EndingWakes DEF Ending, NothingToDo, FlushFails, CompactionFails, Apply,
     LogFails, FlushBuilt
<1>2. scheduled /\ phase = "open"
  BY DEF Ending, NothingToDo, FlushFails, CompactionFails, Apply, LogFails,
     FlushBuilt, WakeInv
<1>3. Woken(wr) /\ Woken(Alarmed(wr))
  BY WokenForms
<1>4. CASE NothingToDo
  <2>1. /\ BackgroundCallEnds(wr, bgError, imm, version)
        /\ bgError' = bgError /\ imm' = imm /\ version' = version
    BY <1>4 DEF NothingToDo, data
  <2>2. QED
    BY <1>1, <1>2, <1>3, <2>1, WakeEnds
<1>5. ASSUME Fail, imm' = imm, version' = version
      PROVE  WakeInv'
  <2>1. Ends(Alarmed(wr), TRUE, imm, version) /\ bgError' = TRUE
    BY <1>5 DEF Fail
  <2>2. QED
    BY <1>1, <1>2, <1>3, <1>5, <2>1, WakeEnds
<1>6. CASE FlushFails \/ LogFails
  BY <1>5, <1>6 DEF FlushFails, LogFails
<1>7. CASE CompactionFails
  <2>1. /\ BackgroundCallEnds(Alarmed(wr), TRUE, imm, version)
        /\ bgError' = TRUE /\ imm' = imm /\ version' = version
    BY <1>7 DEF CompactionFails
  <2>2. QED
    BY <1>1, <1>2, <1>3, <2>1, WakeEnds
<1>8. CASE Apply
  <2>1. Ends(wr, bgError, imm', version') /\ bgError' = bgError
    BY <1>8 DEF Apply
  <2>2. QED
    BY <1>1, <1>2, <1>3, <2>1, WakeEnds
<1>9. CASE \E l \in {0, 1} : FlushBuilt(l)
  <2>1. bg.pc # "idle" /\ imm' = imm /\ version' = version
    BY <1>9 DEF FlushBuilt
  <2>2. CASE Fail
    BY <2>1, <2>2, <1>5
  <2>3. CASE UNCHANGED <<bgError, scheduled, wr>>
    BY <1>1, <1>2, <2>1, <2>3 DEF WakeInv
  <2>4. QED
    BY <1>9, <2>2, <2>3 DEF FlushBuilt
<1>10. QED
  BY <1>4, <1>6, <1>7, <1>8, <1>9 DEF Ending

LEMMA WakeWriting ==
  ASSUME QueueInv, WakeInv, IsFiniteSet(version), Writing
  PROVE  WakeInv'
<1> USE DEF Leader
<1>1. /\ queue # << >> /\ Head(queue) = queue[1] /\ queue[1] \in Writes
      /\ wr[queue[1]] \in Writer /\ wr[queue[1]].group \in Nat
  <2>1. queue # << >>
    BY DEF Writing, MakeRoomForWrite, AppendRecord, SyncLog, InsertInto, NoLog,
           AppendFails, SyncFails, At
  <2>2. Head(queue) = queue[1] /\ queue[1] \in Writes /\ wr[queue[1]] \in Writer
    BY <2>1 DEF QueueInv
  <2>3. QED
    BY <2>1, <2>2 DEF Writer
<1>2. phase = "open" /\ ~shutting
  BY <1>1 DEF WakeInv
<1>3. /\ phase' = phase /\ shutting' = shutting /\ bg' = bg /\ version' = version
  BY DEF Writing, MakeRoomForWrite, AppendRecord, SyncLog, InsertInto, NoLog,
         AppendFails, SyncFails, control, data
<1>4. ASSUME NEW w, Woken(w), NEW n \in Nat, Return(w, n)
      PROVE  queue' # << >> => wr'[queue'[1]].pc # "wait"
  BY <1>4, QueueShortened
<1>5. Woken(wr) /\ Woken(Alarmed(wr))
  BY WokenForms
<1>6. CASE InsertInto \/ AppendFails \/ NoLog
  <2>1. /\ bgError' = bgError /\ scheduled' = scheduled /\ imm' = imm
        /\ \E n \in Nat : Return(wr, n)
    BY <1>1, <1>6 DEF InsertInto, AppendFails, NoLog, control, data
  <2>2. queue' # << >> => wr'[queue'[1]].pc # "wait"
    BY <2>1, <1>4, <1>5
  <2>3. QED
    BY <1>1, <1>2, <1>3, <2>1, <2>2 DEF WakeInv
<1>7. CASE SyncFails
  <2>1. /\ bgError' = TRUE /\ scheduled' = scheduled /\ imm' = imm
        /\ \E n \in Nat : Return(Alarmed(wr), n)
    BY <1>1, <1>7 DEF SyncFails, data
  <2>2. queue' # << >> => wr'[queue'[1]].pc # "wait"
    BY <2>1, <1>4, <1>5
  <2>3. QED
    BY <1>1, <1>2, <1>3, <2>1, <2>2 DEF WakeInv
<1>8. CASE AppendRecord \/ SyncLog
  <2>1. /\ bgError' = bgError /\ scheduled' = scheduled /\ imm' = imm
        /\ queue' = queue /\ wr[queue[1]].pc # "wait"
        /\ \/ wr' = [wr EXCEPT ![queue[1]].pc = "sync"]
           \/ wr' = [wr EXCEPT ![queue[1]].pc = "insert"]
    BY <1>1, <1>8 DEF AppendRecord, SyncLog, At, Wr, control, data
  <2>2. wr'[queue[1]].pc # "wait"
    BY <1>1, <2>1 DEF QueueInv, Writer
  <2>3. QED
    BY <1>1, <1>2, <1>3, <2>1, <2>2 DEF WakeInv
<1>9. CASE MakeRoomForWrite
  <2>1. bgError' = bgError
    BY <1>9 DEF MakeRoomForWrite
  <2>2. CASE Return(wr, 1) /\ UNCHANGED <<imm, scheduled>>
    <3>1. queue' # << >> => wr'[queue'[1]].pc # "wait"
      BY <2>2, <1>4, <1>5
    <3>2. QED
      BY <1>1, <1>2, <1>3, <2>1, <2>2, <3>1 DEF WakeInv
  <2>3. CASE /\ wr' = [wr EXCEPT ![queue[1]].pc = "append",
                                 ![queue[1]].group = GroupSize]
             /\ UNCHANGED <<imm, scheduled, queue>>
    <3>1. wr'[queue[1]].pc # "wait"
      BY <1>1, <2>3 DEF QueueInv, Writer
    <3>2. QED
      BY <1>1, <1>2, <1>3, <2>1, <2>3, <3>1 DEF WakeInv
  <2>4. CASE /\ ~bgError /\ (imm # << >> \/ Cardinality(L0(version)) >= L0Stop)
             /\ UNCHANGED <<imm, scheduled, queue>>
    <3>1. imm # << >> \/ NeedsCompaction(version)
      BY <2>4, StopNeedsCompaction
    <3>2. scheduled
      BY <1>2, <2>4, <3>1 DEF WakeInv
    <3>3. QED
      BY <1>1, <1>2, <1>3, <2>1, <2>4, <3>2 DEF WakeInv
  <2>5. CASE /\ ~bgError /\ scheduled' = Schedule(scheduled, FALSE, imm', version)
             /\ imm' = <<mem>> /\ UNCHANGED queue
    <3>1. imm' # << >>
      BY <2>5
    <3>2. scheduled'
      BY <1>2, <2>5, <3>1 DEF Schedule
    <3>3. QED
      BY <1>1, <1>2, <1>3, <2>1, <2>5, <3>2 DEF WakeInv
  <2>6. QED
    BY <1>1, <1>9, <2>2, <2>3, <2>4, <2>5 DEF MakeRoomForWrite, Wr
<1>10. QED
  BY <1>6, <1>7, <1>8, <1>9 DEF Writing

LEMMA WakeStep ==
  QueueInv /\ WakeInv /\ IsFiniteSet(version) /\ [Next]_vars => WakeInv'
<1> SUFFICES ASSUME QueueInv, WakeInv, IsFiniteSet(version), [Next]_vars
             PROVE  WakeInv'
  OBVIOUS
<1>1. CASE Opening
  BY <1>1, WakeOpening
<1>2. CASE Working
  BY <1>2, WakeWorking
<1>3. CASE Ending
  BY <1>3, WakeEnding
<1>4. CASE Writing
  BY <1>4, WakeWriting
<1>5. ASSUME NEW i \in Writes, NEW sync \in BOOLEAN, NEW null \in BOOLEAN,
             Enqueue(i, sync, null)
      PROVE  WakeInv'
  <2>1. /\ control' = control /\ imm' = imm /\ version' = version /\ bg' = bg
        /\ phase = "open" /\ ~shutting
    BY <1>5 DEF Enqueue, data
  <2>2. QueueInv'
    BY <1>5, QueueJoined
  <2>3. CASE queue = << >>
    <3>1. queue' = <<i>> /\ wr'[i].pc = "room"
      BY <1>5, <2>3 DEF Enqueue, QueueInv
    <3>2. wr'[queue'[1]].pc # "wait"
      BY <3>1
    <3>3. QED
      BY <2>1, <3>2 DEF WakeInv, control
  <2>4. CASE queue # << >>
    <3>1. queue'[1] = queue[1] /\ queue[1] \in Writes
      BY <1>5, <2>4 DEF Enqueue, QueueInv
    <3>2. queue[1] # i
      BY <1>5, <2>4 DEF Enqueue, QueueInv, AtFront
    <3>3. wr'[queue'[1]] = wr[queue[1]]
      BY <1>5, <3>1, <3>2 DEF Enqueue, QueueInv
    <3>4. QED
      BY <2>1, <2>4, <3>3 DEF WakeInv, control
  <2>5. QED
    BY <2>3, <2>4
<1>6. CASE Leaving
  <2>1. Gone
    BY <1>6 DEF Leaving, Closed, Crash, PowerLoss, OpenFails
  <2>2. QED
    BY <2>1 DEF Gone, WakeInv, Idle
<1>7. CASE NewIterator \/ DeleteIterator \/ UNCHANGED vars
  BY <1>7 DEF NewIterator, DeleteIterator, vars, control, data, WakeInv
<1>8. CASE Close
  BY <1>8 DEF Close, data, WakeInv
<1>9. QED
  BY <1>1, <1>2, <1>3, <1>4, <1>5, <1>6, <1>7, <1>8
     DEF Next, Background, Ending, Working, Leaving

-----------------------------------------------------------------------------
(* Descriptors.                                                            *)

LEMMA GoodFileFrom ==
  ASSUME NEW n \in Nat, NEW S, NEW f, DOMAIN f = {"recs", "synced"},
         f.recs \in Seq(S), \A r \in S : GoodRecord(n, r)
  PROVE  GoodFile(n, f)
<1>1. f.recs \in Seq(Range(f.recs))
  BY SeqOfRange
<1>2. \A i \in 1 .. Len(f.recs) : GoodRecord(n, f.recs[i])
  OBVIOUS
<1>3. QED
  BY <1>1, <1>2 DEF GoodFile

LEMMA GoodFileHas ==
  ASSUME NEW n, NEW f, GoodFile(n, f)
  PROVE  /\ n \in Nat /\ DOMAIN f = {"recs", "synced"}
         /\ f.recs \in Seq(Range(f.recs)) /\ Len(f.recs) \in Nat
         /\ \A r \in Range(f.recs) : GoodRecord(n, r)
<1>1. /\ n \in Nat /\ DOMAIN f = {"recs", "synced"}
      /\ f.recs \in Seq(Range(f.recs))
      /\ \A i \in 1 .. Len(f.recs) : GoodRecord(n, f.recs[i])
  BY DEF GoodFile
<1>2. Range(f.recs) = {f.recs[i] : i \in 1 .. Len(f.recs)}
  BY <1>1, RangeEquality
<1>3. QED
  BY <1>1, <1>2

(* Appending, syncing, failing to append and losing the end of a file.     *)
LEMMA GoodFileKept ==
  ASSUME NEW n, NEW f, GoodFile(n, f)
  PROVE  /\ GoodFile(n, Synced(f))
         /\ \A r : GoodRecord(n, r) => GoodFile(n, Appended(f, r))
         /\ \A e : GoodEdit(n, e) => GoodFile(n, Appended(f, {e}))
         /\ \A left \in {<< >>, <<Junk>>} :
              GoodFile(n, [f EXCEPT !.recs = @ \o left])
         /\ \A k \in 0 .. Len(f.recs) : \A x :
              GoodFile(n, [recs |-> SubSeq(f.recs, 1, k), synced |-> x])
<1> DEFINE R == f.recs
           S == Range(R)
<1>1. /\ n \in Nat /\ DOMAIN f = {"recs", "synced"}
      /\ R \in Seq(S) /\ Len(R) \in Nat
      /\ \A r \in S : GoodRecord(n, r)
  BY GoodFileHas
<1> HIDE DEF S
<1>2. ASSUME NEW r, GoodRecord(n, r) PROVE GoodFile(n, Appended(f, r))
  <2>1. R \in Seq(S \cup {r})
    BY <1>1, SeqMonotonic
  <2>2. Append(R, r) \in Seq(S \cup {r})
    BY <2>1, AppendProperties
  <2>3. /\ DOMAIN Appended(f, r) = {"recs", "synced"}
        /\ Appended(f, r).recs = Append(R, r)
    BY <1>1 DEF Appended
  <2>4. \A x \in S \cup {r} : GoodRecord(n, x)
    BY <1>1, <1>2
  <2>5. Appended(f, r).recs \in Seq(S \cup {r})
    BY <2>2, <2>3
  <2>6. QED
    BY <1>1, <2>3, <2>4, <2>5, GoodFileFrom
<1>e. ASSUME NEW e, GoodEdit(n, e) PROVE GoodFile(n, Appended(f, {e}))
  <2>1. GoodRecord(n, {e})
    BY <1>e DEF GoodRecord
  <2>2. QED
    BY <1>2, <2>1
<1>3. ASSUME NEW left \in {<< >>, <<Junk>>}
      PROVE  GoodFile(n, [f EXCEPT !.recs = @ \o left])
  <2>1. GoodRecord(n, Junk)
    BY DEF GoodRecord
  <2>2. R \in Seq(S \cup {Junk}) /\ left \in Seq(S \cup {Junk})
    <3>1. R \in Seq(S \cup {Junk})
      BY <1>1, SeqMonotonic
    <3>2. Junk \in S \cup {Junk}
      OBVIOUS
    <3>3. << >> \in Seq(S \cup {Junk}) /\ <<Junk>> \in Seq(S \cup {Junk})
      BY <3>2
    <3>4. QED
      BY <3>1, <3>3
  <2>3. R \o left \in Seq(S \cup {Junk})
    BY <2>2, ConcatProperties
  <2> DEFINE f2 == [f EXCEPT !.recs = @ \o left]
  <2>4. DOMAIN f2 = {"recs", "synced"} /\ f2.recs = R \o left
    BY <1>1
  <2> HIDE DEF f2
  <2>5. \A r \in S \cup {Junk} : GoodRecord(n, r)
    BY <1>1, <2>1
  <2>6. f2.recs \in Seq(S \cup {Junk})
    BY <2>3, <2>4
  <2>7. GoodFile(n, f2)
    BY <1>1, <2>4, <2>5, <2>6, GoodFileFrom
  <2>8. QED
    BY <2>7 DEF f2
<1>4. ASSUME NEW k \in 0 .. Len(R), NEW x
      PROVE  GoodFile(n, [recs |-> SubSeq(R, 1, k), synced |-> x])
  <2>1. \A i \in 1 .. k : R[i] \in S
    BY <1>1
  <2>2. SubSeq(R, 1, k) \in Seq(S)
    BY <1>1, <2>1, SubSeqProperties
  <2> DEFINE f2 == [recs |-> SubSeq(R, 1, k), synced |-> x]
  <2>3. DOMAIN f2 = {"recs", "synced"} /\ f2.recs \in Seq(S)
    BY <2>2
  <2> HIDE DEF f2
  <2>4. GoodFile(n, f2)
    BY <1>1, <2>3, GoodFileFrom
  <2>5. QED
    BY <2>4 DEF f2
<1>5. GoodFile(n, Synced(f))
  <2>1. DOMAIN Synced(f) = {"recs", "synced"} /\ Synced(f).recs = R
    BY <1>1 DEF Synced
  <2>2. QED
    BY <1>1, <2>1, GoodFileFrom
<1>6. QED
  BY <1>2, <1>e, <1>3, <1>4, <1>5

(* What a writer that is ahead of its file leaves before the next record.  *)
LEMMA AstrayFile ==
  ASSUME NEW n, NEW f, GoodFile(n, f), NEW who, NEW file \in Astray(who, f)
  PROVE  /\ GoodFile(n, file)
         /\ file = f \/ (who \in ahead /\ file = Appended(f, Junk))
<1>1. file = f \/ (who \in ahead /\ file = Appended(f, Junk))
  BY DEF Astray
<1>2. GoodFile(n, Appended(f, Junk))
  BY GoodFileKept DEF GoodRecord
<1>3. QED
  BY <1>1, <1>2

LEMMA GoodFirst ==
  ASSUME NEW n \in Nat, NEW e, GoodEdit(n, e)
  PROVE  /\ GoodFile(n, Appended(EmptyFile, {e}))
         /\ GoodFile(n, Durably(Appended(EmptyFile, {e})))
<1>1. GoodFile(n, EmptyFile)
  BY DEF GoodFile, EmptyFile, Range
<1>2. GoodFile(n, Appended(EmptyFile, {e}))
  BY <1>1, GoodFileKept
<1>3. QED
  BY <1>2, GoodFileKept DEF Durably

(* What log::Reader gives of a good descriptor.                            *)
LEMMA GoodReading ==
  ASSUME NEW n, NEW f, GoodFile(n, f), NEW recs, recs = Readable(f.recs)
  PROVE  /\ recs \in Seq(Range(recs)) /\ Len(recs) \in Nat
         /\ \A r \in Range(recs) : GoodEdit(n, EditOf(r))
         /\ recs # << >> => Last(recs) \in Range(recs)
<1> DEFINE R == f.recs
           S == Range(R) \ {Junk}
           junk == {i \in DOMAIN R : R[i] = Junk}
<1>1. /\ R \in Seq(Range(R)) /\ Len(R) \in Nat
      /\ \A r \in Range(R) : GoodRecord(n, r)
  BY GoodFileHas
<1>2. \A i \in 1 .. Len(R) : R[i] \in Range(R)
  BY <1>1
<1>3. recs \in Seq(S)
  <2>1. CASE junk = {}
    <3>1. recs = R
      BY <2>1 DEF Readable
    <3>2. \A i \in 1 .. Len(R) : R[i] \in S
      BY <1>1, <1>2, <2>1
    <3>3. SubSeq(R, 1, Len(R)) \in Seq(S)
      BY <1>1, <3>2, SubSeqProperties
    <3>4. QED
      BY <1>1, <3>1, <3>3, SubSeqFull
  <2>2. CASE junk # {}
    <3>1. junk \in SUBSET Nat
      BY <1>1
    <3>2. Min(junk) \in junk /\ \A y \in junk : Min(junk) <= y
      BY <2>2, <3>1, LeastOf
    <3>3. recs = SubSeq(R, 1, Min(junk) - 1)
      BY <2>2 DEF Readable
    <3> DEFINE m == Min(junk)
    <3>4. m \in 1 .. Len(R)
      BY <1>1, <3>2
    <3>a. \A y \in junk : m <= y
      BY <3>2
    <3> HIDE DEF m
    <3>5. ASSUME NEW i \in 1 .. m - 1
          PROVE  i \in 1 .. Len(R) /\ i \notin junk
      <4>1. i \in 1 .. Len(R) /\ ~(m <= i)
        BY <1>1, <3>4
      <4>2. QED
        BY <4>1, <3>a
    <3>6. \A i \in 1 .. m - 1 : R[i] \in S
      BY <1>1, <1>2, <3>5
    <3> HIDE DEF S, junk
    <3>7. SubSeq(R, 1, m - 1) \in Seq(S)
      BY <1>1, <3>4, <3>6, SubSeqProperties
    <3>8. QED
      BY <3>3, <3>7 DEF m
  <2>3. QED
    BY <2>1, <2>2
<1>4. ASSUME NEW r \in S PROVE GoodEdit(n, EditOf(r))
  <2>1. GoodRecord(n, r) /\ r # Junk
    BY <1>1
  <2>2. PICK e \in r : r = {e} /\ GoodEdit(n, e)
    BY <2>1 DEF GoodRecord
  <2>3. EditOf(r) = e
    BY <2>2 DEF EditOf
  <2>4. QED
    BY <2>2, <2>3
<1> HIDE DEF S
<1>5. recs \in Seq(Range(recs)) /\ Range(recs) \in SUBSET S /\ Len(recs) \in Nat
  BY <1>3, SeqOfRange, RangeOfSeq
<1>6. recs # << >> => Last(recs) \in Range(recs)
  BY <1>5 DEF Last
<1>7. QED
  BY <1>4, <1>5, <1>6

(* Directories of descriptors.                                             *)
LEMMA GoodFiles ==
  ASSUME NEW files, AllGood(files)
  PROVE  /\ \A S : /\ DOMAIN Without(files, S) = DOMAIN files \ S
                   /\ AllGood(Without(files, S))
         /\ \A n, f : /\ DOMAIN Put(files, n, f) = DOMAIN files \cup {n}
                      /\ GoodFile(n, f) => AllGood(Put(files, n, f))
         /\ \A n, f : /\ DOMAIN [files EXCEPT ![n] = f] = DOMAIN files
                      /\ GoodFile(n, f) => AllGood([files EXCEPT ![n] = f])
<1>1. \A S : /\ DOMAIN Without(files, S) = DOMAIN files \ S
             /\ AllGood(Without(files, S))
  BY DEF AllGood, Without, Restrict
<1>2. \A n, f : /\ DOMAIN Put(files, n, f) = DOMAIN files \cup {n}
                /\ GoodFile(n, f) => AllGood(Put(files, n, f))
  BY DEF AllGood, Put
<1>3. \A n, f : /\ DOMAIN [files EXCEPT ![n] = f] = DOMAIN files
                /\ GoodFile(n, f) => AllGood([files EXCEPT ![n] = f])
  BY DEF AllGood
<1>4. QED
  BY <1>1, <1>2, <1>3

(* The tables of a good descriptor are finitely many.                      *)
LEMMA FiniteImages ==
  ASSUME NEW S, IsFiniteSet(S)
  PROVE  /\ IsFiniteSet({<<n, 1>> : n \in S})
         /\ IsFiniteSet({<<t[1], 1>> : t \in S})
         /\ IsFiniteSet({EditOf(r).add : r \in S})
<1> DEFINE f == [n \in S |-> <<n, 1>>]
           g == [t \in S |-> <<t[1], 1>>]
           h == [r \in S |-> EditOf(r).add]
<1>1. f \in Surjection(S, {<<n, 1>> : n \in S})
  BY DEF Surjection
<1>2. g \in Surjection(S, {<<t[1], 1>> : t \in S})
  BY DEF Surjection
<1>3. h \in Surjection(S, {EditOf(r).add : r \in S})
  BY DEF Surjection
<1> HIDE DEF f, g, h
<1>4. QED
  BY <1>1, <1>2, <1>3, FS_Surjection

LEMMA FiniteTables ==
  ASSUME NEW recs, recs \in Seq(Range(recs)),
         \A r \in Range(recs) : IsFiniteSet(EditOf(r).add)
  PROVE  IsFiniteSet(Saved(recs))
<1> DEFINE A == {EditOf(r).add : r \in Range(recs)}
<1>1. Len(recs) \in Nat /\ recs \in [1 .. Len(recs) -> Range(recs)]
  BY LenProperties
<1>2. Range(recs) = {recs[i] : i \in 1 .. Len(recs)}
  BY RangeEquality
<1>3. recs \in Surjection(1 .. Len(recs), Range(recs))
  BY <1>1, <1>2 DEF Surjection
<1>4. IsFiniteSet(1 .. Len(recs))
  BY <1>1, FS_Interval
<1>5. IsFiniteSet(Range(recs))
  BY <1>3, <1>4, FS_Surjection
<1>6. IsFiniteSet(A)
  BY <1>5, FiniteImages
<1>7. \A T \in A : IsFiniteSet(T)
  OBVIOUS
<1>8. Saved(recs) \in SUBSET UNION A
  BY DEF Saved
<1> HIDE DEF A
<1>9. IsFiniteSet(UNION A)
  BY <1>6, <1>7, FS_UNION
<1>10. QED
  BY <1>8, <1>9, FS_Subset

(* A step that leaves the descriptors, and what names them, alone.         *)
LEMMA DescriptorsKept ==
  ASSUME DescriptorInv, manifests' = manifests, current' = current,
         manifestNum' = manifestNum, phase' = phase, version' = version,
         toReplay' = toReplay, DOMAIN logs' \subseteq Nat,
         nextFile' \in Nat, nextFile <= nextFile',
         IsFiniteSet(bg'.comp.out), Locals(bg'),
         bg'.pc \in {"log", "sync"} => GoodEdit(manifestNum, bg'.edit)
  PROVE  DescriptorInv'
<1>1. phase \in {"replay", "describe", "name", "clean", "open"} =>
        manifestNum < nextFile'
  BY DEF DescriptorInv
<1>2. QED
  BY <1>1 DEF DescriptorInv

(* Writing to a log changes no name of a file.                             *)
LEMMA LogNames ==
  ASSUME DOMAIN logs \subseteq Nat, NEW n, NEW f, NEW S
  PROVE  /\ DOMAIN [logs EXCEPT ![n] = f] \subseteq Nat
         /\ n \in Nat => DOMAIN Put(logs, n, f) \subseteq Nat
         /\ DOMAIN Without(logs, S) \subseteq Nat
  BY DEF Put, Without, Restrict

LEMMA DescriptorsWriting ==
  ASSUME DescriptorInv, Writing
  PROVE  DescriptorInv'
<1>1. /\ manifests' = manifests /\ current' = current /\ bg' = bg
      /\ manifestNum' = manifestNum /\ phase' = phase /\ version' = version
      /\ toReplay' = toReplay
  BY DEF Writing, MakeRoomForWrite, AppendRecord, SyncLog, InsertInto, NoLog,
         AppendFails, SyncFails, disk, control, numbers, data
<1>2. DOMAIN logs' \subseteq Nat /\ nextFile' \in Nat /\ nextFile <= nextFile'
  <2>1. DOMAIN logs \subseteq Nat /\ nextFile \in Nat
    BY DEF DescriptorInv
  <2>2. CASE logs' = Put(logs, nextFile, EmptyFile) /\ nextFile' = nextFile + 1
    BY <2>1, <2>2, LogNames
  <2>3. CASE DOMAIN logs' = DOMAIN logs /\ nextFile' = nextFile
    BY <2>1, <2>3
  <2>4. QED
    BY <2>2, <2>3 DEF Writing, MakeRoomForWrite, AppendRecord, SyncLog,
         InsertInto, NoLog, AppendFails, SyncFails, disk, numbers
<1>3. QED
  BY <1>1, <1>2, DescriptorsKept DEF DescriptorInv

LEMMA DescriptorsGone ==
  ASSUME DescriptorInv, Gone, AllGood(manifests'), current' = current,
         current # 0 => current \in DOMAIN manifests',
         DOMAIN logs' \subseteq Nat
  PROVE  DescriptorInv'
<1>1. IsFiniteSet({})
  BY FS_EmptySet
<1>2. /\ phase' = "down" /\ bg' = Idle /\ version' = {} /\ nextFile' = 2
      /\ manifestNum' = 0 /\ toReplay' = {}
  BY DEF Gone
<1>3. Locals(Idle) /\ Idle.pc = "idle" /\ Idle.comp.out = {}
  BY DEF Locals, Idle, None
<1>4. QED
  BY <1>1, <1>2, <1>3 DEF DescriptorInv

LEMMA DescriptorsCut ==
  ASSUME AllGood(manifests), NEW cut \in Cuts(manifests)
  PROVE  /\ AllGood(Cut(manifests, cut))
         /\ DOMAIN Cut(manifests, cut) = DOMAIN manifests
<1>1. ASSUME NEW n \in DOMAIN manifests
      PROVE  GoodFile(n, Cut(manifests, cut)[n])
  <2>1. GoodFile(n, manifests[n])
    BY DEF AllGood
  <2>2. Len(manifests[n].recs) \in Nat
    BY <2>1, GoodFileHas
  <2>3. PICK m \in DOMAIN manifests : cut[n] \in 0 .. Len(manifests[m].recs)
    BY DEF Cuts
  <2>4. Len(manifests[m].recs) \in Nat
    BY GoodFileHas DEF AllGood
  <2>5. cut[n] \in 0 .. Len(manifests[n].recs)
    BY <2>2, <2>3, <2>4 DEF Cuts
  <2>6. QED
    BY <2>1, <2>5, GoodFileKept DEF Cut
<1>2. DOMAIN Cut(manifests, cut) = DOMAIN manifests
  BY DEF Cut
<1>3. QED
  BY <1>1, <1>2 DEF AllGood

LEMMA DescriptorsLeaving ==
  ASSUME DescriptorInv, Leaving
  PROVE  DescriptorInv'
<1>1. /\ AllGood(manifests) /\ DOMAIN logs \subseteq Nat /\ Gone
      /\ current' = current /\ (current # 0 => current \in DOMAIN manifests)
  BY DEF DescriptorInv, Leaving, Closed, Crash, PowerLoss, OpenFails, disk
<1>2. CASE Closed \/ Crash
  <2>1. manifests' = manifests /\ logs' = logs
    BY <1>2 DEF Closed, Crash, disk
  <2>2. QED
    BY <1>1, <2>1, DescriptorsGone
<1>3. CASE PowerLoss
  <2>1. PICK cut \in Cuts(manifests) : manifests' = Cut(manifests, cut)
    BY <1>3 DEF PowerLoss
  <2>2. AllGood(manifests') /\ DOMAIN manifests' = DOMAIN manifests
    BY <1>1, <2>1, DescriptorsCut
  <2>3. DOMAIN logs' = DOMAIN logs
    BY <1>3 DEF PowerLoss, Cut
  <2>4. QED
    BY <1>1, <2>2, <2>3, DescriptorsGone
<1>4. CASE OpenFails
  <2> DEFINE S == CASE phase = "create" -> {1}
                    [] phase = "name" -> {manifestNum}
                    [] OTHER -> {}
  <2>1. manifests' = Without(manifests, S) /\ logs' = logs
    BY <1>4 DEF OpenFails
  <2>2. current # 0 => current \notin S
    BY DEF DescriptorInv
  <2> HIDE DEF S
  <2>3. AllGood(manifests') /\ DOMAIN manifests' = DOMAIN manifests \ S
    BY <1>1, <2>1, GoodFiles
  <2>4. QED
    BY <1>1, <2>1, <2>2, <2>3, DescriptorsGone
<1>5. QED
  BY <1>2, <1>3, <1>4 DEF Leaving

LEMMA DescriptorsOpening ==
  ASSUME DescriptorInv, WakeInv, Opening
  PROVE  DescriptorInv'
<1>1. bg' = bg
  BY DEF Opening, Open, NewDB, Recover, RecoverLogFile, NewLog, Describe
<1>2. /\ nextFile \in Nat /\ manifestNum \in Nat /\ DOMAIN logs \subseteq Nat
      /\ AllGood(manifests) /\ bg.pc = "idle" /\ toReplay \subseteq Nat
  BY DEF DescriptorInv, WakeInv, Opening, Open, NewDB, Recover, RecoverLogFile,
         NewLog, Describe
<1>3. CASE Open
  BY <1>1, <1>2, <1>3 DEF Open, DescriptorInv, disk, numbers, data
<1>4. CASE NewDB /\ phase = "create"
  <2>1. manifests' = Put(manifests, 1, Appended(EmptyFile, {FirstEdit}))
    BY <1>4 DEF NewDB
  <2>2. GoodEdit(1, FirstEdit)
    BY FS_EmptySet DEF GoodEdit, FirstEdit
  <2>3. AllGood(manifests') /\ DOMAIN manifests' = DOMAIN manifests \cup {1}
    <3> PICK f : f = Appended(EmptyFile, {FirstEdit})
      OBVIOUS
    <3>1. GoodFile(1, f)
      BY <2>2, GoodFirst
    <3>2. manifests' = Put(manifests, 1, f)
      BY <2>1
    <3>3. QED
      BY <1>2, <3>1, <3>2, GoodFiles
  <2>4. /\ phase' = "install" /\ current' = current /\ version' = version
        /\ nextFile' = nextFile /\ manifestNum' = manifestNum
        /\ logs' = logs /\ toReplay' = toReplay
    BY <1>4 DEF NewDB, numbers, data
  <2>5. QED
    BY <1>1, <1>2, <1>4, <2>3, <2>4 DEF DescriptorInv
<1>5. CASE NewDB /\ phase = "install"
  BY <1>1, <1>2, <1>5 DEF NewDB, DescriptorInv, numbers, data
<1>6. CASE Recover
  <2> DEFINE good == Readable(manifests[current].recs)
             st == EditOf(Last(good))
  <2>1. /\ manifests' = manifests /\ current' = current /\ logs' = logs
        /\ phase = "recover" /\ current \in DOMAIN manifests
    BY <1>6 DEF Recover, disk, DescriptorInv
  <2>2. CASE phase' = "corrupt" /\ UNCHANGED <<toReplay, numbers, version>>
    BY <1>1, <1>2, <2>1, <2>2 DEF DescriptorInv, numbers
  <2>3. CASE /\ good # << >> /\ version' = Saved(good)
             /\ nextFile' = st.next + 1 /\ manifestNum' = st.next
             /\ toReplay' = {n \in DOMAIN logs : n >= st.log}
             /\ phase' = "replay"
    <3>1. GoodFile(current, manifests[current])
      BY <1>2, <2>1 DEF AllGood
    <3>2. /\ good \in Seq(Range(good))
          /\ \A r \in Range(good) : GoodEdit(current, EditOf(r))
          /\ good # << >> => Last(good) \in Range(good)
      BY <3>1, GoodReading
    <3> HIDE DEF good
    <3>3. GoodEdit(current, st)
      BY <2>3, <3>2
    <3>4. IsFiniteSet(version')
      BY <2>3, <3>2, FiniteTables DEF GoodEdit
    <3> HIDE DEF st
    <3>5. /\ st.next \in Nat /\ current \in Nat /\ current < st.next
          /\ st.next < st.next + 1 /\ st.next + 1 \in Nat
      BY <3>1, <3>3 DEF GoodEdit, GoodFile
    <3>6. toReplay' \subseteq Nat /\ current # 0
      BY <1>2, <2>1, <2>3 DEF DescriptorInv
    <3>7. QED
      BY <1>1, <1>2, <2>1, <2>3, <3>4, <3>5, <3>6 DEF DescriptorInv
  <2>4. QED
    BY <1>6, <2>2, <2>3 DEF Recover
<1>7. CASE RecoverLogFile
  <2> DEFINE n == Min(toReplay)
             used == IF EntriesOf(logs[n].recs) = {} THEN 0 ELSE 1
  <2>1. n \in Nat
    BY <1>2, <1>7, LeastOf DEF RecoverLogFile
  <2>2. nextFile' = MarkFileNumberUsed(nextFile + used, n)
    BY <1>7 DEF RecoverLogFile
  <2>3. used \in {0, 1}
    OBVIOUS
  <2>4. toReplay' \subseteq Nat
    BY <1>2, <1>7 DEF RecoverLogFile
  <2> HIDE DEF n, used
  <2>5. nextFile' \in Nat /\ nextFile <= nextFile'
    BY <1>2, <2>1, <2>2, <2>3 DEF MarkFileNumberUsed
  <2>6. version' = version \/ version' = version \cup {<<nextFile, 0>>}
    BY <1>7 DEF RecoverLogFile
  <2>7. IsFiniteSet(version')
    BY <2>6, FS_AddElement DEF DescriptorInv
  <2>8. /\ manifests' = manifests /\ current' = current /\ logs' = logs
        /\ manifestNum' = manifestNum /\ phase' = phase /\ phase = "replay"
    BY <1>7 DEF RecoverLogFile
  <2>9. manifestNum < nextFile'
    BY <1>2, <2>5, <2>8 DEF DescriptorInv
  <2>10. QED
    BY <1>1, <1>2, <2>4, <2>5, <2>7, <2>8, <2>9 DEF DescriptorInv
<1>8. CASE NewLog
  <2>1. /\ manifests' = manifests /\ current' = current /\ version' = version
        /\ manifestNum' = manifestNum /\ phase = "replay" /\ phase' = "describe"
        /\ toReplay' = toReplay /\ logs' = Put(logs, nextFile, EmptyFile)
        /\ nextFile' = nextFile + 1
    BY <1>8 DEF NewLog, data
  <2>2. DOMAIN logs' \subseteq Nat
    BY <1>2, <2>1, LogNames
  <2>3. manifestNum < nextFile' /\ nextFile' \in Nat
    BY <1>2, <2>1 DEF DescriptorInv
  <2>4. QED
    BY <1>1, <1>2, <2>1, <2>2, <2>3 DEF DescriptorInv
<1>9. CASE Describe
  <2>1. /\ toReplay' = toReplay /\ nextFile' = nextFile /\ version' = version
        /\ manifestNum' = manifestNum
    BY <1>9 DEF Describe, data
  <2>2. CASE phase = "describe"
    <3> DEFINE e == Edit(version, {}, logNum)
    <3>1. /\ manifests' = Put(manifests, manifestNum,
                              Durably(Appended(EmptyFile, {e})))
          /\ phase' = "name" /\ current' = current /\ logs' = logs
      BY <1>9, <2>2 DEF Describe
    <3>2. GoodEdit(manifestNum, e)
      BY <1>2, <2>2 DEF GoodEdit, Edit, DescriptorInv
    <3> HIDE DEF e
    <3>3. /\ AllGood(manifests')
          /\ DOMAIN manifests' = DOMAIN manifests \cup {manifestNum}
      <4> PICK f : f = Durably(Appended(EmptyFile, {e}))
        OBVIOUS
      <4>1. GoodFile(manifestNum, f)
        BY <1>2, <3>2, GoodFirst
      <4>2. manifests' = Put(manifests, manifestNum, f)
        BY <3>1
      <4>3. DOMAIN Put(manifests, manifestNum, f)
              = DOMAIN manifests \cup {manifestNum}
        BY DEF Put
      <4>4. AllGood(Put(manifests, manifestNum, f))
        BY <1>2, <4>1, GoodFiles
      <4>5. QED
        BY <4>2, <4>3, <4>4
    <3>4. QED
      BY <1>1, <1>2, <2>1, <2>2, <3>1, <3>3 DEF DescriptorInv
  <2>3. CASE phase = "name"
    <3>1. /\ manifests' = manifests /\ phase' = "clean"
          /\ current' = manifestNum /\ logs' = logs
      BY <1>9, <2>3 DEF Describe
    <3>2. manifestNum \in DOMAIN manifests /\ manifestNum # 0
      <4>1. /\ manifestNum \in DOMAIN manifests /\ current < manifestNum
            /\ current \in DOMAIN manifests
        BY <2>3 DEF DescriptorInv
      <4>2. current \in Nat
        BY <4>1, <1>2 DEF AllGood, GoodFile
      <4>3. QED
        BY <1>2, <4>1, <4>2
    <3>3. QED
      BY <1>1, <1>2, <2>1, <2>3, <3>1, <3>2 DEF DescriptorInv
  <2>4. CASE phase = "clean"
    <3> DEFINE S == {n \in DOMAIN manifests : n < manifestNum}
               T == {n \in DOMAIN logs : n < minLog}
    <3>1. /\ manifests' = Without(manifests, S) /\ phase' = "open"
          /\ logs' = Without(logs, T) /\ current' = current
      BY <1>9, <2>4 DEF Describe, Collect
    <3>2. current \notin S
      BY <1>2, <2>4 DEF DescriptorInv
    <3> HIDE DEF S, T
    <3>3. AllGood(manifests') /\ DOMAIN manifests' = DOMAIN manifests \ S
      BY <1>2, <3>1, GoodFiles
    <3>4. DOMAIN logs' \subseteq Nat
      BY <1>2, <3>1, LogNames
    <3>5. QED
      BY <1>1, <1>2, <2>1, <2>4, <3>1, <3>2, <3>3, <3>4 DEF DescriptorInv
  <2>5. QED
    BY <1>9, <2>2, <2>3, <2>4 DEF Describe
<1>10. QED
  BY <1>3, <1>4, <1>5, <1>6, <1>7, <1>8, <1>9 DEF Opening, NewDB

LEMMA DescriptorsWorking ==
  ASSUME DescriptorInv, WakeInv, Working
  PROVE  DescriptorInv'
<1>1. /\ nextFile \in Nat /\ manifestNum \in Nat /\ DOMAIN logs \subseteq Nat
      /\ AllGood(manifests) /\ Locals(bg) /\ IsFiniteSet(bg.comp.out)
      /\ IsFiniteSet(version)
  BY DEF DescriptorInv
<1>2. phase = "open"
  BY DEF Working, FlushBegins, CompactionBegins, FinishCompaction,
         OpenCompactionOutputFile, LogEdit, MayWork, WakeInv
<1>3. /\ manifestNum < nextFile /\ current = manifestNum
      /\ manifestNum \in DOMAIN manifests
  BY <1>2 DEF DescriptorInv
<1>4. /\ logs' = logs /\ current' = current /\ manifestNum' = manifestNum
      /\ phase' = phase /\ version' = version /\ toReplay' = toReplay
  BY DEF Working, FlushBegins, CompactionBegins, FinishCompaction,
         OpenCompactionOutputFile, LogEdit, control, numbers, data, disk
<1>5. CASE FlushBegins
  <2>1. /\ bg' = [bg EXCEPT !.pc = "flush", !.kind = "flush", !.num = nextFile]
        /\ nextFile' = nextFile + 1 /\ manifests' = manifests
    BY <1>5 DEF FlushBegins
  <2>2. bg'.pc = "flush" /\ bg'.comp = bg.comp /\ Locals(bg')
    BY <1>1, <2>1 DEF Locals
  <2>3. QED
    BY <1>1, <1>4, <2>1, <2>2, DescriptorsKept
<1>6. CASE OpenCompactionOutputFile
  <2>1. /\ bg' = [bg EXCEPT !.comp.out = {nextFile}] /\ bg.pc = "compact"
        /\ nextFile' = nextFile + 1 /\ manifests' = manifests
    BY <1>6 DEF OpenCompactionOutputFile
  <2>2. bg'.pc = "compact" /\ bg'.comp.out = {nextFile} /\ Locals(bg')
    BY <1>1, <2>1 DEF Locals
  <2>3. IsFiniteSet(bg'.comp.out)
    BY <2>2, FS_Singleton
  <2>4. QED
    BY <1>1, <1>4, <2>1, <2>2, <2>3, DescriptorsKept
<1>7. CASE FinishCompaction
  <2> DEFINE e == Edit({<<n, 1>> : n \in bg.comp.out}, bg.comp.in, minLog)
  <2>1. /\ bg' = [bg EXCEPT !.pc = "log", !.kind = "merge", !.edit = e]
        /\ nextFile' = nextFile /\ manifests' = manifests
    BY <1>7 DEF FinishCompaction, numbers
  <2>2. GoodEdit(manifestNum, e)
    BY <1>1, <1>3, FiniteImages DEF GoodEdit, Edit
  <2> HIDE DEF e
  <2>3. bg'.edit = e /\ bg'.comp = bg.comp /\ Locals(bg')
    BY <1>1, <2>1 DEF Locals
  <2>4. QED
    BY <1>1, <1>4, <2>1, <2>2, <2>3, DescriptorsKept
<1>8. CASE CompactionBegins
  <2>1. nextFile' = nextFile /\ manifests' = manifests
    BY <1>8 DEF CompactionBegins, numbers, disk
  <2>2. PICK S \in SUBSET L0(version), T \in SUBSET L1(version) :
          \/ bg' = [bg EXCEPT !.pc = "compact",
                      !.comp = [in |-> S \cup T, out |-> {}, base |-> version]]
          \/ bg' = [bg EXCEPT !.pc = "log", !.kind = "move",
                      !.edit = Edit({<<t[1], 1>> : t \in S}, S, minLog)]
    BY <1>8 DEF CompactionBegins
  <2>3. CASE bg' = [bg EXCEPT !.pc = "compact",
                      !.comp = [in |-> S \cup T, out |-> {}, base |-> version]]
    <3>1. bg'.pc = "compact" /\ bg'.comp.out = {} /\ Locals(bg')
      BY <1>1, <2>3 DEF Locals
    <3>2. IsFiniteSet(bg'.comp.out)
      BY <3>1, FS_EmptySet
    <3>3. QED
      BY <1>1, <1>4, <2>1, <3>1, <3>2, DescriptorsKept
  <2>4. CASE bg' = [bg EXCEPT !.pc = "log", !.kind = "move",
                      !.edit = Edit({<<t[1], 1>> : t \in S}, S, minLog)]
    <3> DEFINE e == Edit({<<t[1], 1>> : t \in S}, S, minLog)
    <3>1. IsFiniteSet(S)
      BY <1>1, FS_Subset DEF L0
    <3>2. GoodEdit(manifestNum, e)
      BY <1>1, <1>3, <3>1, FiniteImages DEF GoodEdit, Edit
    <3> HIDE DEF e
    <3>3. bg'.edit = e /\ bg'.comp = bg.comp /\ Locals(bg')
      BY <1>1, <2>4 DEF Locals, e
    <3>4. QED
      BY <1>1, <1>4, <2>1, <3>2, <3>3, DescriptorsKept
  <2>5. QED
    BY <2>2, <2>3, <2>4
<1>9. CASE LogEdit
  <2>0. PICK file \in Astray("descriptor", manifests[manifestNum]) :
          manifests' = [manifests EXCEPT ![manifestNum] = Appended(file, {bg.edit})]
    BY <1>9 DEF LogEdit
  <2> DEFINE f == Appended(file, {bg.edit})
  <2>1. /\ bg' = [bg EXCEPT !.pc = "sync"] /\ nextFile' = nextFile
        /\ manifests' = [manifests EXCEPT ![manifestNum] = f]
        /\ bg.pc = "log"
    BY <1>9, <2>0 DEF LogEdit, numbers
  <2>2. GoodEdit(manifestNum, bg.edit)
    BY <2>1 DEF DescriptorInv
  <2>3. GoodFile(manifestNum, f)
    <3>1. GoodFile(manifestNum, file)
      BY <1>1, <1>3, AstrayFile DEF AllGood
    <3>2. QED
      BY <2>2, <3>1, GoodFileKept
  <2> HIDE DEF f
  <2>4. AllGood(manifests') /\ DOMAIN manifests' = DOMAIN manifests
    BY <1>1, <2>1, <2>3, GoodFiles
  <2>5. bg'.edit = bg.edit /\ bg'.comp = bg.comp /\ Locals(bg')
    BY <1>1, <2>1 DEF Locals
  <2>6. QED
    BY <1>1, <1>2, <1>3, <1>4, <2>1, <2>2, <2>4, <2>5 DEF DescriptorInv
<1>10. QED
  BY <1>5, <1>6, <1>7, <1>8, <1>9 DEF Working

LEMMA DescriptorsEnding ==
  ASSUME DescriptorInv, WakeInv, Ending
  PROVE  DescriptorInv'
<1>1. /\ nextFile \in Nat /\ manifestNum \in Nat /\ DOMAIN logs \subseteq Nat
      /\ AllGood(manifests) /\ Locals(bg) /\ IsFiniteSet(bg.comp.out)
      /\ IsFiniteSet(version)
  BY DEF DescriptorInv
<1>2. phase = "open"
  BY DEF Ending, NothingToDo, FlushFails, CompactionFails, Apply, LogFails,
         FlushBuilt, WakeInv
<1>3. /\ manifestNum < nextFile /\ current = manifestNum
      /\ manifestNum \in DOMAIN manifests /\ GoodFile(manifestNum, manifests[manifestNum])
  BY <1>2 DEF DescriptorInv, AllGood
<1>4. /\ current' = current /\ manifestNum' = manifestNum /\ nextFile' = nextFile
      /\ phase' = phase /\ toReplay' = toReplay
  BY DEF Ending, NothingToDo, FlushFails, CompactionFails, Apply, LogFails,
         FlushBuilt, numbers, disk
<1>5. Locals(Idle) /\ Idle.pc = "idle" /\ IsFiniteSet(Idle.comp.out)
  BY FS_EmptySet DEF Locals, Idle, None
<1>6. ASSUME NEW w, NEW err, NEW im, NEW v,
             Ends(w, err, im, v) \/ BackgroundCallEnds(w, err, im, v)
      PROVE  /\ Locals(bg') /\ bg'.pc \notin {"log", "sync"}
             /\ IsFiniteSet(bg'.comp.out)
  <2>1. CASE bg' = Idle
    BY <1>5, <2>1
  <2>2. CASE bg' = [bg EXCEPT !.pc = "compact", !.kind = ""]
    <3>1. bg'.pc = "compact" /\ bg'.comp = bg.comp /\ Locals(bg')
      BY <1>1, <2>2 DEF Locals
    <3>2. QED
      BY <1>1, <3>1
  <2>3. QED
    BY <1>6, <2>1, <2>2 DEF Ends, BackgroundCallEnds
<1>7. CASE NothingToDo \/ CompactionFails
  <2>1. logs' = logs /\ manifests' = manifests /\ version' = version
    BY <1>7 DEF NothingToDo, CompactionFails, disk, data
  <2>2. /\ Locals(bg') /\ bg'.pc \notin {"log", "sync"}
        /\ IsFiniteSet(bg'.comp.out)
    BY <1>6, <1>7 DEF NothingToDo, CompactionFails
  <2>3. QED
    BY <1>1, <1>4, <2>1, <2>2, DescriptorsKept
<1>8. CASE FlushFails \/ \E l \in {0, 1} : FlushBuilt(l)
  <2>1. logs' = logs /\ manifests' = manifests /\ version' = version
    BY <1>8 DEF FlushFails, FlushBuilt
  <2>2. CASE Fail
    <3>1. /\ Locals(bg') /\ bg'.pc \notin {"log", "sync"}
          /\ IsFiniteSet(bg'.comp.out)
      BY <1>6, <2>2 DEF Fail
    <3>2. QED
      BY <1>1, <1>4, <2>1, <3>1, DescriptorsKept
  <2>3. CASE \E l \in {0, 1} :
               bg' = [bg EXCEPT !.pc = "log",
                        !.edit = Edit(IF imm[1] = {} THEN {} ELSE {<<bg.num, l>>},
                                      {}, logNum)]
    <3>1. PICK l \in {0, 1} :
               bg' = [bg EXCEPT !.pc = "log",
                        !.edit = Edit(IF imm[1] = {} THEN {} ELSE {<<bg.num, l>>},
                                      {}, logNum)]
      BY <2>3
    <3> DEFINE A == IF imm[1] = {} THEN {} ELSE {<<bg.num, l>>}
               e == Edit(A, {}, logNum)
    <3>2. IsFiniteSet(A)
      BY FS_EmptySet, FS_Singleton
    <3> HIDE DEF A
    <3>3. GoodEdit(manifestNum, e)
      BY <1>1, <1>3, <3>2 DEF GoodEdit, Edit
    <3> HIDE DEF e
    <3>4. bg'.edit = e /\ bg'.comp = bg.comp /\ Locals(bg')
      BY <1>1, <3>1 DEF Locals, e, A
    <3>5. QED
      BY <1>1, <1>4, <2>1, <3>3, <3>4, DescriptorsKept
  <2>4. QED
    BY <1>8, <2>2, <2>3 DEF FlushFails, FlushBuilt
<1>9. CASE LogFails
  <2>1. PICK left \in {<< >>, <<Junk>>} :
          manifests' = [manifests EXCEPT ![manifestNum].recs = @ \o left]
    BY <1>9 DEF LogFails
  <2> DEFINE f == [manifests[manifestNum] EXCEPT !.recs = @ \o left]
  <2>2. manifests' = [manifests EXCEPT ![manifestNum] = f]
    BY <1>3, <2>1
  <2>3. GoodFile(manifestNum, f)
    BY <1>3, GoodFileKept
  <2> HIDE DEF f
  <2>4. AllGood(manifests') /\ DOMAIN manifests' = DOMAIN manifests
    BY <1>1, <2>2, <2>3, GoodFiles
  <2>5. logs' = logs /\ version' = version /\ Fail
    BY <1>9 DEF LogFails
  <2>6. /\ Locals(bg') /\ bg'.pc \notin {"log", "sync"}
        /\ IsFiniteSet(bg'.comp.out)
    BY <1>6, <2>5 DEF Fail
  <2>7. QED
    BY <1>1, <1>2, <1>3, <1>4, <2>4, <2>5, <2>6 DEF DescriptorInv
<1>10. CASE Apply
  <2> DEFINE f == Synced(manifests[manifestNum])
             synced == [manifests EXCEPT ![manifestNum] = f]
             S == {n \in DOMAIN manifests : n < manifestNum}
  <2>1. bg.pc = "sync" /\ version' = (version \ bg.edit.del) \cup bg.edit.add
    BY <1>10 DEF Apply
  <2>2. IsFiniteSet(version')
    <3>1. IsFiniteSet(bg.edit.add)
      BY <2>1 DEF DescriptorInv, GoodEdit
    <3>2. IsFiniteSet(version \ bg.edit.del)
      BY <1>1, FS_Difference
    <3>3. QED
      BY <2>1, <3>1, <3>2, FS_Union
  <2>3. manifests' = synced \/ manifests' = Without(synced, S)
    BY <1>10 DEF Apply
  <2>4. manifestNum \notin S
    BY <1>1
  <2>5. GoodFile(manifestNum, f)
    BY <1>3, GoodFileKept
  <2> HIDE DEF f, S
  <2>6. AllGood(synced) /\ DOMAIN synced = DOMAIN manifests
    BY <1>1, <2>5, GoodFiles
  <2> HIDE DEF synced
  <2>7. AllGood(manifests') /\ manifestNum \in DOMAIN manifests'
    <3>1. CASE manifests' = synced
      BY <1>3, <2>6, <3>1
    <3>2. CASE manifests' = Without(synced, S)
      <4>1. AllGood(Without(synced, S)) /\ DOMAIN Without(synced, S) = DOMAIN synced \ S
        BY <2>6, GoodFiles
      <4>2. QED
        BY <1>3, <2>4, <2>6, <3>2, <4>1
    <3>3. QED
      BY <2>3, <3>1, <3>2
  <2>8. logs' = logs \/ \E T : logs' = Without(logs, T)
    BY <1>10 DEF Apply
  <2>9. DOMAIN logs' \subseteq Nat
    BY <1>1, <2>8, LogNames
  <2>10. /\ Locals(bg') /\ bg'.pc \notin {"log", "sync"}
         /\ IsFiniteSet(bg'.comp.out)
    BY <1>6, <1>10 DEF Apply
  <2>11. QED
    BY <1>1, <1>2, <1>3, <1>4, <2>2, <2>7, <2>9, <2>10 DEF DescriptorInv
<1>11. QED
  BY <1>7, <1>8, <1>9, <1>10 DEF Ending

LEMMA DescriptorStep ==
  WriteInv /\ [Next]_vars => DescriptorInv'
<1> SUFFICES ASSUME DescriptorInv, WakeInv, [Next]_vars PROVE DescriptorInv'
  BY DEF WriteInv
<1>1. CASE Opening
  BY <1>1, DescriptorsOpening
<1>2. CASE Writing
  BY <1>2, DescriptorsWriting
<1>3. CASE Working
  BY <1>3, DescriptorsWorking
<1>4. CASE Ending
  BY <1>4, DescriptorsEnding
<1>5. CASE Leaving
  BY <1>5, DescriptorsLeaving
<1>6. ASSUME /\ logs' = logs /\ manifests' = manifests /\ current' = current
             /\ phase' = phase /\ toReplay' = toReplay /\ bg' = bg
             /\ nextFile' = nextFile /\ manifestNum' = manifestNum
             /\ version' = version
      PROVE  DescriptorInv'
  BY <1>6 DEF DescriptorInv
<1>7. ASSUME NEW i \in Writes, NEW sync \in BOOLEAN, NEW null \in BOOLEAN,
             Enqueue(i, sync, null)
      PROVE  DescriptorInv'
  BY <1>6, <1>7 DEF Enqueue, disk, control, numbers, data
<1>8. CASE NewIterator \/ DeleteIterator \/ Close \/ UNCHANGED vars
  BY <1>6, <1>8 DEF NewIterator, DeleteIterator, Close, vars, disk, control,
                    numbers, data
<1>9. QED
  BY <1>1, <1>2, <1>3, <1>4, <1>5, <1>7, <1>8
     DEF Next, Background, Ending, Working, Leaving

-----------------------------------------------------------------------------
(* The theorems.                                                           *)

LEMMA InitialWrites == Init => WriteInv
<1> SUFFICES ASSUME Init PROVE WriteInv
  OBVIOUS
<1>1. QueueInv
  BY DEF Init, QueueInv, NewWr, Writer
<1>2. WakeInv
  BY DEF Init, WakeInv, Idle
<1>3. DescriptorInv
  <2>1. Locals(Idle) /\ Idle.pc = "idle" /\ Idle.comp.out = {}
    BY DEF Locals, Idle, None
  <2>2. QED
    BY <2>1, FS_EmptySet DEF Init, DescriptorInv, AllGood
<1>4. QED
  BY <1>1, <1>2, <1>3 DEF WriteInv

LEMMA WriteStep == WriteInv /\ [Next]_vars => WriteInv'
<1>1. WriteInv => IsFiniteSet(version)
  BY DEF WriteInv, DescriptorInv
<1>2. QED
  BY <1>1, QueueStep, WakeStep, DescriptorStep DEF WriteInv

(* The invariant of the writers, the background thread and the descriptors *)
(* holds in every state, whatever fails and wherever the process stops.    *)
THEOREM Invariant == Spec => []WriteInv
  BY InitialWrites, WriteStep, PTL DEF Spec

(* No call of Write is left behind (DBImpl::Write, MakeRoomForWrite and    *)
(* BackgroundCall): the front of the queue never waits for its turn, and   *)
(* it waits for room only while the background thread has a call to end,   *)
(* for every limit, every number of writers and every failure.             *)
THEOREM WritersGoOn == Spec => []WaitersAreWoken
<1>1. WriteInv => WaitersAreWoken
  <2> SUFFICES ASSUME WriteInv, queue # << >>
               PROVE  /\ wr[Leader].pc # "queued"
                      /\ wr[Leader].pc = "wait" => scheduled
    BY DEF WaitersAreWoken
  <2>1. Leader = queue[1] /\ wr[queue[1]].pc \in AtFront
    BY DEF Leader, WriteInv, QueueInv
  <2>2. QED
    BY <2>1 DEF WriteInv, WakeInv, AtFront
<1>2. QED
  BY <1>1, Invariant, PTL

-----------------------------------------------------------------------------
(* Reading a descriptor.                                                   *)

LEMMA ReadableWhole ==
  ASSUME NEW recs, recs \in Seq(Range(recs)), NoJunk(recs)
  PROVE  Readable(recs) = recs
<1>1. DOMAIN recs = 1 .. Len(recs)
  BY LenProperties
<1>2. {i \in DOMAIN recs : recs[i] = Junk} = {}
  BY <1>1 DEF NoJunk
<1>3. QED
  BY <1>2 DEF Readable

(* With junk at m and none before it, what is read ends there.             *)
LEMMA ReadableUpTo ==
  ASSUME NEW recs, recs \in Seq(Range(recs)), NEW m \in 1 .. Len(recs),
         recs[m] = Junk, \A i \in 1 .. m - 1 : recs[i] # Junk
  PROVE  Readable(recs) = SubSeq(recs, 1, m - 1)
<1> DEFINE junk == {i \in DOMAIN recs : recs[i] = Junk}
<1>1. Len(recs) \in Nat /\ DOMAIN recs = 1 .. Len(recs)
  BY LenProperties
<1>2. junk \in SUBSET Nat /\ m \in junk
  BY <1>1
<1>3. Min(junk) \in junk /\ \A y \in junk : Min(junk) <= y
  BY <1>2, LeastOf
<1>4. \A y \in junk : y \in 1 .. Len(recs) /\ y \notin 1 .. m - 1
  BY <1>1
<1> HIDE DEF junk
<1>5. Min(junk) = m
  <2>1. Min(junk) <= m
    BY <1>2, <1>3
  <2>2. Min(junk) \in 1 .. Len(recs) /\ Min(junk) \notin 1 .. m - 1
    BY <1>3, <1>4
  <2>3. QED
    BY <1>1, <2>1, <2>2
<1>6. Readable(recs) = IF junk = {} THEN recs ELSE SubSeq(recs, 1, Min(junk) - 1)
  BY DEF Readable, junk
<1>7. QED
  BY <1>2, <1>5, <1>6

LEMMA FirstJunk ==
  ASSUME NEW recs, recs \in Seq(Range(recs)), ~NoJunk(recs)
  PROVE  \E m \in 1 .. Len(recs) :
            recs[m] = Junk /\ \A i \in 1 .. m - 1 : recs[i] # Junk
<1> DEFINE junk == {i \in 1 .. Len(recs) : recs[i] = Junk}
<1>1. Len(recs) \in Nat
  BY LenProperties
<1>2. junk \in SUBSET Nat /\ junk # {}
  BY <1>1 DEF NoJunk
<1>3. Min(junk) \in junk /\ \A y \in junk : Min(junk) <= y
  BY <1>2, LeastOf
<1> DEFINE m == Min(junk)
<1>4. m \in 1 .. Len(recs) /\ recs[m] = Junk
  BY <1>3
<1>5. \A y \in junk : m <= y
  BY <1>3
<1> HIDE DEF m
<1>6. ASSUME NEW i \in 1 .. m - 1 PROVE recs[i] # Junk
  <2>1. i \in 1 .. Len(recs) /\ ~(m <= i)
    BY <1>1, <1>4
  <2>2. i \notin junk
    BY <1>5, <2>1
  <2>3. QED
    BY <2>1, <2>2
<1>7. QED
  BY <1>4, <1>6

(* A record behind junk, and junk itself, change nothing of what is read.  *)
LEMMA ReadableAppend ==
  ASSUME NEW recs, recs \in Seq(Range(recs)), NEW x, NEW more,
         more = Append(recs, x)
  PROVE  /\ more \in Seq(Range(more)) /\ Len(more) = Len(recs) + 1
         /\ SubSeq(more, 1, Len(more)) = more
         /\ \A k \in 0 .. Len(recs) : SubSeq(more, 1, k) = SubSeq(recs, 1, k)
         /\ ~NoJunk(recs) \/ x = Junk => Readable(more) = Readable(recs)
         /\ NoJunk(recs) /\ x # Junk => NoJunk(more) /\ Readable(more) = more
<1> DEFINE S == Range(recs) \cup {x}
           L == Len(recs)
<1>1. L \in Nat /\ DOMAIN recs = 1 .. L /\ recs \in Seq(S)
  BY LenProperties, SeqMonotonic
<1>2. /\ more \in Seq(S) /\ Len(more) = L + 1 /\ more[L + 1] = x
      /\ \A i \in 1 .. L : more[i] = recs[i]
  BY <1>1, AppendProperties
<1> HIDE DEF S
<1>3. more \in Seq(Range(more)) /\ SubSeq(more, 1, Len(more)) = more
  BY <1>2, SeqOfRange, SubSeqFull
<1>4. ASSUME NEW k \in 0 .. L PROVE SubSeq(more, 1, k) = SubSeq(recs, 1, k)
  <2>1. more = recs \o <<x>>
    BY <1>1, AppendIsConcat DEF S
  <2>2. CASE k = 0
    <3>1. SubSeq(more, 1, 0) = << >> /\ SubSeq(recs, 1, 0) = << >>
      BY SubSeqEmpty
    <3>2. QED
      BY <2>2, <3>1
  <2>3. CASE k # 0
    <3>1. \A i \in 1 .. k : more[i] \in S /\ recs[i] \in S /\ more[i] = recs[i]
      BY <1>1, <1>2
    <3>2. /\ SubSeq(more, 1, k) \in Seq(S) /\ SubSeq(recs, 1, k) \in Seq(S)
          /\ Len(SubSeq(more, 1, k)) = k /\ Len(SubSeq(recs, 1, k)) = k
      BY <1>1, <2>3, <3>1, SubSeqProperties
    <3>3. \A i \in 1 .. k : SubSeq(more, 1, k)[i] = more[i]
                            /\ SubSeq(recs, 1, k)[i] = recs[i]
      BY <1>1, <2>3, <3>1, SubSeqProperties
    <3>4. QED
      BY <3>1, <3>2, <3>3, SeqEqual
  <2>4. QED
    BY <2>2, <2>3
<1>5. CASE ~NoJunk(recs)
  <2>1. PICK m \in 1 .. L : recs[m] = Junk /\ \A i \in 1 .. m - 1 : recs[i] # Junk
    BY <1>5, FirstJunk
  <2>2. Readable(recs) = SubSeq(recs, 1, m - 1)
    BY <2>1, ReadableUpTo
  <2>3. /\ m \in 1 .. Len(more) /\ more[m] = Junk
        /\ \A i \in 1 .. m - 1 : more[i] # Junk
    BY <1>1, <1>2, <2>1
  <2>4. Readable(more) = SubSeq(more, 1, m - 1)
    BY <1>3, <2>3, ReadableUpTo
  <2>5. m - 1 \in 0 .. L
    BY <1>1
  <2>6. QED
    BY <1>2, <1>3, <1>4, <1>5, <2>2, <2>4, <2>5
<1>6. CASE NoJunk(recs) /\ x = Junk
  <2>1. Readable(recs) = recs
    BY <1>6, ReadableWhole
  <2>2. /\ L + 1 \in 1 .. Len(more) /\ more[L + 1] = Junk
        /\ \A i \in 1 .. (L + 1) - 1 : more[i] # Junk
    BY <1>1, <1>2, <1>6 DEF NoJunk
  <2>3. Readable(more) = SubSeq(more, 1, (L + 1) - 1)
    BY <1>3, <2>2, ReadableUpTo
  <2>4. (L + 1) - 1 = L /\ L \in 0 .. L
    BY <1>1
  <2>5. SubSeq(recs, 1, L) = recs
    BY SubSeqFull
  <2>6. QED
    BY <1>2, <1>3, <1>4, <1>6, <2>1, <2>3, <2>4, <2>5
<1>7. CASE NoJunk(recs) /\ x # Junk
  <2>1. NoJunk(more)
    BY <1>1, <1>2, <1>7 DEF NoJunk
  <2>2. QED
    BY <1>2, <1>3, <1>4, <1>7, <2>1, ReadableWhole
<1>8. QED
  BY <1>5, <1>6, <1>7

(* Builder::Apply: an edit that is appended changes the version by its     *)
(* deletions and its additions.                                            *)
LEMMA SavedAppend ==
  ASSUME NEW recs, recs \in Seq(Range(recs)), NEW e, NEW more,
         more = Append(recs, {e})
  PROVE  /\ Saved(more) = (Saved(recs) \ e.del) \cup e.add
         /\ more # << >> /\ Last(more) = {e} /\ NextOf(more) = e.next
<1> DEFINE S == Range(recs) \cup {{e}}
           L == Len(recs)
<1>1. L \in Nat /\ DOMAIN recs = 1 .. L /\ recs \in Seq(S)
  BY LenProperties, SeqMonotonic
<1>2. /\ more \in Seq(S) /\ Len(more) = L + 1 /\ more[L + 1] = {e}
      /\ \A i \in 1 .. L : more[i] = recs[i]
  BY <1>1, AppendProperties
<1>3. DOMAIN more = 1 .. L + 1 /\ more # << >>
  BY <1>1, <1>2
<1>4. EditOf({e}) = e
  BY DEF EditOf
<1>5. Last(more) = {e}
  BY <1>2 DEF Last
<1> HIDE DEF S
<1>6. \A t : t \in Saved(recs) <=>
               \E i \in 1 .. L : /\ t \in EditOf(recs[i]).add
                                 /\ \A j \in i + 1 .. L : t \notin EditOf(recs[j]).del
  <2>1. \A i \in 1 .. L : recs[i] \in Range(recs)
    BY <1>1 DEF Range
  <2>2. QED
    BY <1>1, <2>1 DEF Saved
<1>7. \A t : t \in Saved(more) <=>
               \E i \in 1 .. L + 1 :
                  /\ t \in EditOf(more[i]).add
                  /\ \A j \in i + 1 .. L + 1 : t \notin EditOf(more[j]).del
  <2>1. \A i \in 1 .. L + 1 : more[i] \in Range(more)
    BY <1>3 DEF Range
  <2>2. QED
    BY <1>2, <1>3, <2>1 DEF Saved
<1>8. ASSUME NEW t PROVE t \in Saved(more) <=> t \in (Saved(recs) \ e.del) \cup e.add
  <2>1. ASSUME t \in e.add PROVE t \in Saved(more)
    <3>1. L + 1 \in 1 .. L + 1 /\ (L + 1) + 1 .. L + 1 = {}
      BY <1>1
    <3>2. QED
      BY <1>2, <1>4, <1>7, <2>1, <3>1
  <2>2. ASSUME t \in Saved(recs), t \notin e.del PROVE t \in Saved(more)
    <3>1. PICK i \in 1 .. L : /\ t \in EditOf(recs[i]).add
                              /\ \A j \in i + 1 .. L : t \notin EditOf(recs[j]).del
      BY <1>6, <2>2
    <3>2. ASSUME NEW j \in i + 1 .. L + 1 PROVE t \notin EditOf(more[j]).del
      <4>1. CASE j = L + 1
        BY <1>2, <1>4, <2>2, <4>1
      <4>2. CASE j # L + 1
        <5>1. j \in i + 1 .. L /\ j \in 1 .. L
          BY <1>1, <4>2
        <5>2. QED
          BY <1>2, <3>1, <5>1
      <4>3. QED
        BY <4>1, <4>2
    <3>3. i \in 1 .. L + 1 /\ t \in EditOf(more[i]).add
      BY <1>1, <1>2, <3>1
    <3>4. QED
      BY <1>7, <3>2, <3>3
  <2>3. ASSUME t \in Saved(more), t \notin e.add
        PROVE  t \in Saved(recs) /\ t \notin e.del
    <3>1. PICK i \in 1 .. L + 1 :
             /\ t \in EditOf(more[i]).add
             /\ \A j \in i + 1 .. L + 1 : t \notin EditOf(more[j]).del
      BY <1>7, <2>3
    <3>2. i \in 1 .. L
      BY <1>1, <1>2, <1>4, <2>3, <3>1
    <3>3. L + 1 \in i + 1 .. L + 1
      BY <1>1, <3>2
    <3>4. t \notin e.del
      BY <1>2, <1>4, <3>1, <3>3
    <3>5. \A j \in i + 1 .. L : j \in i + 1 .. L + 1 /\ more[j] = recs[j]
      BY <1>1, <1>2, <3>2
    <3>6. t \in Saved(recs)
      BY <1>2, <1>6, <3>1, <3>2, <3>5
    <3>7. QED
      BY <3>4, <3>6
  <2>4. QED
    BY <2>1, <2>2, <2>3
<1>9. QED
  BY <1>3, <1>4, <1>5, <1>8 DEF NextOf

(* What may be read of a descriptor, and how the changes of the file       *)
(* change it.                                                              *)
SyncedPart(f) == f.synced \in Nat /\ f.synced <= Len(f.recs)

LEMMA ReadingGood ==
  ASSUME NEW n, NEW f, GoodFile(n, f), SyncedPart(f), NEW recs \in Readings(f)
  PROVE  /\ recs \in Seq(Range(recs))
         /\ recs # << >> => GoodEdit(n, EditOf(Last(recs)))
         /\ recs # << >> => NextOf(recs) \in Nat
<1>1. Len(f.recs) \in Nat
  BY GoodFileHas
<1>2. PICK k \in f.synced .. Len(f.recs) : recs = Readable(SubSeq(f.recs, 1, k))
  BY DEF Readings
<1>3. k \in 0 .. Len(f.recs)
  BY <1>1 DEF SyncedPart
<1> DEFINE g == [recs |-> SubSeq(f.recs, 1, k), synced |-> 0]
<1>4. GoodFile(n, g)
  BY <1>3, GoodFileKept
<1>5. recs = Readable(g.recs)
  BY <1>2
<1> HIDE DEF g
<1>6. /\ recs \in Seq(Range(recs))
      /\ \A r \in Range(recs) : GoodEdit(n, EditOf(r))
      /\ recs # << >> => Last(recs) \in Range(recs)
  BY <1>4, <1>5, GoodReading
<1>7. QED
  BY <1>6 DEF GoodEdit, NextOf

LEMMA ReadingWhole ==
  ASSUME NEW n, NEW f, GoodFile(n, f), SyncedPart(f)
  PROVE  Readable(f.recs) \in Readings(f)
<1>1. Len(f.recs) \in Nat /\ SubSeq(f.recs, 1, Len(f.recs)) = f.recs
  BY GoodFileHas, SubSeqFull
<1>2. Len(f.recs) \in f.synced .. Len(f.recs)
  BY <1>1 DEF SyncedPart
<1>3. QED
  BY <1>1, <1>2 DEF Readings

LEMMA ReadingsSynced ==
  ASSUME NEW n, NEW f, GoodFile(n, f), SyncedPart(f)
  PROVE  /\ Synced(f).recs = f.recs /\ SyncedPart(Synced(f))
         /\ Readings(Synced(f)) = {Readable(f.recs)}
<1>1. /\ DOMAIN f = {"recs", "synced"} /\ Len(f.recs) \in Nat
      /\ SubSeq(f.recs, 1, Len(f.recs)) = f.recs
  BY GoodFileHas, SubSeqFull
<1> DEFINE g == Synced(f)
           L == Len(f.recs)
<1>2. g.recs = f.recs /\ g.synced = L
  BY <1>1 DEF Synced
<1>3. L .. L = {L}
  BY <1>1
<1>g. g = Synced(f)
  OBVIOUS
<1> HIDE DEF g
<1>4. SyncedPart(g)
  BY <1>1, <1>2 DEF SyncedPart
<1>5. Readings(g) = {Readable(SubSeq(f.recs, 1, k)) : k \in L .. L}
  BY <1>2 DEF Readings
<1>6. Readings(g) = {Readable(f.recs)}
  BY <1>1, <1>3, <1>5
<1>7. QED
  BY <1>2, <1>4, <1>6, <1>g

LEMMA ReadingsAppended ==
  ASSUME NEW n, NEW f, GoodFile(n, f), SyncedPart(f), NEW x, NEW g,
         g.recs = Append(f.recs, x), g.synced = f.synced
  PROVE  /\ SyncedPart(g)
         /\ Readings(g) \subseteq Readings(f) \cup {Readable(g.recs)}
<1>1. f.recs \in Seq(Range(f.recs)) /\ Len(f.recs) \in Nat
  BY GoodFileHas
<1>2. /\ Len(g.recs) = Len(f.recs) + 1
      /\ SubSeq(g.recs, 1, Len(g.recs)) = g.recs
      /\ \A k \in 0 .. Len(f.recs) : SubSeq(g.recs, 1, k) = SubSeq(f.recs, 1, k)
  BY <1>1, ReadableAppend
<1>3. SyncedPart(g)
  BY <1>1, <1>2 DEF SyncedPart
<1>4. ASSUME NEW k \in g.synced .. Len(g.recs)
      PROVE  Readable(SubSeq(g.recs, 1, k)) \in Readings(f) \cup {Readable(g.recs)}
  <2>1. CASE k = Len(g.recs)
    BY <1>2, <2>1
  <2>2. CASE k # Len(g.recs)
    <3>1. k \in f.synced .. Len(f.recs) /\ k \in 0 .. Len(f.recs)
      BY <1>1, <1>2, <2>2 DEF SyncedPart
    <3>2. QED
      BY <1>2, <3>1 DEF Readings
  <2>3. QED
    BY <2>1, <2>2
<1>5. QED
  BY <1>3, <1>4 DEF Readings

LEMMA ReadingsCut ==
  ASSUME NEW n, NEW f, GoodFile(n, f), SyncedPart(f),
         NEW k \in 0 .. Len(f.recs), f.synced <= k, NEW g,
         g = [recs |-> SubSeq(f.recs, 1, k), synced |-> k]
  PROVE  /\ SyncedPart(g) /\ Readings(g) = {Readable(g.recs)}
         /\ Readable(g.recs) \in Readings(f)
<1>1. f.recs \in Seq(Range(f.recs)) /\ Len(f.recs) \in Nat
  BY GoodFileHas
<1> DEFINE S == Range(f.recs)
<1>2. \A i \in 1 .. k : f.recs[i] \in S
  BY <1>1
<1>3. SubSeq(f.recs, 1, k) \in Seq(S)
  BY <1>1, <1>2, SubSeqProperties
<1>4. Len(SubSeq(f.recs, 1, k)) = k
  <2>1. Len(SubSeq(f.recs, 1, k)) = IF 1 <= k THEN k - 1 + 1 ELSE 0
    BY <1>1, <1>2, SubSeqProperties
  <2>2. CASE 1 <= k
    BY <1>1, <2>1, <2>2
  <2>3. CASE ~(1 <= k)
    BY <1>1, <2>1, <2>3
  <2>4. QED
    BY <2>2, <2>3
<1>5. SubSeq(g.recs, 1, k) = g.recs
  BY <1>3, <1>4, SubSeqFull
<1>6. SyncedPart(g) /\ k .. k = {k}
  BY <1>1, <1>4 DEF SyncedPart
<1>7. Readings(g) = {Readable(g.recs)}
  BY <1>4, <1>5, <1>6 DEF Readings
<1>8. k \in f.synced .. Len(f.recs)
  BY <1>1 DEF SyncedPart
<1>9. QED
  BY <1>6, <1>7, <1>8 DEF Readings

-----------------------------------------------------------------------------
(* The tables of versions.                                                 *)

(* A table that is needed and whole stays so.                              *)
Kept(ts, ts2, n) ==
  n \in DOMAIN ts /\ ts[n] # Partial => n \in DOMAIN ts2 /\ ts2[n] # Partial

(* The junk such a writer leaves hides nothing that could be read before.  *)
LEMMA AstrayReadings ==
  ASSUME NEW n, NEW f, GoodFile(n, f), SyncedPart(f), NEW who,
         NEW file \in Astray(who, f)
  PROVE  /\ SyncedPart(file) /\ Readings(file) \subseteq Readings(f)
         /\ Readable(file.recs) = Readable(f.recs)
<1>1. file = f \/ file = Appended(f, Junk)
  BY AstrayFile
<1>2. CASE file = f
  BY <1>2
<1>3. CASE file = Appended(f, Junk)
  <2>1. /\ DOMAIN f = {"recs", "synced"} /\ f.recs \in Seq(Range(f.recs))
    BY GoodFileHas
  <2>2. PICK x, M : x = Junk /\ M = file.recs
    OBVIOUS
  <2>3. M = Append(f.recs, x) /\ file.synced = f.synced
    BY <1>3, <2>1, <2>2 DEF Appended
  <2>4. x = Junk => Readable(M) = Readable(f.recs)
    BY <2>1, <2>3, ReadableAppend
  <2>5. /\ SyncedPart(file)
        /\ Readings(file) \subseteq Readings(f) \cup {Readable(file.recs)}
    BY <2>2, <2>3, ReadingsAppended
  <2>6. Readable(f.recs) \in Readings(f)
    BY ReadingWhole
  <2>7. QED
    BY <2>2, <2>4, <2>5, <2>6
<1>4. QED
  BY <1>1, <1>2, <1>3

LEMMA SoundKept ==
  ASSUME NEW ts, NEW ts2, NEW next \in Nat, NEW v, Sound(ts, next, v),
         \A n \in Nums(v) : Kept(ts, ts2, n)
  PROVE  Sound(ts2, next, v)
  BY DEF Sound, Kept

LEMMA SoundHigher ==
  ASSUME NEW ts, NEW next \in Nat, NEW next2 \in Nat, next <= next2, NEW v,
         Sound(ts, next, v)
  PROVE  Sound(ts, next2, v)
  BY DEF Sound

LEMMA SoundApplied ==
  ASSUME NEW ts, NEW next, NEW v, NEW w, NEW del,
         Sound(ts, next, v), Sound(ts, next, w)
  PROVE  Sound(ts, next, (v \ del) \cup w)
  BY DEF Sound, Nums

LEMMA OnDiskKept ==
  ASSUME NEW ts, NEW ts2, NEW m, NEW f, GoodFile(m, f), OnDisk(ts, f),
         \A recs \in Readings(f) : \A n : n \in Nums(Saved(recs)) => Kept(ts, ts2, n)
  PROVE  OnDisk(ts2, f)
<1>1. ASSUME NEW recs \in Readings(f) \ {<< >>}
      PROVE  Sound(ts2, NextOf(recs), Saved(recs))
  <2>1. NextOf(recs) \in Nat
    BY ReadingGood DEF OnDisk, SyncedPart
  <2>2. Sound(ts, NextOf(recs), Saved(recs))
    BY DEF OnDisk
  <2>3. QED
    BY <2>1, <2>2, SoundKept
<1>2. QED
  BY <1>1 DEF OnDisk

(* Syncing and failing appends: nothing new can be read.                   *)
LEMMA OnDiskLess ==
  ASSUME NEW ts, NEW f, NEW g, OnDisk(ts, f), SyncedPart(g),
         Readings(g) \subseteq Readings(f), Readable(g.recs) = Readable(f.recs)
  PROVE  OnDisk(ts, g)
  BY DEF OnDisk, SyncedPart

LEMMA OnDiskOne ==
  ASSUME NEW ts, NEW m, NEW f, NEW g, GoodFile(m, f), OnDisk(ts, f),
         SyncedPart(g), Readings(g) = {Readable(g.recs)},
         Readable(g.recs) \in Readings(f)
  PROVE  OnDisk(ts, g)
<1> DEFINE P == Readable(g.recs)
<1>1. P # << >> => NextOf(P) \in Nat
  BY ReadingGood DEF OnDisk, SyncedPart
<1>2. P # << >> => NextOf(P) <= NextOf(P) /\ Sound(ts, NextOf(P), Saved(P))
  BY <1>1 DEF OnDisk
<1>3. QED
  BY <1>2 DEF OnDisk, SyncedPart

(* An edit whose tables are there, and whose next number is high enough.   *)
LEMMA OnDiskAppended ==
  ASSUME NEW ts, NEW m, NEW f, GoodFile(m, f), OnDisk(ts, f), NEW e,
         GoodEdit(m, e), Below(e.next, f), Sound(ts, e.next, e.add)
  PROVE  /\ OnDisk(ts, Appended(f, {e})) /\ Below(e.next, Appended(f, {e}))
         /\ \A recs \in Readings(Appended(f, {e})) :
              \/ recs \in Readings(f)
              \/ /\ NoJunk(f.recs) /\ recs = Append(f.recs, {e})
                 /\ Saved(recs) = (Saved(f.recs) \ e.del) \cup e.add
         /\ NoJunk(f.recs) =>
              /\ NoJunk(Appended(f, {e}).recs)
              /\ Saved(Appended(f, {e}).recs) = (Saved(f.recs) \ e.del) \cup e.add
<1> DEFINE g == Appended(f, {e})
           R == f.recs
           M == Append(R, {e})
<1>a. DOMAIN f = {"recs", "synced"} /\ R \in Seq(Range(R))
  BY GoodFileHas
<1>b. SyncedPart(f)
  BY DEF OnDisk, SyncedPart
<1>c. e.next \in Nat
  BY DEF GoodEdit
<1>d. {e} # Junk
  BY DEF Junk
<1>1. /\ DOMAIN f = {"recs", "synced"} /\ R \in Seq(Range(R)) /\ SyncedPart(f)
      /\ e.next \in Nat /\ {e} # Junk
  BY <1>a, <1>b, <1>c, <1>d
<1>2. g.recs = M /\ g.synced = f.synced
  BY <1>1 DEF Appended
<1>3. /\ SyncedPart(g)
      /\ Readings(g) \subseteq Readings(f) \cup {Readable(M)}
  BY <1>1, <1>2, ReadingsAppended
<1>4. /\ ~NoJunk(R) => Readable(M) = Readable(R)
      /\ NoJunk(R) => NoJunk(M) /\ Readable(M) = M
  <2> DEFINE x == {e}
  <2>1. M = Append(R, x) /\ x # Junk /\ R \in Seq(Range(R))
    BY <1>a, <1>d
  <2> HIDE DEF M, x, R
  <2>2. ASSUME ~NoJunk(R) PROVE Readable(M) = Readable(R)
    BY <2>1, <2>2, ReadableAppend
  <2>3. ASSUME NoJunk(R) PROVE NoJunk(M)
    BY <2>1, <2>3, ReadableAppend
  <2>4. ASSUME NoJunk(R) PROVE Readable(M) = M
    <3>1. M \in Seq(Range(M))
      BY <2>1, ReadableAppend
    <3>2. QED
      BY <2>3, <2>4, <3>1, ReadableWhole
  <2>5. QED
    BY <2>2, <2>3, <2>4
<1>5. Saved(M) = (Saved(R) \ e.del) \cup e.add /\ M # << >> /\ NextOf(M) = e.next
  BY <1>1, SavedAppend
<1>6. Readable(R) \in Readings(f)
  BY <1>1, ReadingWhole
<1>7. \A recs \in Readings(f) \ {<< >>} : NextOf(recs) \in Nat
  BY <1>1, ReadingGood
<1>g. g = Appended(f, {e})
  OBVIOUS
<1> HIDE DEF g, M
<1>8. CASE ~NoJunk(R)
  <2>1. Readings(g) \subseteq Readings(f) /\ Readable(g.recs) = Readable(R)
    BY <1>2, <1>3, <1>4, <1>6, <1>8
  <2>2. OnDisk(ts, g)
    BY <1>3, <2>1, OnDiskLess
  <2>3. Below(e.next, g)
    BY <2>1 DEF Below
  <2>4. QED
    BY <1>8, <2>1, <2>2, <2>3, <1>g
<1>9. CASE NoJunk(R)
  <2>1. Readable(R) = R /\ Readable(M) = M /\ NoJunk(M)
    BY <1>1, <1>4, <1>9, ReadableWhole
  <2>2. Sound(ts, e.next, Saved(R))
    <3>1. CASE R = << >>
      <4>1. Saved(R) = {}
        BY <3>1 DEF Saved
      <4>2. QED
        BY <4>1 DEF Sound, Nums
    <3>2. CASE R # << >>
      <4>1. R \in Readings(f) \ {<< >>}
        BY <1>6, <2>1, <3>2
      <4>2. NextOf(R) <= e.next /\ Sound(ts, NextOf(R), Saved(R))
        BY <4>1 DEF Below, OnDisk
      <4>3. NextOf(R) \in Nat
        BY <1>7, <4>1
      <4>4. QED
        BY <1>1, <4>2, <4>3, SoundHigher
    <3>3. QED
      BY <3>1, <3>2
  <2>3. Sound(ts, e.next, Saved(M))
    <3>1. Sound(ts, e.next, (Saved(R) \ e.del) \cup e.add)
      BY <2>2, SoundApplied
    <3>2. QED
      BY <1>5, <3>1
  <2>4. ASSUME NEW recs \in Readings(g) \ {<< >>}
        PROVE  NextOf(recs) <= e.next /\ Sound(ts, NextOf(recs), Saved(recs))
    <3>1. CASE recs \in Readings(f)
      BY <3>1 DEF Below, OnDisk
    <3>2. CASE recs = M
      <4>1. NextOf(recs) = e.next /\ Saved(recs) = Saved(M) /\ e.next <= e.next
        BY <1>c, <1>5, <3>2
      <4>2. QED
        BY <2>3, <4>1
    <3>3. QED
      BY <1>3, <2>1, <3>1, <3>2
  <2>5. OnDisk(ts, g) /\ Below(e.next, g)
    BY <1>2, <1>3, <1>5, <2>1, <2>4 DEF OnDisk, Below, SyncedPart
  <2>6. QED
    BY <1>2, <1>3, <1>5, <1>9, <1>g, <2>1, <2>5 DEF M
<1>10. QED
  BY <1>8, <1>9

(* A descriptor with one record.                                           *)
LEMMA OneRecord ==
  ASSUME NEW ts, NEW m \in Nat, NEW e, GoodEdit(m, e), e.del = {},
         Sound(ts, e.next, e.add), NEW f, f = Appended(EmptyFile, {e})
  PROVE  /\ GoodFile(m, f) /\ OnDisk(ts, f) /\ Below(e.next, f)
         /\ NoJunk(f.recs) /\ Saved(f.recs) = e.add
         /\ f.recs # << >> /\ Readable(f.recs) = f.recs
<1>1. EmptyFile.recs = << >> /\ EmptyFile.synced = 0
      /\ DOMAIN EmptyFile = {"recs", "synced"}
  BY DEF EmptyFile
<1>2. Readings(EmptyFile) = {<< >>}
  <2>1. Len(<< >>) = 0 /\ 0 .. 0 = {0}
    OBVIOUS
  <2>2. SubSeq(<< >>, 1, 0) = << >> /\ Readable(<< >>) = << >>
    BY SubSeqEmpty DEF Readable
  <2>3. Readings(EmptyFile) = {Readable(SubSeq(<< >>, 1, k)) : k \in 0 .. 0}
    BY <1>1, <2>1 DEF Readings
  <2>4. Readings(EmptyFile) = {Readable(SubSeq(<< >>, 1, 0))}
    BY <2>1, <2>3
  <2>5. QED
    BY <2>2, <2>4
<1>3. OnDisk(ts, EmptyFile) /\ Below(e.next, EmptyFile)
  BY <1>1, <1>2 DEF OnDisk, Below
<1>4. GoodFile(m, EmptyFile)
  <2>1. << >> \in Seq({}) /\ Range(<< >>) = {}
    BY DEF Range
  <2>2. QED
    BY <1>1, <2>1 DEF GoodFile
<1>5. NoJunk(EmptyFile.recs) /\ Saved(EmptyFile.recs) = {}
  BY <1>1 DEF NoJunk, Saved
<1>6. /\ OnDisk(ts, f) /\ Below(e.next, f) /\ NoJunk(f.recs)
      /\ Saved(f.recs) = (Saved(EmptyFile.recs) \ e.del) \cup e.add
  <2> DEFINE g == Appended(EmptyFile, {e})
  <2>1. OnDisk(ts, g) /\ Below(e.next, g)
    BY <1>3, <1>4, OnDiskAppended
  <2>2. NoJunk(EmptyFile.recs) =>
          NoJunk(g.recs) /\ Saved(g.recs) = (Saved(EmptyFile.recs) \ e.del) \cup e.add
    BY <1>3, <1>4, OnDiskAppended
  <2>3. f = g
    OBVIOUS
  <2> HIDE DEF g
  <2>4. QED
    BY <1>5, <2>1, <2>2, <2>3
<1>7. Saved(f.recs) = e.add
  BY <1>5, <1>6
<1>8. GoodFile(m, f)
  BY GoodFirst
<1>9. f.recs = <<{e}>> /\ f.recs # << >>
  BY <1>1 DEF Appended
<1>10. Readable(f.recs) = f.recs
  BY <1>6, <1>8, GoodFileHas, ReadableWhole
<1>11. QED
  BY <1>6, <1>7, <1>8, <1>9, <1>10

-----------------------------------------------------------------------------
(* Steps while the database is open.                                       *)

LEMMA NothingSaved == Saved(<< >>) = {} /\ Nums({}) = {}
  BY DEF Saved, Nums

LEMMA WhileOpen ==
  ASSUME TableInv, phase = "open"
  PROVE  /\ nextFile \in Nat /\ current = manifestNum /\ current # 0
         /\ current \in DOMAIN manifests /\ AllGood(manifests)
         /\ GoodFile(current, manifests[current])
         /\ OnDisk(tables, manifests[current])
         /\ SyncedPart(manifests[current])
         /\ Sound(tables, nextFile, version)
         /\ Below(nextFile, manifests[current]) /\ Locals(bg)
<1>1. /\ nextFile \in Nat /\ current = manifestNum /\ current # 0
      /\ current \in DOMAIN manifests /\ AllGood(manifests) /\ Locals(bg)
  BY DEF TableInv, WriteInv, DescriptorInv
<1>2. GoodFile(current, manifests[current])
  BY <1>1 DEF AllGood
<1>3. OnDisk(tables, manifests[current])
  BY <1>1 DEF TableInv, VersionInv
<1>4. SyncedPart(manifests[current])
  BY <1>3 DEF OnDisk, SyncedPart
<1>5. Sound(tables, nextFile, version) /\ Below(nextFile, manifests[current])
  BY DEF TableInv, VersionInv
<1>6. QED
  BY <1>1, <1>2, <1>3, <1>4, <1>5

(* A table that some version names has a number below the next.            *)
LEMMA UsedIsBelow ==
  ASSUME TableInv, phase = "open", NEW n, ~Unused(n)
  PROVE  n \in Nat /\ n < nextFile
<1>0. /\ nextFile \in Nat /\ GoodFile(current, manifests[current])
      /\ SyncedPart(manifests[current])
  BY WhileOpen
<1>1. CASE n \in Nums(version)
  BY <1>1, WhileOpen DEF Sound
<1>2. CASE n \in Nums(bg.comp.base)
  BY <1>2 DEF Sound, TableInv, BuildInv
<1>3. CASE \E h \in held : n \in Nums(h)
  BY <1>3 DEF Sound, TableInv, VersionInv
<1>4. CASE \E recs \in Readings(manifests[current]) : n \in Nums(Saved(recs))
  <2>1. PICK recs \in Readings(manifests[current]) : n \in Nums(Saved(recs))
    BY <1>4
  <2>2. recs # << >>
    BY <2>1, NothingSaved
  <2>3. NextOf(recs) \in Nat
    BY <1>0, <2>1, <2>2, ReadingGood
  <2>4. NextOf(recs) <= nextFile /\ Sound(tables, NextOf(recs), Saved(recs))
    BY <2>1, <2>2, WhileOpen DEF OnDisk, Below
  <2>5. n \in Nat /\ n < NextOf(recs)
    BY <2>1, <2>4 DEF Sound
  <2>6. QED
    BY <1>0, <2>3, <2>4, <2>5
<1>5. QED
  BY <1>1, <1>2, <1>3, <1>4 DEF Unused

(* The versions stay, and the tables they name.                            *)
VersionsStay ==
  /\ phase' = "open" /\ current' = current /\ version' = version
  /\ manifests'[current] = manifests[current] /\ manifestNum' = manifestNum
  /\ \A h \in held' : h \in held \/ h = version
  /\ nextFile' \in Nat /\ nextFile <= nextFile'
  /\ \A n : ~Unused(n) => Kept(tables, tables', n)

LEMMA VersionKept ==
  ASSUME TableInv, phase = "open", VersionsStay,
         ~bgError' => /\ ~bgError
                      /\ \/ bg' = bg
                         \/ bg.pc # "sync" /\ bg'.pc # "sync"
  PROVE  VersionInv'
<1> DEFINE f == manifests[current]
<1>1. /\ nextFile \in Nat /\ current # 0 /\ GoodFile(current, f)
      /\ OnDisk(tables, f) /\ Below(nextFile, f) /\ SyncedPart(f)
      /\ Sound(tables, nextFile, version)
  BY WhileOpen
<1>2. nextFile' \in Nat /\ nextFile <= nextFile'
  BY DEF VersionsStay
<1>3. OnDisk(tables', f)
  <2>1. \A recs \in Readings(f) : \A n : n \in Nums(Saved(recs)) => Kept(tables, tables', n)
    BY DEF Unused, VersionsStay
  <2>2. QED
    BY <1>1, <2>1, OnDiskKept
<1>4. ASSUME NEW v, Sound(tables, nextFile, v),
             \A n \in Nums(v) : Kept(tables, tables', n)
      PROVE  Sound(tables', nextFile', v)
  BY <1>1, <1>2, <1>4, SoundKept, SoundHigher
<1>5. Sound(tables', nextFile', version)
  <2>1. \A n \in Nums(version) : Kept(tables, tables', n)
    BY DEF Unused, VersionsStay
  <2>2. QED
    BY <1>1, <1>4, <2>1
<1>6. ASSUME NEW h \in held' PROVE Sound(tables', nextFile', h)
  <2>1. CASE h = version
    BY <1>5, <2>1
  <2>2. CASE h \in held
    <3>1. \A n \in Nums(h) : Kept(tables, tables', n)
      BY <2>2 DEF Unused, VersionsStay
    <3>2. Sound(tables, nextFile, h)
      BY <2>2 DEF TableInv, VersionInv
    <3>3. QED
      BY <1>4, <3>1, <3>2
  <2>3. QED
    BY <2>1, <2>2 DEF VersionsStay
<1>7. Below(nextFile', f)
  <2>1. \A recs \in Readings(f) \ {<< >>} : NextOf(recs) \in Nat
    BY <1>1, ReadingGood
  <2>2. QED
    BY <1>1, <1>2, <2>1 DEF Below
<1>8. ASSUME ~bgError'
      PROVE  /\ NoJunk(f.recs)
             /\ Saved(f.recs) = IF bg'.pc = "sync"
                                THEN (version \ bg'.edit.del) \cup bg'.edit.add
                                ELSE version
  <2>1. /\ NoJunk(f.recs)
        /\ Saved(f.recs) = IF bg.pc = "sync"
                           THEN (version \ bg.edit.del) \cup bg.edit.add
                           ELSE version
    BY <1>8 DEF TableInv, VersionInv
  <2>2. CASE bg' = bg
    BY <2>1, <2>2
  <2>3. CASE bg.pc # "sync" /\ bg'.pc # "sync"
    BY <2>1, <2>3
  <2>4. QED
    BY <1>8, <2>2, <2>3
<1>9. /\ phase' = "open" /\ current' = current /\ version' = version
      /\ manifests'[current] = f
  BY DEF VersionsStay
<1> HIDE DEF f
<1>10. QED
  BY <1>3, <1>5, <1>6, <1>7, <1>8, <1>9 DEF VersionInv

LEMMA BuildKept ==
  ASSUME TableInv, phase = "open", VersionsStay, bg' = bg, tables' = tables,
         pending' = pending, imm # << >> => imm' = imm
  PROVE  BuildInv'
<1>1. /\ nextFile \in Nat /\ nextFile' \in Nat /\ nextFile <= nextFile'
  BY WhileOpen DEF VersionsStay
<1>2. Sound(tables, nextFile', bg.comp.base)
  BY <1>1, SoundHigher DEF TableInv, BuildInv
<1>3. \A n \in bg.comp.out : /\ n \in Nat /\ n < nextFile'
                             /\ n \in pending /\ n \in DOMAIN tables
  BY <1>1 DEF TableInv, BuildInv
<1>4. ASSUME bg.pc = "flush"
      PROVE  /\ imm' # << >> /\ (imm'[1] # {} => bg.num \in DOMAIN tables)
             /\ bg.num \in Nat /\ bg.num < nextFile'
             /\ bg.num \notin bg.comp.out /\ bg.kind = "flush"
  BY <1>1, <1>4 DEF TableInv, BuildInv
<1>5. ASSUME NEW n, Unused(n) PROVE Unused(n)'
  BY <1>5 DEF Unused, VersionsStay
<1>6. ASSUME bg.pc \in {"log", "sync"}
      PROVE  /\ bg.kind \in {"flush", "move", "merge"}
             /\ Sound(tables, bg.edit.next, bg.edit.add)
             /\ bg.edit.next <= nextFile'
  <2>1. bg.edit.next \in Nat
    BY <1>6 DEF TableInv, WriteInv, DescriptorInv, GoodEdit
  <2>2. QED
    BY <1>1, <1>6, <2>1 DEF TableInv, BuildInv
<1>7. bg.pc = "log" => Below(bg.edit.next, manifests'[current'])
  BY DEF TableInv, BuildInv, VersionsStay
<1>8. bg.pc = "flush" => Unused(bg.num)'
  <2>1. bg.pc = "flush" => Unused(bg.num)
    BY DEF TableInv, BuildInv
  <2>2. QED
    BY <1>5, <2>1
<1>9. /\ bg.pc = "idle" => bg.comp = None
      /\ bg.pc = "compact" \/ bg.comp # None => bg.comp.in # {}
      /\ bg.comp.in \subseteq bg.comp.base
  BY DEF TableInv, BuildInv
<1>10. QED
  BY <1>2, <1>3, <1>4, <1>6, <1>7, <1>8, <1>9 DEF BuildInv

LEMMA BuildIdle ==
  ASSUME bg'.pc = "idle", bg'.comp = None
  PROVE  BuildInv'
<1>1. /\ bg'.comp.in = {} /\ bg'.comp.out = {} /\ bg'.comp.base = {}
  BY DEF None
<1>2. Sound(tables', nextFile', {})
  BY NothingSaved DEF Sound
<1>3. QED
  BY <1>1, <1>2 DEF BuildInv

LEMMA ReopenKept ==
  ASSUME ReopenInv, current' = current, manifests'[current] = manifests[current],
         spoilt' = spoilt, phase' # "corrupt"
  PROVE  ReopenInv'
  BY DEF ReopenInv, OpensAgain

Simple == \/ Writing \/ NewIterator \/ DeleteIterator \/ Close
          \/ \E i \in Writes, sync, null \in BOOLEAN : Enqueue(i, sync, null)

LEMMA TablesSimple ==
  ASSUME TableInv, Simple, phase = "open"
  PROVE  VersionInv' /\ BuildInv' /\ ReopenInv'
<1>1. nextFile \in Nat
  BY WhileOpen
<1>2. CASE Writing
  <2>1. /\ phase' = phase /\ current' = current /\ version' = version
        /\ manifests' = manifests /\ manifestNum' = manifestNum /\ held' = held
        /\ tables' = tables /\ pending' = pending /\ bg' = bg
        /\ spoilt' = spoilt
    BY <1>2 DEF Writing, MakeRoomForWrite, AppendRecord, SyncLog, InsertInto,
       NoLog, AppendFails, SyncFails, disk, control, numbers, data, history
  <2>2. nextFile' \in {nextFile, nextFile + 1} /\ (imm # << >> => imm' = imm)
    BY <1>2 DEF Writing, MakeRoomForWrite, AppendRecord, SyncLog, InsertInto,
       NoLog, AppendFails, SyncFails, disk, control, numbers, data, history
  <2>3. bgError => bgError'
    BY <1>2 DEF Writing, MakeRoomForWrite, AppendRecord, SyncLog, InsertInto,
       NoLog, AppendFails, SyncFails, disk, control, numbers, data, history
  <2>4. nextFile' \in Nat /\ nextFile <= nextFile'
    BY <1>1, <2>2
  <2>5. VersionsStay
    BY <2>1, <2>4 DEF VersionsStay, Kept
  <2>6. QED
    BY <2>1, <2>2, <2>3, <2>5, VersionKept, BuildKept, ReopenKept DEF TableInv
<1>3. CASE ~Writing
  <2>1. /\ phase' = phase /\ current' = current /\ version' = version
        /\ manifests' = manifests /\ manifestNum' = manifestNum
        /\ tables' = tables /\ pending' = pending /\ bg' = bg /\ imm' = imm
        /\ spoilt' = spoilt /\ nextFile' = nextFile /\ bgError' = bgError
    BY <1>3 DEF Simple, NewIterator, DeleteIterator, Close, Enqueue, disk,
       control, numbers, data, history
  <2>2. \A h \in held' : h \in held \/ h = version
    BY <1>3 DEF Simple, NewIterator, DeleteIterator, Close, Enqueue, data
  <2>3. nextFile <= nextFile'
    BY <1>1, <2>1
  <2>4. VersionsStay
    BY <1>1, <2>1, <2>2, <2>3 DEF VersionsStay, Kept
  <2>5. QED
    BY <2>1, <2>4, VersionKept, BuildKept, ReopenKept DEF TableInv
<1>4. QED
  BY <1>2, <1>3

(* A file made under a number nobody used yet, or nobody uses any more.    *)
LEMMA PutKeeps ==
  ASSUME TableInv, phase = "open", NEW n, Unused(n),
         NEW ts, NEW x,
         ts = Put(tables, n, x) \/ ts = Without(tables, {n}) \/ ts = tables
  PROVE  \A k : ~Unused(k) => Kept(tables, ts, k)
<1> SUFFICES ASSUME NEW k, ~Unused(k) PROVE Kept(tables, ts, k)
  OBVIOUS
<1>1. k # n
  OBVIOUS
<1>2. CASE ts = Put(tables, n, x)
  BY <1>1, <1>2 DEF Kept, Put
<1>3. CASE ts = Without(tables, {n})
  BY <1>1, <1>3 DEF Kept, Without, Restrict
<1>4. CASE ts = tables
  BY <1>4 DEF Kept
<1>5. QED
  BY <1>2, <1>3, <1>4

LEMMA NextIsUnused ==
  ASSUME TableInv, phase = "open"
  PROVE  Unused(nextFile) /\ \A n \in bg.comp.out : n # nextFile
<1>1. nextFile \in Nat
  BY WhileOpen
<1>2. ~(nextFile < nextFile)
  BY <1>1
<1>3. QED
  BY <1>2, UsedIsBelow DEF TableInv, BuildInv

LEMMA UnusedStays ==
  ASSUME VersionsStay, bg'.comp.base = bg.comp.base, NEW n, Unused(n)
  PROVE  Unused(n)'
  BY DEF Unused, VersionsStay

(* The compaction's inputs and outputs stay.                               *)
CompactionStays ==
  /\ bg'.comp = bg.comp
  /\ \A n \in bg.comp.out : n \in pending' /\ n \in DOMAIN tables'

InputsStay ==
  /\ nextFile' \in Nat /\ nextFile <= nextFile'
  /\ \A n \in Nums(bg.comp.base) : Kept(tables, tables', n)

LEMMA InputsKept ==
  ASSUME VersionsStay
  PROVE  InputsStay
  BY DEF VersionsStay, InputsStay, Unused

LEMMA CompactionKept ==
  ASSUME TableInv, phase = "open", InputsStay, CompactionStays
  PROVE  /\ bg'.comp # None => bg'.comp.in # {}
         /\ bg'.comp.in \subseteq bg'.comp.base
         /\ Sound(tables', nextFile', bg'.comp.base)
         /\ \A n \in bg'.comp.out : /\ n \in Nat /\ n < nextFile'
                                    /\ n \in pending' /\ n \in DOMAIN tables'
<1>1. /\ nextFile \in Nat /\ nextFile' \in Nat /\ nextFile <= nextFile'
  BY WhileOpen DEF InputsStay
<1>2. Sound(tables', nextFile', bg.comp.base)
  <2>1. \A n \in Nums(bg.comp.base) : Kept(tables, tables', n)
    BY DEF InputsStay
  <2>2. Sound(tables, nextFile, bg.comp.base)
    BY DEF TableInv, BuildInv
  <2>3. QED
    BY <1>1, <2>1, <2>2, SoundKept, SoundHigher
<1>3. \A n \in bg.comp.out : n \in Nat /\ n < nextFile'
  BY <1>1 DEF TableInv, BuildInv
<1>4. /\ bg.comp # None => bg.comp.in # {}
      /\ bg.comp.in \subseteq bg.comp.base
  BY DEF TableInv, BuildInv
<1>5. QED
  BY <1>2, <1>3, <1>4 DEF CompactionStays

LEMMA BuildEnds ==
  ASSUME TableInv, phase = "open", NEW w, NEW err, NEW im, NEW v, Ends(w, err, im, v)
  PROVE  \/ bg'.pc = "idle" /\ bg'.comp = None
         \/ /\ bg'.pc = "compact" /\ bg'.comp = bg.comp /\ bg.comp # None
            /\ bg.kind = "flush"
<1>1. Locals(bg)
  BY WhileOpen
<1>2. CASE bg.kind = "flush" /\ bg.comp # None
  <2>1. bg' = [bg EXCEPT !.pc = "compact", !.kind = ""]
    BY <1>2 DEF Ends
  <2>2. bg'.pc = "compact" /\ bg'.comp = bg.comp
    BY <1>1, <2>1 DEF Locals
  <2>3. QED
    BY <1>2, <2>2
<1>3. CASE ~(bg.kind = "flush" /\ bg.comp # None)
  <2>1. bg' = Idle
    BY <1>3 DEF Ends, BackgroundCallEnds
  <2>2. QED
    BY <2>1 DEF Idle
<1>4. QED
  BY <1>2, <1>3

LEMMA TablesFlushBegins ==
  ASSUME TableInv, FlushBegins, phase = "open"
  PROVE  VersionInv' /\ BuildInv' /\ ReopenInv'
<1>1. /\ nextFile \in Nat /\ Locals(bg)
  BY WhileOpen
<1>2. /\ phase' = phase /\ current' = current /\ version' = version
      /\ manifests' = manifests /\ manifestNum' = manifestNum /\ held' = held
      /\ imm' = imm /\ imm # << >> /\ bgError' = bgError /\ spoilt' = spoilt
      /\ nextFile' = nextFile + 1 /\ pending' = pending \cup {nextFile}
      /\ tables' = IF imm[1] = {} THEN tables ELSE Put(tables, nextFile, Partial)
      /\ bg.pc \in {"idle", "compact"}
  BY DEF FlushBegins, MayWork, Protected, control, history
<1>3. /\ bg'.pc = "flush" /\ bg'.num = nextFile /\ bg'.comp = bg.comp
      /\ bg'.kind = "flush"
  BY <1>1 DEF FlushBegins, Locals
<1>4. nextFile' \in Nat /\ nextFile <= nextFile' /\ nextFile < nextFile'
  BY <1>1, <1>2
<1>5. \A k : ~Unused(k) => Kept(tables, tables', k)
  <2>1. tables' = Put(tables, nextFile, Partial) \/ tables' = tables
    BY <1>2
  <2>2. Unused(nextFile)
    BY NextIsUnused
  <2>3. QED
    BY <2>1, <2>2, PutKeeps
<1>6. VersionsStay
  BY <1>2, <1>4, <1>5 DEF VersionsStay
<1>7. VersionInv'
  BY <1>2, <1>3, <1>6, VersionKept
<1>8. /\ DOMAIN tables \subseteq DOMAIN tables'
      /\ imm[1] # {} => nextFile \in DOMAIN tables'
  BY <1>2 DEF Put
<1>9. CompactionStays
  BY <1>2, <1>3, <1>8 DEF CompactionStays, TableInv, BuildInv
<1>10. Unused(bg.num)' /\ bg'.num \notin bg'.comp.out
  <2>1. PICK n : n = nextFile
    OBVIOUS
  <2>2. Unused(n) /\ n \notin bg.comp.out
    BY <2>1, NextIsUnused
  <2>3. Unused(n)'
    BY <1>3, <1>6, <2>2, UnusedStays
  <2>4. QED
    BY <1>3, <2>1, <2>2, <2>3
<1>11. BuildInv'
  <2>1. /\ bg'.comp # None => bg'.comp.in # {}
        /\ bg'.comp.in \subseteq bg'.comp.base
        /\ Sound(tables', nextFile', bg'.comp.base)
        /\ \A n \in bg'.comp.out : /\ n \in Nat /\ n < nextFile'
                                   /\ n \in pending' /\ n \in DOMAIN tables'
    BY <1>6, <1>9, InputsKept, CompactionKept
  <2>2. imm' # << >> /\ (imm'[1] # {} => bg'.num \in DOMAIN tables')
    BY <1>2, <1>3, <1>8
  <2>3. bg'.num \in Nat /\ bg'.num < nextFile'
    BY <1>1, <1>3, <1>4
  <2>4. QED
    BY <1>3, <1>10, <2>1, <2>2, <2>3 DEF BuildInv
<1>12. QED
  BY <1>2, <1>7, <1>11, ReopenKept DEF TableInv

(* The call, or the flush within the compaction, has ended.                *)
LEMMA BuildEnded ==
  ASSUME TableInv, phase = "open",
         NEW w, NEW err, NEW im, NEW v, Ends(w, err, im, v),
         bg.kind = "flush" => InputsStay,
         bg.kind = "flush" =>
           \A n \in bg.comp.out : n \in pending' /\ n \in DOMAIN tables'
  PROVE  BuildInv'
<1>1. CASE bg'.pc = "idle" /\ bg'.comp = None
  BY <1>1, BuildIdle
<1>2. CASE /\ bg'.pc = "compact" /\ bg'.comp = bg.comp /\ bg.comp # None
           /\ bg.kind = "flush"
  <2>1. CompactionStays
    BY <1>2 DEF CompactionStays
  <2>i. InputsStay
    BY <1>2
  <2>2. /\ bg'.comp # None => bg'.comp.in # {}
        /\ bg'.comp.in \subseteq bg'.comp.base
        /\ Sound(tables', nextFile', bg'.comp.base)
        /\ \A n \in bg'.comp.out : /\ n \in Nat /\ n < nextFile'
                                   /\ n \in pending' /\ n \in DOMAIN tables'
    BY <2>1, <2>i, CompactionKept
  <2>3. bg'.comp # None
    BY <1>2
  <2>4. QED
    BY <1>2, <2>2, <2>3 DEF BuildInv
<1>3. QED
  BY <1>1, <1>2, BuildEnds

LEMMA TablesFlushEnds ==
  ASSUME TableInv, phase = "open", NEW l \in {0, 1}, FlushBuilt(l) \/ FlushFails
  PROVE  VersionInv' /\ BuildInv' /\ ReopenInv'
<1>1. /\ nextFile \in Nat /\ Locals(bg) /\ Below(nextFile, manifests[current])
  BY WhileOpen
<1>2. /\ phase' = phase /\ current' = current /\ version' = version
      /\ manifests' = manifests /\ manifestNum' = manifestNum /\ held' = held
      /\ imm' = imm /\ spoilt' = spoilt /\ nextFile' = nextFile
      /\ pending' = pending \ {bg.num} /\ bg.pc = "flush"
  BY DEF FlushBuilt, FlushFails, numbers, history
<1>3. /\ imm # << >> /\ (imm[1] # {} => bg.num \in DOMAIN tables)
      /\ bg.num \in Nat /\ bg.num < nextFile
      /\ bg.num \notin bg.comp.out /\ Unused(bg.num)
  BY <1>2 DEF TableInv, BuildInv
<1>4. nextFile <= nextFile'
  BY <1>1, <1>2
<1>5. \/ tables' = Put(tables, bg.num, imm[1])
      \/ tables' = Without(tables, {bg.num}) \/ tables' = tables
  BY DEF FlushBuilt, FlushFails
<1>6. \A k : ~Unused(k) => Kept(tables, tables', k)
  BY <1>3, <1>5, PutKeeps
<1>7. VersionsStay
  BY <1>1, <1>2, <1>4, <1>6 DEF VersionsStay
<1>8. ReopenInv'
  BY <1>2, ReopenKept DEF TableInv
<1>9. \A n \in bg.comp.out : n \in pending' /\ n \in DOMAIN tables'
  <2>1. \A n \in bg.comp.out : n \in pending /\ n \in DOMAIN tables /\ n # bg.num
    BY <1>3 DEF TableInv, BuildInv
  <2>2. QED
    BY <1>2, <1>5, <2>1 DEF Put, Without, Restrict
<1>10. CASE Fail
  <2>1. bgError'
    BY <1>10 DEF Fail
  <2>2. VersionInv'
    BY <1>7, <2>1, VersionKept
  <2>3. BuildInv'
    BY <1>7, <1>9, <1>10, InputsKept, BuildEnded DEF Fail
  <2>4. QED
    BY <1>8, <2>2, <2>3
<1>11. CASE FlushBuilt(l) /\ ~shutting
  <2> DEFINE add == IF imm[1] = {} THEN {} ELSE {<<bg.num, l>>}
             e == Edit(add, {}, logNum)
  <2>1. bg' = [bg EXCEPT !.pc = "log", !.edit = e]
        /\ bgError' = bgError
    BY <1>11 DEF FlushBuilt
  <2>e. e.add = add /\ e.next = nextFile
    BY DEF Edit
  <2> HIDE DEF e, add
  <2>2. bg'.pc = "log" /\ bg'.edit = e /\ bg'.comp = bg.comp /\ bg'.kind = bg.kind
    BY <1>1, <2>1 DEF Locals
  <2>3. VersionInv'
    BY <1>2, <1>7, <2>1, <2>2, VersionKept
  <2>4. CompactionStays
    BY <1>9, <2>2 DEF CompactionStays
  <2>5. /\ bg'.comp # None => bg'.comp.in # {}
        /\ bg'.comp.in \subseteq bg'.comp.base
        /\ Sound(tables', nextFile', bg'.comp.base)
        /\ \A n \in bg'.comp.out : /\ n \in Nat /\ n < nextFile'
                                   /\ n \in pending' /\ n \in DOMAIN tables'
    BY <1>7, <2>4, InputsKept, CompactionKept
  <2>6. Sound(tables', nextFile, add)
    <3>1. CASE imm[1] = {}
      <4>1. add = {}
        BY <3>1 DEF add
      <4>2. QED
        BY <4>1, NothingSaved DEF Sound
    <3>2. CASE imm[1] # {}
      <4>1. add = {<<bg.num, l>>}
        BY <3>2 DEF add
      <4>2. Nums(add) = {bg.num}
        BY <4>1 DEF Nums
      <4>3. tables' = Put(tables, bg.num, imm[1])
        BY <1>3, <1>11, <3>2 DEF FlushBuilt
      <4>4. bg.num \in DOMAIN tables' /\ tables'[bg.num] = imm[1]
        BY <4>3 DEF Put
      <4>5. QED
        BY <1>3, <3>2, <4>2, <4>4 DEF Sound, Partial
    <3>3. QED
      BY <3>1, <3>2
  <2>7. /\ Sound(tables', bg'.edit.next, bg'.edit.add)
        /\ bg'.edit.next <= nextFile'
        /\ Below(bg'.edit.next, manifests'[current'])
    BY <1>1, <1>2, <1>4, <2>2, <2>6, <2>e
  <2>8. bg'.kind \in {"flush", "move", "merge"}
    BY <1>2, <2>2 DEF TableInv, BuildInv
  <2>9. BuildInv'
    BY <2>2, <2>5, <2>7, <2>8 DEF BuildInv
  <2>10. QED
    BY <1>8, <2>3, <2>9
<1>12. QED
  BY <1>10, <1>11 DEF FlushBuilt, FlushFails

LEMMA TablesBegins ==
  ASSUME TableInv, phase = "open", CompactionBegins
  PROVE  VersionInv' /\ BuildInv' /\ ReopenInv'
<1>1. /\ nextFile \in Nat /\ Locals(bg) /\ Below(nextFile, manifests[current])
      /\ Sound(tables, nextFile, version)
  BY WhileOpen
<1>2. /\ phase' = phase /\ current' = current /\ version' = version
      /\ manifests' = manifests /\ manifestNum' = manifestNum /\ held' = held
      /\ spoilt' = spoilt /\ nextFile' = nextFile /\ tables' = tables
      /\ bgError' = bgError /\ bg.pc = "idle"
  BY DEF CompactionBegins, MayWork, disk, control, numbers, data, history
<1>3. nextFile <= nextFile'
  BY <1>1, <1>2
<1>4. VersionsStay
  BY <1>1, <1>2, <1>3 DEF VersionsStay, Kept
<1>5. ReopenInv'
  BY <1>2, ReopenKept DEF TableInv
<1>6. bg.comp = None
  BY <1>2 DEF TableInv, BuildInv
<1>7. PICK S \in (SUBSET L0(version)) \ {{}}, T \in SUBSET L1(version) :
         \/ bg' = [bg EXCEPT !.pc = "compact",
                     !.comp = [in |-> S \cup T, out |-> {}, base |-> version]]
         \/ bg' = [bg EXCEPT !.pc = "log", !.kind = "move",
                 !.edit = Edit({<<t[1], 1>> : t \in S}, S, minLog)]
  BY DEF CompactionBegins
<1>8. S # {} /\ S \subseteq version /\ S \cup T \subseteq version
  BY <1>7 DEF L0, L1
<1>9. CASE bg' = [bg EXCEPT !.pc = "compact",
                    !.comp = [in |-> S \cup T, out |-> {}, base |-> version]]
  <2>1. /\ bg'.pc = "compact" /\ bg'.comp.in = S \cup T /\ bg'.comp.out = {}
        /\ bg'.comp.base = version
    BY <1>1, <1>9 DEF Locals
  <2>2. VersionInv'
    BY <1>2, <1>4, <2>1, VersionKept
  <2>3. BuildInv'
    BY <1>1, <1>2, <1>8, <2>1 DEF BuildInv
  <2>4. QED
    BY <1>5, <2>2, <2>3
<1>10. CASE bg' = [bg EXCEPT !.pc = "log", !.kind = "move",
                   !.edit = Edit({<<t[1], 1>> : t \in S}, S, minLog)]
  <2> DEFINE e == Edit({<<t[1], 1>> : t \in S}, S, minLog)
  <2>1. /\ e.add = {<<t[1], 1>> : t \in S} /\ e.next = nextFile
    BY DEF Edit
  <2>2. /\ bg'.pc = "log" /\ bg'.kind = "move" /\ bg'.edit = e
        /\ bg'.comp = None
    BY <1>1, <1>6, <1>10 DEF Locals
  <2> HIDE DEF e
  <2>3. VersionInv'
    BY <1>2, <1>4, <2>2, VersionKept
  <2>4. Sound(tables, nextFile, e.add)
    <3>1. Nums(e.add) \subseteq Nums(version)
      BY <1>8, <2>1 DEF Nums
    <3>2. QED
      BY <1>1, <3>1 DEF Sound
  <2>5. /\ bg'.comp.in = {} /\ bg'.comp.out = {} /\ bg'.comp.base = {}
    BY <2>2 DEF None
  <2>6. Sound(tables', nextFile', {})
    BY NothingSaved DEF Sound
  <2>7. BuildInv'
    BY <1>1, <1>2, <1>3, <2>1, <2>2, <2>4, <2>5, <2>6 DEF BuildInv
  <2>8. QED
    BY <1>5, <2>3, <2>7
<1>11. QED
  BY <1>7, <1>9, <1>10

LEMMA TablesOutput ==
  ASSUME TableInv, phase = "open", OpenCompactionOutputFile
  PROVE  VersionInv' /\ BuildInv' /\ ReopenInv'
<1>1. /\ nextFile \in Nat /\ Locals(bg)
  BY WhileOpen
<1>2. /\ phase' = phase /\ current' = current /\ version' = version
      /\ manifests' = manifests /\ manifestNum' = manifestNum /\ held' = held
      /\ spoilt' = spoilt /\ nextFile' = nextFile + 1
      /\ tables' = Put(tables, nextFile, Partial) /\ bgError' = bgError
      /\ pending' = pending \cup {nextFile} /\ bg.pc = "compact"
      /\ bg' = [bg EXCEPT !.comp.out = {nextFile}]
  BY DEF OpenCompactionOutputFile, control, history, Protected
<1>3. nextFile <= nextFile' /\ nextFile' \in Nat /\ nextFile < nextFile'
  BY <1>1, <1>2
<1>4. \A k : ~Unused(k) => Kept(tables, tables', k)
  <2>1. Unused(nextFile)
    BY NextIsUnused
  <2>2. QED
    BY <1>2, <2>1, PutKeeps
<1>5. VersionsStay
  BY <1>2, <1>3, <1>4 DEF VersionsStay
<1>6. /\ bg'.pc = "compact" /\ bg'.comp.in = bg.comp.in
      /\ bg'.comp.base = bg.comp.base /\ bg'.comp.out = {nextFile}
  BY <1>1, <1>2 DEF Locals
<1>7. VersionInv'
  BY <1>2, <1>5, <1>6, VersionKept
<1>8. ReopenInv'
  BY <1>2, ReopenKept DEF TableInv
<1>9. bg.comp.in # {} /\ bg.comp.in \subseteq bg.comp.base
  BY <1>2 DEF TableInv, BuildInv
<1>10. Sound(tables', nextFile', bg.comp.base)
  <2>1. \A n \in Nums(bg.comp.base) : Kept(tables, tables', n)
    BY <1>4 DEF Unused
  <2>2. Sound(tables, nextFile, bg.comp.base)
    BY DEF TableInv, BuildInv
  <2>3. QED
    BY <1>1, <1>3, <2>1, <2>2, SoundKept, SoundHigher
<1>11. nextFile \in DOMAIN tables'
  BY <1>2 DEF Put
<1>12. BuildInv'
  BY <1>1, <1>2, <1>3, <1>6, <1>9, <1>10, <1>11 DEF BuildInv
<1>13. QED
  BY <1>7, <1>8, <1>12

(* The merged table has entries: its inputs have.                          *)
LEMMA TablesMerged ==
  ASSUME TableInv, phase = "open", FinishCompaction
  PROVE  VersionInv' /\ BuildInv' /\ ReopenInv'
<1>1. /\ nextFile \in Nat /\ Locals(bg) /\ Below(nextFile, manifests[current])
  BY WhileOpen
<1> DEFINE all == UNION {Contents(m) : m \in Nums(bg.comp.in)}
           e == Edit({<<n, 1>> : n \in bg.comp.out}, bg.comp.in, minLog)
<1>2. /\ phase' = phase /\ current' = current /\ version' = version
      /\ manifests' = manifests /\ manifestNum' = manifestNum /\ held' = held
      /\ spoilt' = spoilt /\ nextFile' = nextFile /\ bgError' = bgError
      /\ pending' = pending /\ bg.pc = "compact"
      /\ tables' = [n \in DOMAIN tables |->
                      IF n \in bg.comp.out THEN all ELSE tables[n]]
      /\ bg' = [bg EXCEPT !.pc = "log", !.kind = "merge", !.edit = e]
  BY DEF FinishCompaction, control, numbers, data, history
<1>3. e.add = {<<n, 1>> : n \in bg.comp.out} /\ e.next = nextFile
  BY DEF Edit
<1>4. all # {}
  <2>1. PICK t \in bg.comp.in : TRUE
    BY <1>2 DEF TableInv, BuildInv
  <2>2. t \in bg.comp.base /\ Sound(tables, nextFile, bg.comp.base)
    BY <2>1 DEF TableInv, BuildInv
  <2>3. t[1] \in Nums(bg.comp.in) /\ t[1] \in Nums(bg.comp.base)
    BY <2>1, <2>2 DEF Nums
  <2>4. t[1] \in DOMAIN tables /\ tables[t[1]] # {}
    BY <2>2, <2>3 DEF Sound, Partial
  <2>5. Contents(t[1]) # {}
    BY <2>4 DEF Contents
  <2>6. QED
    BY <2>3, <2>5
<1> HIDE DEF all, e
<1>5. nextFile <= nextFile'
  BY <1>1, <1>2
<1>6. \A k : Kept(tables, tables', k)
  BY <1>2, <1>4 DEF Kept, Partial
<1>7. VersionsStay
  BY <1>1, <1>2, <1>5, <1>6 DEF VersionsStay
<1>8. /\ bg'.pc = "log" /\ bg'.kind = "merge" /\ bg'.edit = e
      /\ bg'.comp = bg.comp
  BY <1>1, <1>2 DEF Locals
<1>9. VersionInv'
  BY <1>2, <1>7, <1>8, VersionKept
<1>10. ReopenInv'
  BY <1>2, ReopenKept DEF TableInv
<1>11. \A n \in bg.comp.out : /\ n \in Nat /\ n < nextFile
                              /\ n \in pending /\ n \in DOMAIN tables
  BY DEF TableInv, BuildInv
<1>12. DOMAIN tables' = DOMAIN tables
  BY <1>2
<1>13. CompactionStays
  BY <1>2, <1>8, <1>11, <1>12 DEF CompactionStays
<1>14. /\ bg'.comp # None => bg'.comp.in # {}
       /\ bg'.comp.in \subseteq bg'.comp.base
       /\ Sound(tables', nextFile', bg'.comp.base)
       /\ \A n \in bg'.comp.out : /\ n \in Nat /\ n < nextFile'
                                  /\ n \in pending' /\ n \in DOMAIN tables'
  BY <1>7, <1>13, InputsKept, CompactionKept
<1>15. Sound(tables', nextFile, e.add)
  <2>1. Nums(e.add) \subseteq bg.comp.out
    BY <1>3 DEF Nums
  <2>2. \A n \in bg.comp.out : tables'[n] # Partial
    BY <1>2, <1>4, <1>11 DEF Partial
  <2>3. QED
    BY <1>11, <1>12, <2>1, <2>2 DEF Sound
<1>16. BuildInv'
  BY <1>1, <1>2, <1>3, <1>5, <1>8, <1>14, <1>15 DEF BuildInv
<1>17. QED
  BY <1>9, <1>10, <1>16

LEMMA TablesGiveUp ==
  ASSUME TableInv, phase = "open", NothingToDo \/ CompactionFails
  PROVE  VersionInv' /\ BuildInv' /\ ReopenInv'
<1>1. nextFile \in Nat
  BY WhileOpen
<1>2. /\ phase' = phase /\ current' = current /\ version' = version
      /\ manifests' = manifests /\ manifestNum' = manifestNum /\ held' = held
      /\ spoilt' = spoilt /\ nextFile' = nextFile /\ tables' = tables
      /\ bg' = Idle /\ bg.pc # "sync"
  BY DEF NothingToDo, CompactionFails, BackgroundCallEnds, disk, numbers, data,
     history
<1>e. bgError => bgError'
  BY DEF NothingToDo, CompactionFails
<1>3. nextFile <= nextFile'
  BY <1>1, <1>2
<1>4. VersionsStay
  BY <1>1, <1>2, <1>3 DEF VersionsStay, Kept
<1>5. bg'.pc = "idle" /\ bg'.comp = None
  BY <1>2 DEF Idle
<1>6. VersionInv'
  BY <1>2, <1>e, <1>4, <1>5, VersionKept
<1>7. BuildInv'
  BY <1>5, BuildIdle
<1>8. QED
  BY <1>2, <1>6, <1>7, ReopenKept DEF TableInv

(* The edit is in the descriptor, and may be found there from now on.      *)
LEMMA TablesLogEdit ==
  ASSUME TableInv, phase = "open", LogEdit
  PROVE  VersionInv' /\ BuildInv' /\ ReopenInv'
<1> DEFINE f == manifests[current]
           e == bg.edit
<1>1. /\ nextFile \in Nat /\ Locals(bg) /\ current = manifestNum /\ current # 0
      /\ current \in DOMAIN manifests /\ GoodFile(current, f)
      /\ OnDisk(tables, f) /\ SyncedPart(f) /\ Sound(tables, nextFile, version)
  BY WhileOpen
<1>p. PICK file \in Astray("descriptor", f) :
         manifests' = [manifests EXCEPT ![manifestNum] = Appended(file, {e})]
  BY <1>1 DEF LogEdit
<1> DEFINE g == Appended(file, {e})
<1>2. /\ phase' = phase /\ current' = current /\ version' = version
      /\ manifestNum' = manifestNum /\ held' = held
      /\ nextFile' = nextFile /\ bgError' = bgError /\ tables' = tables
      /\ pending' = pending /\ bg.pc = "log" /\ imm' = imm
      /\ bg' = [bg EXCEPT !.pc = "sync"]
  BY DEF LogEdit, control, numbers, data
<1>3. manifests'[current] = g
  BY <1>1, <1>p
<1>4. /\ GoodEdit(current, e) /\ Below(e.next, f) /\ Sound(tables, e.next, e.add)
      /\ e.next <= nextFile
  BY <1>1, <1>2 DEF TableInv, BuildInv, WriteInv, DescriptorInv
<1>5. /\ bg'.pc = "sync" /\ bg'.edit = e /\ bg'.comp = bg.comp
      /\ bg'.kind = bg.kind
  BY <1>1, <1>2 DEF Locals
<1>f. spoilt' = (spoilt \/ "descriptor" \in ahead)
  BY DEF LogEdit
<1>a. /\ "descriptor" \in ahead => bgError
      /\ "descriptor" \notin ahead => NoJunk(f.recs)
  BY DEF TableInv, AheadInv
<1> HIDE DEF f, e
<1>w. /\ GoodFile(current, file) /\ SyncedPart(file)
      /\ Readings(file) \subseteq Readings(f)
      /\ Readable(file.recs) = Readable(f.recs)
      /\ "descriptor" \notin ahead => file = f
  BY <1>1, <1>p, AstrayFile, AstrayReadings
<1>o. OnDisk(tables, file) /\ Below(e.next, file)
  <2>1. OnDisk(tables, file)
    BY <1>1, <1>w, OnDiskLess
  <2>2. QED
    BY <1>4, <1>w, <2>1 DEF Below
<1>6. /\ OnDisk(tables, g) /\ Below(e.next, g)
      /\ \A recs \in Readings(g) :
              \/ recs \in Readings(file)
              \/ /\ NoJunk(file.recs) /\ recs = Append(file.recs, {e})
                 /\ Saved(recs) = (Saved(file.recs) \ e.del) \cup e.add
      /\ NoJunk(file.recs) =>
              /\ NoJunk(g.recs)
              /\ Saved(g.recs) = (Saved(file.recs) \ e.del) \cup e.add
  BY <1>4, <1>o, <1>w, OnDiskAppended
<1>7. GoodFile(current, g) /\ SyncedPart(g)
  BY <1>4, <1>6, <1>w, GoodFileKept DEF OnDisk, SyncedPart
<1>h. file.recs \in Seq(Range(file.recs)) /\ Len(file.recs) \in Nat
  BY <1>w, GoodFileHas
<1> HIDE DEF g
<1>8. Below(nextFile, g)
  <2>1. \A recs \in Readings(g) \ {<< >>} : NextOf(recs) \in Nat
    BY <1>7, ReadingGood
  <2>2. e.next \in Nat
    BY <1>4 DEF GoodEdit
  <2>3. QED
    BY <1>1, <1>4, <1>6, <2>1, <2>2 DEF Below
<1>9. VersionInv'
  <2>1. ASSUME ~bgError
        PROVE  NoJunk(g.recs) /\ Saved(g.recs) = (version \ e.del) \cup e.add
    <3>1. NoJunk(f.recs) /\ Saved(f.recs) = version
      BY <1>2, <2>1 DEF TableInv, VersionInv, f
    <3>2. QED
      BY <1>6, <1>a, <1>w, <2>1, <3>1
  <2>2. \A h \in held' : Sound(tables', nextFile', h)
    BY <1>2 DEF TableInv, VersionInv
  <2>3. QED
    BY <1>1, <1>2, <1>3, <1>5, <1>6, <1>8, <2>1, <2>2 DEF VersionInv
<1>10. BuildInv'
  <2>1. /\ bg.comp # None => bg.comp.in # {}
        /\ bg.comp.in \subseteq bg.comp.base
        /\ Sound(tables, nextFile, bg.comp.base)
        /\ \A n \in bg.comp.out : /\ n \in Nat /\ n < nextFile
                                  /\ n \in pending /\ n \in DOMAIN tables
        /\ bg.kind \in {"flush", "move", "merge"}
    BY <1>2 DEF TableInv, BuildInv
  <2>2. QED
    BY <1>2, <1>4, <1>5, <2>1 DEF BuildInv
<1>11. ReopenInv'
  <2>1. ASSUME current \notin {0, 1} PROVE << >> \notin Readings(g)
    <3>1. << >> \notin Readings(f)
      BY <2>1 DEF TableInv, ReopenInv, f
    <3>2. Append(file.recs, {e}) # << >>
      BY <1>h
    <3>3. QED
      BY <1>6, <1>w, <3>1, <3>2
  <2>2. ASSUME ~spoilt'
        PROVE  \A i \in 1 .. Len(g.recs) : g.recs[i] = Junk => i = Len(g.recs)
    <3>1. NoJunk(file.recs)
      BY <1>a, <1>f, <1>w, <2>2
    <3>2. NoJunk(g.recs)
      BY <1>6, <3>1
    <3>3. QED
      BY <3>2 DEF NoJunk
  <2>3. QED
    BY <1>2, <1>3, <2>1, <2>2 DEF ReopenInv, OpensAgain
<1>12. QED
  BY <1>9, <1>10, <1>11

LEMMA AppendFailed ==
  ASSUME NEW m, NEW f, GoodFile(m, f), SyncedPart(f),
         NEW left \in {<< >>, <<Junk>>}, NEW g, g = [f EXCEPT !.recs = @ \o left]
  PROVE  /\ SyncedPart(g) /\ Readings(g) \subseteq Readings(f)
         /\ Readable(g.recs) = Readable(f.recs)
         /\ left = << >> => g.recs = f.recs
         /\ left # << >> => g.recs = Append(f.recs, Junk)
<1>1. /\ DOMAIN f = {"recs", "synced"} /\ f.recs \in Seq(Range(f.recs))
      /\ Len(f.recs) \in Nat
  BY GoodFileHas
<1>2. g.recs = f.recs \o left /\ g.synced = f.synced
  BY <1>1
<1>3. Readable(f.recs) \in Readings(f)
  BY ReadingWhole
<1>4. CASE left = << >>
  <2>1. f.recs \o << >> = f.recs
    BY <1>1, ConcatEmptySeq
  <2>2. g.recs = f.recs
    BY <1>2, <1>4, <2>1
  <2>3. QED
    BY <1>2, <1>4, <2>2 DEF Readings, SyncedPart
<1>5. CASE left = <<Junk>>
  <2> DEFINE S == Range(f.recs) \cup {Junk}
  <2>1. f.recs \in Seq(S) /\ Junk \in S
    BY <1>1, SeqMonotonic
  <2> HIDE DEF S
  <2>2. Append(f.recs, Junk) = f.recs \o <<Junk>>
    <3>1. ASSUME NEW x \in S PROVE Append(f.recs, x) = f.recs \o <<x>>
      BY <2>1, AppendIsConcat
    <3>2. QED
      BY <2>1, <3>1, Zenon
  <2>3. g.recs = Append(f.recs, Junk)
    <3>1. g.recs = f.recs \o <<Junk>>
      BY <1>2, <1>5
    <3>2. QED
      BY <2>2, <3>1
  <2>4. SyncedPart(g) /\ Readings(g) \subseteq Readings(f) \cup {Readable(g.recs)}
    BY <1>2, <2>3, ReadingsAppended
  <2>5. Readable(g.recs) = Readable(f.recs)
    <3>1. PICK x, R, M : x = Junk /\ R = f.recs /\ M = g.recs
      OBVIOUS
    <3>2. R \in Seq(Range(R)) /\ M = Append(R, x)
      BY <1>1, <2>3, <3>1
    <3>3. x = Junk => Readable(M) = Readable(R)
      BY <3>2, ReadableAppend
    <3>4. QED
      BY <3>1, <3>3
  <2>6. QED
    BY <1>3, <1>5, <2>3, <2>4, <2>5
<1>6. QED
  BY <1>4, <1>5

LEMMA TablesLogFails ==
  ASSUME TableInv, phase = "open", LogFails
  PROVE  VersionInv' /\ BuildInv' /\ ReopenInv'
<1> DEFINE f == manifests[current]
<1>1. /\ nextFile \in Nat /\ current = manifestNum /\ current # 0
      /\ current \in DOMAIN manifests /\ GoodFile(current, f)
      /\ OnDisk(tables, f) /\ SyncedPart(f) /\ Sound(tables, nextFile, version)
      /\ f.recs \in Seq(Range(f.recs)) /\ Len(f.recs) \in Nat
      /\ Below(nextFile, f)
  BY WhileOpen, GoodFileHas
<1>2. /\ phase' = phase /\ current' = current /\ version' = version
      /\ held' = held /\ nextFile' = nextFile /\ tables' = tables
      /\ pending' = IF bg.kind = "merge" THEN pending \ bg.comp.out ELSE pending
      /\ Fail
  BY DEF LogFails, numbers
<1>3. PICK left \in {<< >>, <<Junk>>} :
         /\ manifests' = [manifests EXCEPT ![manifestNum].recs = @ \o left]
         /\ spoilt' = (spoilt \/ (left # << >> /\ "descriptor" \in ahead))
  BY <1>1 DEF LogFails
<1> DEFINE g == [f EXCEPT !.recs = @ \o left]
<1>4. manifests'[current] = g
  BY <1>1, <1>3
<1>g. g = [f EXCEPT !.recs = @ \o left] /\ left \in {<< >>, <<Junk>>}
  BY <1>3
<1> HIDE DEF f, g
<1>5. /\ SyncedPart(g) /\ Readings(g) \subseteq Readings(f)
      /\ Readable(g.recs) = Readable(f.recs)
      /\ left = << >> => g.recs = f.recs
      /\ left # << >> => g.recs = Append(f.recs, Junk)
  BY <1>1, <1>g, AppendFailed
<1>6. OnDisk(tables, g) /\ Below(nextFile, g)
  <2>1. OnDisk(tables, g)
    BY <1>1, <1>5, OnDiskLess
  <2>2. Below(nextFile, g)
    BY <1>1, <1>5 DEF Below
  <2>3. QED
    BY <2>1, <2>2
<1>7. VersionInv'
  <2>1. \A h \in held' : Sound(tables', nextFile', h)
    BY <1>2 DEF TableInv, VersionInv
  <2>2. bgError'
    BY <1>2 DEF Fail
  <2>3. QED
    BY <1>1, <1>2, <1>4, <1>6, <2>1, <2>2 DEF VersionInv
<1>8. BuildInv'
  <2>1. nextFile <= nextFile'
    BY <1>1, <1>2
  <2>2. InputsStay
    BY <1>1, <1>2, <2>1 DEF InputsStay, Kept
  <2>3. bg.kind = "flush" =>
          \A n \in bg.comp.out : n \in pending' /\ n \in DOMAIN tables'
    BY <1>2 DEF TableInv, BuildInv
  <2>4. QED
    BY <1>2, <2>2, <2>3, BuildEnded DEF Fail
<1>9. ReopenInv'
  <2>1. ASSUME current \notin {0, 1} PROVE << >> \notin Readings(g)
    BY <1>5, <2>1 DEF TableInv, ReopenInv, f
  <2>2. ASSUME ~spoilt'
        PROVE  \A i \in 1 .. Len(g.recs) : g.recs[i] = Junk => i = Len(g.recs)
    <3>1. CASE left = << >>
      <4>1. \A i \in 1 .. Len(f.recs) : f.recs[i] = Junk => i = Len(f.recs)
        BY <1>1, <1>3, <2>2 DEF TableInv, ReopenInv, f
      <4>2. QED
        BY <1>5, <3>1, <4>1
    <3>2. CASE left # << >>
      <4>1. \A i \in 1 .. Len(f.recs) : f.recs[i] # Junk
        <5>1. "descriptor" \notin ahead
          BY <1>3, <2>2, <3>2
        <5>2. QED
          BY <5>1 DEF TableInv, AheadInv, NoJunk, f
      <4>2. /\ Len(g.recs) = Len(f.recs) + 1
            /\ \A i \in 1 .. Len(f.recs) : g.recs[i] = f.recs[i]
        <5>1. f.recs \in Seq(Range(f.recs) \cup {Junk})
          BY <1>1, SeqMonotonic
        <5>2. Junk \in Range(f.recs) \cup {Junk}
          OBVIOUS
        <5>3. g.recs = Append(f.recs, Junk)
          BY <1>5, <3>2
        <5>4. QED
          BY <5>1, <5>2, <5>3, AppendProperties
      <4>3. QED
        BY <1>1, <4>1, <4>2
    <3>3. QED
      BY <3>1, <3>2
  <2>3. QED
    BY <1>2, <1>4, <2>1, <2>2 DEF ReopenInv, OpensAgain
<1>10. QED
  BY <1>7, <1>8, <1>9

(* DeleteObsoleteFiles runs only when the descriptor, with what was just   *)
(* synced, is known to name the new version.                               *)
LEMMA TablesApply ==
  ASSUME TableInv, phase = "open", Apply
  PROVE  VersionInv' /\ BuildInv' /\ ReopenInv'
<1> DEFINE f == manifests[current]
           g == Synced(f)
           e == bg.edit
           synced == [manifests EXCEPT ![manifestNum] = Synced(@)]
           live == Nums(version') \cup (UNION {Nums(h) : h \in held}) \cup pending'
                     \cup (IF bg.kind = "flush" THEN Nums(bg.comp.base) ELSE {})
           keep == bgError \/ bg.kind = "move"
<1>1. /\ nextFile \in Nat /\ current = manifestNum /\ current # 0
      /\ current \in DOMAIN manifests /\ AllGood(manifests)
      /\ GoodFile(current, f) /\ Below(nextFile, f)
      /\ OnDisk(tables, f) /\ SyncedPart(f) /\ Sound(tables, nextFile, version)
  BY WhileOpen
<1>2. /\ phase' = phase /\ current' = current
      /\ version' = (version \ e.del) \cup e.add /\ bg.pc = "sync"
      /\ held' = held /\ nextFile' = nextFile /\ bgError' = bgError
      /\ pending' = IF bg.kind = "merge" THEN pending \ bg.comp.out ELSE pending
      /\ Ends(wr, bgError, imm', version')
      /\ manifestNum' = manifestNum
  BY DEF Apply
<1>s. spoilt' = spoilt
  BY DEF Apply, history
<1>3. /\ keep => manifests' = synced /\ tables' = tables
      /\ ~keep => /\ tables' = Without(tables, DOMAIN tables \ live)
                  /\ manifests' = Without(synced, {n \in DOMAIN manifests :
                                                     n < manifestNum})
  BY DEF Apply
<1>4. manifests'[current] = g
  <2>1. synced[current] = g /\ DOMAIN synced = DOMAIN manifests
    BY <1>1
  <2>2. ~(current < manifestNum)
    <3>1. current \in Nat
      BY <1>1 DEF GoodFile
    <3>2. QED
      BY <1>1, <3>1
  <2> HIDE DEF synced
  <2>3. ~keep => manifests'[current] = synced[current]
    BY <1>1, <1>3, <2>1, <2>2 DEF Without, Restrict
  <2>4. QED
    BY <1>3, <2>1, <2>3
<1>5. /\ g.recs = f.recs /\ SyncedPart(g) /\ Readings(g) = {Readable(f.recs)}
      /\ Readable(f.recs) \in Readings(f) /\ GoodFile(current, g)
  BY <1>1, ReadingsSynced, ReadingWhole, GoodFileKept
<1>e. /\ e.next \in Nat /\ e.next <= nextFile /\ Sound(tables, e.next, e.add)
  BY <1>2 DEF TableInv, BuildInv, WriteInv, DescriptorInv, GoodEdit
<1>d. ~bgError => NoJunk(f.recs) /\ Saved(f.recs) = (version \ e.del) \cup e.add
  BY <1>2 DEF TableInv, VersionInv
<1>h. \A h \in held : Sound(tables, nextFile, h)
  BY DEF TableInv, VersionInv
<1>b. bg'.pc # "sync"
  BY <1>2, BuildEnds
<1>l. \A n \in live : Kept(tables, tables', n)
  <2>1. CASE keep
    BY <1>3, <2>1 DEF Kept
  <2>2. CASE ~keep
    <3>1. tables' = Without(tables, DOMAIN tables \ live)
      BY <1>3, <2>2
    <3> HIDE DEF live
    <3>2. QED
      BY <3>1 DEF Kept, Without, Restrict
  <2>3. QED
    BY <2>1, <2>2
<1>m. /\ \A n \in Nums(version') : n \in live
      /\ \A h \in held : \A n \in Nums(h) : n \in live
      /\ \A n \in pending' : n \in live
      /\ bg.kind = "flush" => \A n \in Nums(bg.comp.base) : n \in live
  OBVIOUS
<1>k. keep => tables' = tables
  BY <1>3
<1>n. ~keep => ~bgError
  OBVIOUS
<1> HIDE DEF f, g, e, synced, live, keep
<1>6. Sound(tables', nextFile, version')
  <2>1. Sound(tables, nextFile, e.add)
    BY <1>1, <1>e, SoundHigher
  <2>2. Sound(tables, nextFile, version')
    BY <1>1, <1>2, <2>1, SoundApplied
  <2>3. \A n \in Nums(version') : Kept(tables, tables', n)
    BY <1>l, <1>m
  <2>4. QED
    BY <1>1, <2>2, <2>3, SoundKept
<1>7. ASSUME NEW h \in held' PROVE Sound(tables', nextFile, h)
  <2>1. h \in held /\ Sound(tables, nextFile, h)
    BY <1>2, <1>h
  <2>2. \A n \in Nums(h) : Kept(tables, tables', n)
    BY <1>l, <1>m, <2>1
  <2>3. QED
    BY <1>1, <2>1, <2>2, SoundKept
<1>8. OnDisk(tables, g)
  BY <1>1, <1>5, OnDiskOne
<1>9. OnDisk(tables', g)
  <2>1. CASE keep
    BY <1>8, <1>k, <2>1
  <2>2. CASE ~keep
    <3>1. Saved(f.recs) = version' /\ NoJunk(f.recs)
      BY <1>2, <1>d, <1>n, <2>2
    <3>2. Readable(f.recs) = f.recs
      BY <1>1, <3>1, GoodFileHas, ReadableWhole
    <3>3. \A recs \in Readings(g) : \A n :
             n \in Nums(Saved(recs)) => Kept(tables, tables', n)
      BY <1>5, <1>l, <1>m, <3>1, <3>2
    <3>4. QED
      BY <1>5, <1>8, <3>3, OnDiskKept
  <2>3. QED
    BY <2>1, <2>2
<1>10. Below(nextFile, g)
  BY <1>1, <1>5 DEF Below
<1>11. VersionInv'
  <2>1. ~bgError' => NoJunk(g.recs) /\ Saved(g.recs) = version'
    BY <1>2, <1>5, <1>d
  <2>2. QED
    BY <1>1, <1>2, <1>4, <1>6, <1>7, <1>9, <1>10, <1>b, <2>1 DEF VersionInv
<1>12. BuildInv'
  <2>1. nextFile' \in Nat /\ nextFile <= nextFile'
    BY <1>1, <1>2
  <2>2. bg.kind = "flush" => InputsStay
    BY <1>l, <1>m, <2>1 DEF InputsStay
  <2>3. ASSUME bg.kind = "flush", NEW n \in bg.comp.out
        PROVE  n \in pending' /\ n \in DOMAIN tables'
    <3>1. n \in pending /\ n \in DOMAIN tables
      BY DEF TableInv, BuildInv
    <3>2. n \in pending'
      BY <1>2, <2>3, <3>1
    <3>3. n \in DOMAIN tables'
      <4>1. CASE keep
        BY <1>k, <3>1, <4>1
      <4>2. CASE ~keep
        BY <1>3, <1>m, <3>1, <3>2, <4>2 DEF Without, Restrict
      <4>3. QED
        BY <4>1, <4>2
    <3>4. QED
      BY <3>2, <3>3
  <2>4. QED
    BY <1>2, <2>2, <2>3, BuildEnded
<1>13. ReopenInv'
  <2>1. ASSUME current \notin {0, 1} PROVE << >> \notin Readings(g)
    BY <1>5, <2>1 DEF TableInv, ReopenInv, f
  <2>2. ASSUME ~spoilt'
        PROVE  \A i \in 1 .. Len(g.recs) : g.recs[i] = Junk => i = Len(g.recs)
    BY <1>1, <1>5, <1>s, <2>2 DEF TableInv, ReopenInv, f
  <2>3. QED
    BY <1>2, <1>4, <2>1, <2>2 DEF ReopenInv, OpensAgain
<1>14. QED
  BY <1>11, <1>12, <1>13

-----------------------------------------------------------------------------
(* The end of the process.                                                 *)

LEMMA TablesGone ==
  ASSUME Gone, current' = current, spoilt' = spoilt,
         current # 0 => OnDisk(tables', manifests'[current]),
         current \notin {0, 1} => << >> \notin Readings(manifests'[current]),
         ~spoilt /\ current # 0 =>
           \A i \in 1 .. Len(manifests'[current].recs) :
             manifests'[current].recs[i] = Junk => i = Len(manifests'[current].recs)
  PROVE  VersionInv' /\ BuildInv' /\ ReopenInv'
<1>1. phase' = "down" /\ held' = {} /\ bg' = Idle
  BY DEF Gone
<1>2. BuildInv'
  BY <1>1, BuildIdle DEF Idle
<1>3. VersionInv'
  BY <1>1 DEF VersionInv
<1>4. ReopenInv'
  BY <1>1 DEF ReopenInv, OpensAgain
<1>5. QED
  BY <1>2, <1>3, <1>4

(* What a power loss leaves of the descriptor.                             *)
LEMMA CurrentCut ==
  ASSUME TableInv, current # 0, NEW cut \in Cuts(manifests), NEW g,
         g = Cut(manifests, cut)[current]
  PROVE  /\ OnDisk(tables, g) /\ Readings(g) \subseteq Readings(manifests[current])
         /\ Readings(g) = {Readable(g.recs)}
         /\ (\A i \in 1 .. Len(manifests[current].recs) :
               manifests[current].recs[i] = Junk => i = Len(manifests[current].recs))
            => \A i \in 1 .. Len(g.recs) : g.recs[i] = Junk => i = Len(g.recs)
<1> DEFINE f == manifests[current]
           k == cut[current]
<1>1. /\ current \in DOMAIN manifests /\ GoodFile(current, f)
      /\ OnDisk(tables, f) /\ SyncedPart(f)
  BY DEF TableInv, WriteInv, DescriptorInv, VersionInv, AllGood, OnDisk, SyncedPart
<1>2. f.recs \in Seq(Range(f.recs)) /\ Len(f.recs) \in Nat
  BY <1>1, GoodFileHas
<1>3. /\ f.synced <= k /\ k <= Len(f.recs)
      /\ k \in UNION {0 .. Len(manifests[n].recs) : n \in DOMAIN manifests}
  BY <1>1 DEF Cuts
<1>4. k \in 0 .. Len(f.recs)
  <2>1. PICK n \in DOMAIN manifests : k \in 0 .. Len(manifests[n].recs)
    BY <1>3
  <2>2. Len(manifests[n].recs) \in Nat
    <3>1. GoodFile(n, manifests[n])
      BY <2>1 DEF TableInv, WriteInv, DescriptorInv, AllGood
    <3>2. QED
      BY <3>1, GoodFileHas
  <2> HIDE DEF f, k
  <2>3. k \in Nat
    BY <2>1, <2>2
  <2>4. QED
    BY <1>2, <1>3, <2>3
<1>5. g = [recs |-> SubSeq(f.recs, 1, k), synced |-> k]
  BY <1>1 DEF Cut
<1>r. g.recs = SubSeq(f.recs, 1, k)
  <2>1. PICK X : X = SubSeq(f.recs, 1, k)
    OBVIOUS
  <2> HIDE DEF f, k
  <2>2. g = [recs |-> X, synced |-> k]
    BY <1>5, <2>1
  <2>3. [recs |-> X, synced |-> k].recs = X
    OBVIOUS
  <2>4. QED
    BY <2>1, <2>2, <2>3
<1> HIDE DEF f, k
<1>6. /\ SyncedPart(g) /\ Readings(g) = {Readable(g.recs)}
      /\ Readable(g.recs) \in Readings(f)
  BY <1>1, <1>3, <1>4, <1>5, ReadingsCut
<1>7. OnDisk(tables, g) /\ Readings(g) \subseteq Readings(f)
  BY <1>1, <1>6, OnDiskOne
<1>8. ASSUME \A i \in 1 .. Len(f.recs) : f.recs[i] = Junk => i = Len(f.recs),
             NEW i \in 1 .. Len(g.recs), g.recs[i] = Junk
      PROVE  i = Len(g.recs)
  <2>1. g.recs = SubSeq(f.recs, 1, k)
    BY <1>r
  <2>2. CASE k = 0
    <3>1. g.recs = << >>
      BY <2>1, <2>2, SubSeqEmpty
    <3>2. QED
      BY <3>1
  <2>3. CASE k # 0
    <3>1. \A j \in 1 .. k : f.recs[j] \in Range(f.recs)
      BY <1>2, <1>4
    <3>2. Len(g.recs) = k /\ \A j \in 1 .. k : g.recs[j] = f.recs[j]
      BY <1>2, <1>4, <2>1, <2>3, <3>1, SubSeqProperties
    <3>3. f.recs[i] = Junk /\ i \in 1 .. k
      BY <1>8, <3>2
    <3>4. i = Len(f.recs)
      BY <1>2, <1>4, <1>8, <3>3
    <3>5. QED
      BY <1>2, <1>4, <3>2, <3>3, <3>4
  <2>4. QED
    BY <2>2, <2>3
<1>9. QED
  BY <1>6, <1>7, <1>8 DEF f

(* Unless the power goes, the descriptor CURRENT names is left as it is.   *)
LEMMA CurrentLeft ==
  ASSUME TableInv, Leaving, ~PowerLoss, current # 0
  PROVE  manifests'[current] = manifests[current]
<1>0. current \in DOMAIN manifests
  BY DEF TableInv, WriteInv, DescriptorInv
<1>1. CASE manifests' = manifests
  BY <1>1
<1>2. CASE OpenFails
  <2>1. DOMAIN manifests \subseteq Nat
    BY DEF TableInv, WriteInv, DescriptorInv, AllGood, GoodFile
  <2>2. phase # "create" /\ (phase = "name" => current < manifestNum)
    BY DEF TableInv, WriteInv, DescriptorInv
  <2> DEFINE S == CASE phase = "create" -> {1}
                    [] phase = "name" -> {manifestNum}
                    [] OTHER -> {}
  <2>3. manifests' = Without(manifests, S)
    BY <1>2 DEF OpenFails
  <2>4. current \notin S
    <3>1. CASE phase = "name"
      <4>1. S = {manifestNum} /\ current \in Nat
        BY <1>0, <2>1, <2>2, <3>1
      <4>2. current # manifestNum
        BY <2>2, <3>1, <4>1
      <4>3. QED
        BY <4>1, <4>2
    <3>2. CASE phase # "name"
      <4>1. S = {}
        BY <2>2, <3>2
      <4>2. QED
        BY <4>1
    <3>3. QED
      BY <3>1, <3>2
  <2> HIDE DEF S
  <2>5. QED
    BY <1>0, <2>3, <2>4 DEF Without, Restrict
<1>3. QED
  BY <1>1, <1>2 DEF Leaving, Closed, Crash, disk

LEMMA TablesLeaving ==
  ASSUME TableInv, Leaving
  PROVE  VersionInv' /\ BuildInv' /\ ReopenInv'
<1> DEFINE f == manifests[current]
           g == manifests'[current]
<1>1. Gone /\ current' = current /\ spoilt' = spoilt /\ tables' = tables
  BY DEF Leaving, Closed, Crash, PowerLoss, OpenFails, disk
<1>2. /\ current # 0 => OnDisk(tables, f) /\ current \in DOMAIN manifests
      /\ current \notin {0, 1} => << >> \notin Readings(f)
      /\ ~spoilt /\ current # 0 =>
           \A i \in 1 .. Len(f.recs) : f.recs[i] = Junk => i = Len(f.recs)
  BY DEF TableInv, WriteInv, DescriptorInv, VersionInv, ReopenInv
<1>3. CASE current = 0
  BY <1>1, <1>3, TablesGone
<1>4. CASE current # 0 /\ ~PowerLoss
  <2>1. g = f
    BY <1>4, CurrentLeft
  <2> HIDE DEF f, g
  <2>2. /\ OnDisk(tables', g)
        /\ current \notin {0, 1} => << >> \notin Readings(g)
        /\ ~spoilt =>
             \A i \in 1 .. Len(g.recs) : g.recs[i] = Junk => i = Len(g.recs)
    BY <1>1, <1>2, <1>4, <2>1
  <2>3. QED
    BY <1>1, <2>2, TablesGone DEF g
<1>5. CASE current # 0 /\ PowerLoss
  <2>1. PICK cut \in Cuts(manifests) : manifests' = Cut(manifests, cut)
    BY <1>5 DEF PowerLoss
  <2>2. g = Cut(manifests, cut)[current]
    BY <2>1
  <2> HIDE DEF g
  <2>3. /\ OnDisk(tables, g) /\ Readings(g) \subseteq Readings(f)
        /\ (\A i \in 1 .. Len(f.recs) : f.recs[i] = Junk => i = Len(f.recs))
            => \A i \in 1 .. Len(g.recs) : g.recs[i] = Junk => i = Len(g.recs)
    BY <1>5, <2>1, <2>2, CurrentCut
  <2> HIDE DEF f
  <2>4. /\ OnDisk(tables', g)
        /\ current \notin {0, 1} => << >> \notin Readings(g)
        /\ ~spoilt =>
             \A i \in 1 .. Len(g.recs) : g.recs[i] = Junk => i = Len(g.recs)
    BY <1>1, <1>2, <1>5, <2>3
  <2>5. QED
    BY <1>1, <2>4, TablesGone DEF g
<1>6. QED
  BY <1>3, <1>4, <1>5

-----------------------------------------------------------------------------
(* DB::Open.                                                               *)

LEMMA WhileOpening ==
  ASSUME TableInv, Opening
  PROVE  /\ bg'.pc = "idle" /\ bg'.comp = None /\ bg.pc = "idle"
         /\ BuildInv' /\ held' = {} /\ spoilt' = spoilt /\ ~bgError'
         /\ phase # "open" /\ nextFile \in Nat
         /\ current # 0 => /\ current \in DOMAIN manifests /\ current \in Nat
                           /\ GoodFile(current, manifests[current])
                           /\ OnDisk(tables, manifests[current])
                           /\ SyncedPart(manifests[current])
<1>1. phase # "open" /\ bg' = bg /\ held' = held /\ spoilt' = spoilt
      /\ bgError' = bgError
  BY DEF Opening, Open, NewDB, Recover, RecoverLogFile, NewLog, Describe, data,
     history
<1>2. bg.pc = "idle" /\ ~bgError
  BY <1>1 DEF TableInv, WriteInv, WakeInv
<1>3. bg.comp = None /\ held = {}
  BY <1>1, <1>2 DEF TableInv, BuildInv, VersionInv
<1>4. BuildInv'
  BY <1>1, <1>2, <1>3, BuildIdle
<1>5. nextFile \in Nat
      /\ (current # 0 => /\ current \in DOMAIN manifests
                         /\ GoodFile(current, manifests[current])
                         /\ OnDisk(tables, manifests[current]))
  BY DEF TableInv, WriteInv, DescriptorInv, VersionInv, AllGood
<1>6. current # 0 => current \in Nat /\ SyncedPart(manifests[current])
  BY <1>5 DEF GoodFile, OnDisk, SyncedPart
<1>7. QED
  BY <1>1, <1>2, <1>3, <1>4, <1>5, <1>6

LEMMA TablesCreate ==
  ASSUME TableInv, Open \/ NewDB
  PROVE  VersionInv' /\ BuildInv' /\ ReopenInv'
<1>0. Opening
  BY DEF Opening
<1>1. /\ BuildInv' /\ held' = {} /\ spoilt' = spoilt
      /\ current # 0 => OnDisk(tables, manifests[current])
  BY <1>0, WhileOpening
<1>2. CASE Open
  <2>1. /\ current' = current /\ manifests' = manifests /\ tables' = tables
        /\ phase' \in {"create", "recover"}
    BY <1>2 DEF Open, disk
  <2>2. VersionInv'
    BY <1>1, <2>1 DEF VersionInv
  <2>3. QED
    BY <1>1, <2>1, <2>2, ReopenKept DEF TableInv
<1>3. CASE NewDB /\ phase = "create"
  <2>1. /\ current' = current /\ tables' = tables /\ phase' = "install"
        /\ manifests' = Put(manifests, 1, Appended(EmptyFile, {FirstEdit}))
        /\ current = 0
    BY <1>3 DEF NewDB, TableInv, WriteInv, DescriptorInv
  <2>2. manifests'[1] = Appended(EmptyFile, {FirstEdit})
    BY <2>1 DEF Put
  <2>3. VersionInv'
    BY <1>1, <2>1, <2>2 DEF VersionInv
  <2>4. ReopenInv'
    BY <2>1 DEF ReopenInv, OpensAgain
  <2>5. QED
    BY <1>1, <2>3, <2>4
<1>4. CASE NewDB /\ phase = "install"
  <2> DEFINE f == manifests[1]
  <2>1. /\ current' = 1 /\ tables' = tables /\ phase' = "recover"
        /\ manifests' = manifests
    BY <1>4 DEF NewDB
  <2>2. f = Appended(EmptyFile, {FirstEdit})
    BY <1>4 DEF TableInv, VersionInv
  <2>3. /\ GoodEdit(1, FirstEdit) /\ FirstEdit.del = {}
        /\ FirstEdit.add = {}
    BY FS_EmptySet DEF FirstEdit, GoodEdit
  <2>4. Sound(tables, FirstEdit.next, FirstEdit.add)
    BY <2>3, NothingSaved DEF Sound
  <2> HIDE DEF f
  <2>5. OnDisk(tables, f) /\ NoJunk(f.recs)
    <3>1. 1 \in Nat
      OBVIOUS
    <3>2. QED
      BY <2>2, <2>3, <2>4, <3>1, OneRecord
  <2>6. VersionInv'
    BY <1>1, <2>1, <2>5 DEF VersionInv, f
  <2>7. ReopenInv'
    BY <2>1, <2>5 DEF ReopenInv, OpensAgain, NoJunk, f
  <2>8. QED
    BY <1>1, <2>6, <2>7
<1>5. QED
  BY <1>2, <1>3, <1>4 DEF NewDB

(* Recover finds the tables of the descriptor, and a readable descriptor   *)
(* unless it is NewDB's or was written to after junk.                      *)
LEMMA TablesRecover ==
  ASSUME TableInv, Recover
  PROVE  VersionInv' /\ BuildInv' /\ ReopenInv'
<1> DEFINE f == manifests[current]
           good == Readable(f.recs)
           st == EditOf(Last(good))
<1>0. Opening
  BY DEF Opening
<1>1. /\ current' = current /\ manifests' = manifests /\ tables' = tables
      /\ phase = "recover"
  BY DEF Recover, disk
<1>2. current # 0
  BY <1>1 DEF TableInv, WriteInv, DescriptorInv
<1>3. /\ BuildInv' /\ held' = {} /\ spoilt' = spoilt
      /\ OnDisk(tables, f) /\ GoodFile(current, f) /\ SyncedPart(f)
  BY <1>0, <1>2, WhileOpening
<1>4. good \in Readings(f)
  BY <1>3, ReadingWhole
<1>5. CASE phase' = "corrupt"
  <2>1. \/ good = << >> \/ Len(f.recs) > Len(good) + 1
        \/ ~(Nums(Saved(good)) \subseteq FileNumbers)
    BY <1>5 DEF Recover
  <2>2. ASSUME ~spoilt, current # 1 PROVE FALSE
    <3>1. good # << >>
      BY <1>2, <1>4, <2>2 DEF TableInv, ReopenInv
    <3>2. ~(Len(f.recs) > Len(good) + 1)
      <4>1. f.recs \in Seq(Range(f.recs)) /\ Len(f.recs) \in Nat
        BY <1>3, GoodFileHas
      <4>j. \A i \in 1 .. Len(f.recs) : f.recs[i] = Junk => i = Len(f.recs)
        BY <1>2, <2>2 DEF TableInv, ReopenInv
      <4> HIDE DEF f
      <4>2. CASE NoJunk(f.recs)
        <5>1. good = f.recs
          BY <4>1, <4>2, ReadableWhole
        <5>2. QED
          BY <4>1, <5>1
      <4>3. CASE ~NoJunk(f.recs)
        <5>1. PICK m \in 1 .. Len(f.recs) :
                 f.recs[m] = Junk /\ \A i \in 1 .. m - 1 : f.recs[i] # Junk
          BY <4>1, <4>3, FirstJunk
        <5>2. good = SubSeq(f.recs, 1, m - 1) /\ m = Len(f.recs)
          BY <4>1, <4>j, <5>1, ReadableUpTo
        <5>3. CASE m = 1
          <6>1. Len(good) \in Nat
            BY <1>3, GoodReading
          <6>2. QED
            BY <4>1, <5>2, <5>3, <6>1
        <5>4. CASE m # 1
          <6>1. \A j \in 1 .. m - 1 : f.recs[j] \in Range(f.recs)
            BY <4>1
          <6>2. Len(good) = m - 1
            BY <4>1, <5>2, <5>4, <6>1, SubSeqProperties
          <6>3. QED
            BY <4>1, <5>2, <6>2
        <5>5. QED
          BY <5>3, <5>4
      <4>4. QED
        BY <4>2, <4>3
    <3>3. Sound(tables, NextOf(good), Saved(good))
      BY <1>3, <1>4, <3>1 DEF OnDisk
    <3>4. Nums(Saved(good)) \subseteq FileNumbers
      BY <3>3 DEF Sound, FileNumbers
    <3>5. QED
      BY <2>1, <3>1, <3>2, <3>4
  <2>3. VersionInv'
    BY <1>1, <1>2, <1>3, <1>5 DEF VersionInv
  <2>4. ReopenInv'
    BY <1>1, <1>3, <2>2 DEF ReopenInv, OpensAgain, TableInv
  <2>5. QED
    BY <1>3, <2>3, <2>4
<1>6. CASE phase' # "corrupt"
  <2>1. /\ good # << >> /\ version' = Saved(good)
        /\ nextFile' = NextOf(good) + 1 /\ phase' = "replay"
    BY <1>6 DEF Recover, NextOf
  <2> HIDE DEF f, good
  <2>2. NextOf(good) \in Nat
    BY <1>3, <1>4, <2>1, ReadingGood
  <2>3. Sound(tables, NextOf(good), Saved(good))
    BY <1>3, <1>4, <2>1 DEF OnDisk
  <2>4. Sound(tables, nextFile', version')
    <3>1. nextFile' \in Nat /\ NextOf(good) <= nextFile'
      BY <2>1, <2>2
    <3>2. QED
      BY <2>1, <2>2, <2>3, <3>1, SoundHigher
  <2>5. Below(nextFile', f)
    <3>1. ASSUME NEW recs \in Readings(f) \ {<< >>} PROVE NextOf(recs) <= nextFile'
      <4>1. NextOf(recs) <= NextOf(good)
        BY <1>3, <3>1 DEF OnDisk, good
      <4>2. NextOf(recs) \in Nat
        BY <1>3, <3>1, ReadingGood
      <4>3. QED
        BY <2>1, <2>2, <4>1, <4>2
    <3>2. QED
      BY <3>1 DEF Below
  <2>6. VersionInv'
    BY <1>1, <1>3, <2>1, <2>4, <2>5 DEF VersionInv, f
  <2>7. QED
    BY <1>1, <1>3, <1>6, <2>6, ReopenKept DEF TableInv
<1>7. QED
  BY <1>5, <1>6

LEMMA TablesReplay ==
  ASSUME TableInv, RecoverLogFile \/ NewLog
  PROVE  VersionInv' /\ BuildInv' /\ ReopenInv'
<1> DEFINE f == manifests[current]
<1>0. Opening
  BY DEF Opening
<1>1. /\ current' = current /\ manifests' = manifests /\ phase = "replay"
      /\ phase' \in {"replay", "describe"}
  BY DEF RecoverLogFile, NewLog
<1>2. current # 0 /\ toReplay \subseteq Nat
  BY <1>1 DEF TableInv, WriteInv, DescriptorInv
<1>3. /\ BuildInv' /\ held' = {} /\ spoilt' = spoilt /\ nextFile \in Nat
      /\ OnDisk(tables, f) /\ GoodFile(current, f) /\ SyncedPart(f)
  BY <1>0, <1>2, WhileOpening
<1>4. Sound(tables, nextFile, version) /\ Below(nextFile, f)
  BY <1>1 DEF TableInv, VersionInv
<1>5. \A recs \in Readings(f) \ {<< >>} : NextOf(recs) \in Nat
  BY <1>3, ReadingGood
<1> HIDE DEF f
<1>6. ASSUME nextFile' \in Nat, nextFile <= nextFile' PROVE Below(nextFile', f)
  BY <1>3, <1>4, <1>5, <1>6 DEF Below
<1>7. ReopenInv'
  BY <1>1, <1>3, ReopenKept DEF TableInv
<1>8. CASE NewLog
  <2>1. tables' = tables /\ version' = version /\ nextFile' = nextFile + 1
    BY <1>8 DEF NewLog, data
  <2>2. nextFile' \in Nat /\ nextFile <= nextFile'
    BY <1>3, <2>1
  <2>3. Sound(tables', nextFile', version') /\ Below(nextFile', f)
    BY <1>3, <1>4, <1>6, <2>1, <2>2, SoundHigher
  <2>4. VersionInv'
    BY <1>1, <1>2, <1>3, <2>1, <2>3 DEF VersionInv, f
  <2>5. QED
    BY <1>3, <1>7, <2>4
<1>9. CASE RecoverLogFile
  <2> DEFINE n == Min(toReplay)
             es == EntriesOf(logs[n].recs)
  <2>1. n \in Nat
    BY <1>2, <1>9, LeastOf DEF RecoverLogFile
  <2>2. /\ es = {} => /\ tables' = tables /\ version' = version
                      /\ nextFile' = MarkFileNumberUsed(nextFile + 0, n)
        /\ es # {} => /\ tables' = Put(tables, nextFile, es)
                      /\ version' = version \cup {<<nextFile, 0>>}
                      /\ nextFile' = MarkFileNumberUsed(nextFile + 1, n)
    BY <1>9 DEF RecoverLogFile
  <2> HIDE DEF n, es
  <2>3. /\ nextFile' \in Nat /\ nextFile <= nextFile'
        /\ es # {} => nextFile < nextFile'
    <3>1. CASE es = {}
      BY <1>3, <2>1, <2>2, <3>1 DEF MarkFileNumberUsed
    <3>2. CASE es # {}
      BY <1>3, <2>1, <2>2, <3>2 DEF MarkFileNumberUsed
    <3>3. QED
      BY <3>1, <3>2
  <2>4. Below(nextFile', f)
    BY <1>6, <2>3
  <2>5. CASE es = {}
    <3>1. Sound(tables', nextFile', version')
      BY <1>3, <1>4, <2>2, <2>3, <2>5, SoundHigher
    <3>2. VersionInv'
      BY <1>1, <1>2, <1>3, <2>2, <2>4, <2>5, <3>1 DEF VersionInv, f
    <3>3. QED
      BY <1>3, <1>7, <3>2
  <2>6. CASE es # {}
    <3>1. /\ tables' = Put(tables, nextFile, es)
          /\ version' = version \cup {<<nextFile, 0>>}
      BY <2>2, <2>6
    <3>2. /\ \A k : k \in Nat /\ k < nextFile => Kept(tables, tables', k)
          /\ nextFile \in DOMAIN tables' /\ tables'[nextFile] = es
      BY <1>3, <3>1 DEF Kept, Put
    <3>3. Sound(tables', nextFile', version)
      <4>1. \A k \in Nums(version) : Kept(tables, tables', k)
        BY <1>4, <3>2 DEF Sound
      <4>2. QED
        BY <1>3, <1>4, <2>3, <4>1, SoundKept, SoundHigher
    <3>4. Sound(tables', nextFile', {<<nextFile, 0>>})
      <4>1. Nums({<<nextFile, 0>>}) = {nextFile}
        BY DEF Nums
      <4>2. QED
        BY <1>3, <2>3, <2>6, <3>2, <4>1 DEF Sound, Partial
    <3>5. Sound(tables', nextFile', version')
      <4>1. version' = (version \ {}) \cup {<<nextFile, 0>>}
        BY <3>1
      <4>2. Sound(tables', nextFile', (version \ {}) \cup {<<nextFile, 0>>})
        BY <3>3, <3>4, SoundApplied
      <4>3. QED
        BY <4>1, <4>2
    <3>6. OnDisk(tables', f)
      <4>1. ASSUME NEW recs \in Readings(f), NEW k, k \in Nums(Saved(recs))
            PROVE  Kept(tables, tables', k)
        <5>1. recs # << >>
          BY <4>1, NothingSaved
        <5>2. /\ NextOf(recs) \in Nat /\ NextOf(recs) <= nextFile
              /\ Sound(tables, NextOf(recs), Saved(recs))
          BY <1>3, <1>4, <1>5, <4>1, <5>1 DEF Below, OnDisk
        <5>3. k \in Nat /\ k < NextOf(recs)
          BY <4>1, <5>2 DEF Sound
        <5>4. QED
          BY <1>3, <3>2, <5>2, <5>3
      <4>2. QED
        BY <1>3, <4>1, OnDiskKept
    <3>7. VersionInv'
      BY <1>1, <1>2, <1>3, <1>9, <2>4, <3>5, <3>6 DEF VersionInv, f, RecoverLogFile
    <3>8. QED
      BY <1>3, <1>7, <3>7
  <2>7. QED
    BY <2>5, <2>6
<1>10. QED
  BY <1>8, <1>9

LEMMA TablesDescribe ==
  ASSUME TableInv, Describe
  PROVE  VersionInv' /\ BuildInv' /\ ReopenInv'
<1>0. Opening
  BY DEF Opening
<1>1. /\ nextFile' = nextFile /\ version' = version /\ lastSeq' = lastSeq
      /\ manifestNum' = manifestNum /\ logNum' = logNum /\ bg' = bg
      /\ phase \in {"describe", "name", "clean"}
  BY DEF Describe, data
<1>2. current # 0
  BY <1>1 DEF TableInv, WriteInv, DescriptorInv
<1>3. /\ BuildInv' /\ held' = {} /\ spoilt' = spoilt /\ nextFile \in Nat
      /\ OnDisk(tables, manifests[current]) /\ current \in Nat
      /\ GoodFile(current, manifests[current]) /\ bg'.pc = "idle"
      /\ SyncedPart(manifests[current]) /\ current \in DOMAIN manifests
  BY <1>0, <1>2, WhileOpening
<1>4. Sound(tables, nextFile, version) /\ Below(nextFile, manifests[current])
  BY <1>1 DEF TableInv, VersionInv
<1>5. CASE phase = "describe"
  <2> DEFINE g == Durably(Appended(EmptyFile, {Edit(version, {}, logNum)}))
  <2>1. /\ manifests' = Put(manifests, manifestNum, g) /\ current' = current
        /\ tables' = tables /\ phase' = "name"
    BY <1>5 DEF Describe
  <2>2. current # manifestNum
    <3>1. current < manifestNum /\ manifestNum \in Nat
      BY <1>5 DEF TableInv, WriteInv, DescriptorInv
    <3>2. QED
      BY <1>3, <3>1
  <2>3. g' = g
    BY <1>1 DEF Edit
  <2>g. Durably(Appended(EmptyFile, {Edit(version, {}, logNum)}))' = g'
    OBVIOUS
  <2> HIDE DEF g
  <2>4. manifests'[current] = manifests[current] /\ manifests'[manifestNum] = g
    BY <1>3, <2>1, <2>2 DEF Put
  <2>5. VersionInv'
    BY <1>1, <1>2, <1>3, <1>4, <2>1, <2>3, <2>4, <2>g DEF VersionInv
  <2>6. QED
    BY <1>3, <2>1, <2>4, <2>5, ReopenKept DEF TableInv
<1>6. CASE phase = "name"
  <2> DEFINE e == Edit(version, {}, logNum)
             h == Appended(EmptyFile, {e})
             f == Durably(h)
  <2>1. /\ manifests' = manifests /\ current' = manifestNum
        /\ tables' = tables /\ phase' = "clean"
    BY <1>6 DEF Describe
  <2>2. manifests[manifestNum] = f
    BY <1>6 DEF TableInv, VersionInv
  <2>3. e.add = version /\ e.del = {} /\ e.next = nextFile
    BY DEF Edit
  <2>4. manifestNum \in Nat /\ manifestNum < nextFile /\ IsFiniteSet(version)
    BY <1>6 DEF TableInv, WriteInv, DescriptorInv
  <2>5. GoodEdit(manifestNum, e)
    BY <1>3, <2>3, <2>4 DEF GoodEdit
  <2>6. f = Synced(h) /\ h = Appended(EmptyFile, {e})
    BY DEF Durably
  <2> HIDE DEF e, h, f
  <2>7. /\ GoodFile(manifestNum, h) /\ OnDisk(tables, h) /\ Below(nextFile, h)
        /\ NoJunk(h.recs) /\ Saved(h.recs) = version
        /\ h.recs # << >> /\ Readable(h.recs) = h.recs
    BY <1>4, <2>3, <2>4, <2>5, <2>6, OneRecord
  <2>8. SyncedPart(h)
    BY <2>7 DEF OnDisk, SyncedPart
  <2>9. /\ f.recs = h.recs /\ SyncedPart(f) /\ Readings(f) = {h.recs}
        /\ h.recs \in Readings(h)
    BY <2>6, <2>7, <2>8, ReadingsSynced, ReadingWhole
  <2>10. OnDisk(tables, f)
    BY <2>7, <2>9, OnDiskOne
  <2>11. Below(nextFile, f)
    BY <2>7, <2>9 DEF Below
  <2>12. VersionInv'
    BY <1>1, <1>3, <1>4, <2>1, <2>2, <2>7, <2>9, <2>10, <2>11 DEF VersionInv
  <2>13. ReopenInv'
    BY <2>1, <2>2, <2>7, <2>9 DEF ReopenInv, OpensAgain, NoJunk
  <2>14. QED
    BY <1>3, <2>12, <2>13
<1>7. CASE phase = "clean"
  <2> DEFINE f == manifests[current]
             live == Live(version)
  <2>1. /\ manifests' = Without(manifests, {n \in DOMAIN manifests : n < manifestNum})
        /\ current' = current /\ phase' = "open"
        /\ tables' = Without(tables, DOMAIN tables \ live)
    BY <1>7 DEF Describe, Collect
  <2>2. current = manifestNum
    BY <1>7 DEF TableInv, WriteInv, DescriptorInv
  <2>3. manifests'[current] = f
    <3>1. ~(current < manifestNum)
      BY <1>3, <2>2
    <3>2. QED
      BY <1>3, <2>1, <3>1 DEF Without, Restrict
  <2>4. Nums(version) \subseteq live
    BY DEF Live
  <2> HIDE DEF live
  <2>5. \A n \in Nums(version) : Kept(tables, tables', n)
    BY <2>1, <2>4 DEF Kept, Without, Restrict
  <2>6. Sound(tables', nextFile, version)
    BY <1>3, <1>4, <2>5, SoundKept
  <2>7. bg.pc = "idle" /\ ~bgError
    BY <1>7 DEF TableInv, WriteInv, WakeInv
  <2>8. /\ Readings(f) = {f.recs} /\ NoJunk(f.recs) /\ Saved(f.recs) = version
    BY <1>7, <2>7 DEF TableInv, VersionInv
  <2> HIDE DEF f
  <2>9. OnDisk(tables', f)
    <3>1. \A recs \in Readings(f) : \A n :
             n \in Nums(Saved(recs)) => Kept(tables, tables', n)
      BY <2>5, <2>8
    <3>2. QED
      BY <1>3, <3>1, OnDiskKept DEF f
  <2>10. VersionInv'
    BY <1>1, <1>3, <1>4, <2>1, <2>3, <2>6, <2>8, <2>9 DEF VersionInv, f
  <2>11. QED
    BY <1>3, <2>1, <2>3, <2>10, ReopenKept DEF TableInv, f
<1>8. QED
  BY <1>1, <1>5, <1>6, <1>7

-----------------------------------------------------------------------------
(* The theorems.                                                           *)

LEMMA TablesStutter ==
  ASSUME TableInv, UNCHANGED vars
  PROVE  VersionInv' /\ BuildInv' /\ ReopenInv'
<1>1. /\ tables' = tables /\ manifests' = manifests /\ current' = current
      /\ phase' = phase /\ version' = version /\ held' = held
      /\ nextFile' = nextFile /\ lastSeq' = lastSeq /\ logNum' = logNum
      /\ manifestNum' = manifestNum /\ bgError' = bgError /\ bg' = bg
      /\ pending' = pending /\ imm' = imm /\ spoilt' = spoilt
  BY DEF vars, disk, control, numbers, data, history
<1>2. VersionInv'
  BY <1>1 DEF TableInv, VersionInv, Edit
<1>3. BuildInv'
  BY <1>1 DEF TableInv, BuildInv, Unused
<1>4. ReopenInv'
  BY <1>1 DEF TableInv, ReopenInv, OpensAgain
<1>5. QED
  BY <1>2, <1>3, <1>4

(* Only an open database takes writes, reads and works in the background.  *)
LEMMA OpenToWork ==
  ASSUME TableInv, Simple \/ Background
  PROVE  phase = "open"
<1>1. CASE Writing
  <2>1. queue # << >>
    BY <1>1 DEF Writing, MakeRoomForWrite, AppendRecord, SyncLog, InsertInto,
       NoLog, AppendFails, SyncFails, At
  <2>2. QED
    BY <2>1 DEF TableInv, WriteInv, WakeInv
<1>2. CASE DeleteIterator
  BY <1>2 DEF DeleteIterator, TableInv, VersionInv
<1>3. CASE Simple /\ ~Writing /\ ~DeleteIterator
  BY <1>3 DEF Simple, NewIterator, Close, Enqueue
<1>4. CASE Background
  <2>1. scheduled
    BY <1>4 DEF Background, NothingToDo, FlushBegins, FlushFails,
       CompactionBegins, FlushBuilt, OpenCompactionOutputFile, FinishCompaction,
       CompactionFails, LogEdit, Apply, LogFails, MayWork, TableInv, WriteInv,
       WakeInv
  <2>2. QED
    BY <2>1 DEF TableInv, WriteInv, WakeInv
<1>5. QED
  BY <1>1, <1>2, <1>3, <1>4

(* A step of an open database: what it does to the writers and to the      *)
(* descriptor CURRENT names.                                               *)
LEMMA AheadWhileOpen ==
  ASSUME TableInv, phase = "open", Simple \/ Background
  PROVE  /\ phase' = phase /\ current' = current /\ (bgError => bgError')
         /\ "descriptor" \in ahead' => "descriptor" \in ahead \/ bgError'
         /\ NoJunk(manifests[current].recs) /\ "descriptor" \notin ahead'
            => "descriptor" \in ahead \/ NoJunk(manifests'[current].recs)
<1> DEFINE f == manifests[current]
<1>1. /\ current = manifestNum /\ current \in DOMAIN manifests /\ current \in Nat
      /\ DOMAIN f = {"recs", "synced"} /\ f.recs \in Seq(Range(f.recs))
  BY WhileOpen, GoodFileHas
<1>2. CASE Simple
  <2>1. CASE Writing
    <3>1. manifests' = manifests /\ current' = current /\ phase' = phase
      BY <2>1 DEF Writing, MakeRoomForWrite, AppendRecord, SyncLog, InsertInto,
         NoLog, AppendFails, SyncFails, disk, control
    <3>2. bgError => bgError'
      BY <2>1 DEF Writing, MakeRoomForWrite, AppendRecord, SyncLog, InsertInto,
         NoLog, AppendFails, SyncFails, control
    <3>3. "descriptor" \in ahead' => "descriptor" \in ahead
      <4>1. ahead' \in {ahead, ahead \ {"log"}, ahead \cup {"log"}}
        <5>1. CASE MakeRoomForWrite
          BY <5>1 DEF MakeRoomForWrite
        <5>2. CASE AppendFails
          BY <5>2 DEF AppendFails
        <5>3. CASE AppendRecord \/ SyncLog \/ InsertInto \/ NoLog \/ SyncFails
          BY <5>3 DEF AppendRecord, SyncLog, InsertInto, NoLog, SyncFails
        <5>4. QED
          BY <2>1, <5>1, <5>2, <5>3 DEF Writing
      <4>2. QED
        BY <4>1
    <3>4. QED
      BY <3>1, <3>2, <3>3
  <2>2. CASE ~Writing
    <3>1. /\ manifests' = manifests /\ current' = current /\ phase' = phase
          /\ ahead' = ahead /\ bgError' = bgError
      BY <1>2, <2>2 DEF Simple, NewIterator, DeleteIterator, Close, Enqueue,
         disk, control
    <3>2. QED
      BY <3>1
  <2>3. QED
    BY <2>1, <2>2
<1>3. CASE Background /\ ~(LogEdit \/ Apply \/ LogFails)
  <2>1. manifests' = manifests /\ current' = current /\ phase' = phase
    BY <1>3 DEF Background, NothingToDo, FlushBegins, FlushFails,
       CompactionBegins, FlushBuilt, OpenCompactionOutputFile, FinishCompaction,
       CompactionFails, disk, control
  <2>2. ahead' = ahead
    BY <1>3 DEF Background, NothingToDo, FlushBegins, FlushFails,
       CompactionBegins, FlushBuilt, OpenCompactionOutputFile, FinishCompaction,
       CompactionFails
  <2>3. bgError' = bgError \/ bgError' = TRUE
    <3>1. CASE NothingToDo \/ FlushBegins \/ CompactionBegins
      BY <3>1 DEF NothingToDo, FlushBegins, CompactionBegins, control
    <3>2. CASE FlushFails \/ CompactionFails \/ \E l \in {0, 1} : FlushBuilt(l)
      BY <3>2 DEF FlushFails, CompactionFails, FlushBuilt, Fail
    <3>3. CASE OpenCompactionOutputFile \/ FinishCompaction
      BY <3>3 DEF OpenCompactionOutputFile, FinishCompaction, control
    <3>4. QED
      BY <1>3, <3>1, <3>2, <3>3 DEF Background
  <2>4. QED
    BY <2>1, <2>2, <2>3
<1>4. CASE LogEdit
  <2>1. /\ phase' = phase /\ current' = current /\ bgError' = bgError
        /\ ahead' = ahead
    BY <1>4 DEF LogEdit, control
  <2>2. PICK file \in Astray("descriptor", f) :
           manifests' = [manifests EXCEPT ![manifestNum] = Appended(file, {bg.edit})]
    BY <1>1, <1>4 DEF LogEdit
  <2>3. "descriptor" \notin ahead => file = f
    BY <2>2 DEF Astray
  <2>4. manifests'[current] = Appended(file, {bg.edit})
    BY <1>1, <2>2
  <2> HIDE DEF f
  <2>5. ASSUME NoJunk(f.recs), "descriptor" \notin ahead
        PROVE  NoJunk(manifests'[current].recs)
    <3>1. PICK x : x = {bg.edit}
      OBVIOUS
    <3>2. manifests'[current].recs = Append(f.recs, x) /\ x # Junk
      BY <1>1, <2>3, <2>4, <2>5, <3>1 DEF Appended, Junk
    <3>3. QED
      BY <1>1, <2>5, <3>2, ReadableAppend
  <2>6. QED
    BY <2>1, <2>5 DEF f
<1>5. CASE Apply
  <2>1. /\ phase' = phase /\ current' = current /\ bgError' = bgError
        /\ ahead' = ahead
    BY <1>5 DEF Apply
  <2> DEFINE synced == [manifests EXCEPT ![manifestNum] = Synced(@)]
  <2>2. \/ manifests' = synced
        \/ manifests' = Without(synced, {n \in DOMAIN manifests : n < manifestNum})
    BY <1>5 DEF Apply
  <2>3. synced[current] = Synced(f) /\ DOMAIN synced = DOMAIN manifests
    BY <1>1
  <2> HIDE DEF synced
  <2>4. manifests'[current] = Synced(f)
    BY <1>1, <2>2, <2>3 DEF Without, Restrict
  <2>5. manifests'[current].recs = f.recs
    BY <1>1, <2>4 DEF Synced
  <2>6. QED
    BY <2>1, <2>5
<1>6. CASE LogFails
  <2>1. phase' = phase /\ current' = current /\ bgError'
    BY <1>6 DEF LogFails, Fail
  <2>2. CASE bg.pc = "log"
    BY <1>6, <2>1, <2>2 DEF LogFails
  <2>3. CASE bg.pc # "log"
    <3>1. manifests' = [manifests EXCEPT ![manifestNum].recs = @ \o << >>]
      BY <1>6, <2>3 DEF LogFails
    <3>2. manifests'[current].recs = f.recs \o << >>
      BY <1>1, <3>1
    <3>3. f.recs \o << >> = f.recs
      BY <1>1, ConcatEmptySeq
    <3>4. QED
      BY <2>1, <3>2, <3>3
  <2>4. QED
    BY <2>2, <2>3
<1>7. QED
  BY <1>2, <1>3, <1>4, <1>5, <1>6 DEF Background

LEMMA AheadStep ==
  ASSUME TableInv, [Next]_vars, WriteInv', VersionInv'
  PROVE  AheadInv'
<1>1. /\ phase # "open" => ahead = {}
      /\ "descriptor" \in ahead => bgError
      /\ phase \in {"clean", "open"} /\ "descriptor" \notin ahead =>
           NoJunk(manifests[current].recs)
  BY DEF TableInv, AheadInv
<1>2. /\ phase' # "open" => ~bgError'
      /\ phase' \in {"clean", "open"} /\ ~bgError' => NoJunk(manifests'[current'].recs)
  BY DEF WriteInv, WakeInv, VersionInv
<1>3. CASE Opening
  <2>1. phase # "open" /\ ahead' \subseteq ahead /\ ~bgError'
    BY <1>3, WhileOpening DEF Opening, Open, NewDB, Recover, RecoverLogFile,
       NewLog, Describe
  <2>2. QED
    BY <1>1, <1>2, <2>1 DEF AheadInv
<1>4. CASE Leaving
  <2>1. ahead' = {} /\ phase' = "down"
    BY <1>4 DEF Leaving, Closed, Crash, PowerLoss, OpenFails, Gone
  <2>2. QED
    BY <2>1 DEF AheadInv
<1>5. CASE (Simple \/ Background) /\ phase = "open"
  <2>1. /\ phase' = phase /\ current' = current /\ (bgError => bgError')
        /\ "descriptor" \in ahead' => "descriptor" \in ahead \/ bgError'
        /\ NoJunk(manifests[current].recs) /\ "descriptor" \notin ahead'
           => "descriptor" \in ahead \/ NoJunk(manifests'[current].recs)
    BY <1>5, AheadWhileOpen
  <2>2. "descriptor" \in ahead => "descriptor" \in ahead'
    BY <1>5 DEF Simple, NewIterator, DeleteIterator, Close, Enqueue, Writing,
       MakeRoomForWrite, AppendRecord, SyncLog, InsertInto, NoLog, AppendFails,
       SyncFails, Background, NothingToDo, FlushBegins, FlushFails,
       CompactionBegins, FlushBuilt, OpenCompactionOutputFile, FinishCompaction,
       CompactionFails, LogEdit, Apply, LogFails
  <2>3. QED
    BY <1>1, <1>5, <2>1, <2>2 DEF AheadInv
<1>6. CASE UNCHANGED vars
  <2>1. /\ phase' = phase /\ ahead' = ahead /\ bgError' = bgError
        /\ manifests' = manifests /\ current' = current
    BY <1>6 DEF vars, disk, control
  <2>2. QED
    BY <1>1, <2>1 DEF AheadInv
<1>7. ASSUME Simple \/ Background PROVE phase = "open"
  BY <1>7, OpenToWork
<1>8. QED
  <2>1. FALSE \in BOOLEAN /\ TRUE \in BOOLEAN
    OBVIOUS
  <2>2. QED
    BY <1>3, <1>4, <1>5, <1>6, <1>7, <2>1 DEF Next, Simple, Leaving

LEMMA VersionStep ==
  ASSUME TableInv, [Next]_vars
  PROVE  VersionInv' /\ BuildInv' /\ ReopenInv'
<1>2. CASE Opening
  BY <1>2, TablesCreate, TablesRecover, TablesReplay, TablesDescribe DEF Opening
<1>3. CASE Leaving
  BY <1>3, TablesLeaving
<1>4. CASE Simple
  BY <1>4, OpenToWork, TablesSimple
<1>5. CASE Background
  <2>1. phase = "open"
    BY <1>5, OpenToWork
  <2>2. CASE FlushFails
    <3>1. 0 \in {0, 1}
      OBVIOUS
    <3>2. QED
      BY <2>1, <2>2, <3>1, TablesFlushEnds
  <2>3. CASE \E l \in {0, 1} : FlushBuilt(l)
    BY <2>1, <2>3, TablesFlushEnds
  <2>4. CASE FlushBegins \/ CompactionBegins
    BY <2>1, <2>4, TablesFlushBegins, TablesBegins
  <2>5. CASE OpenCompactionOutputFile \/ FinishCompaction
    BY <2>1, <2>5, TablesOutput, TablesMerged
  <2>6. CASE NothingToDo \/ CompactionFails
    BY <2>1, <2>6, TablesGiveUp
  <2>7. CASE LogEdit \/ Apply \/ LogFails
    BY <2>1, <2>7, TablesLogEdit, TablesApply, TablesLogFails
  <2>8. QED
    BY <1>5, <2>2, <2>3, <2>4, <2>5, <2>6, <2>7 DEF Background
<1>6. CASE UNCHANGED vars
  BY <1>6, TablesStutter
<1>7. QED
  <2>1. FALSE \in BOOLEAN /\ TRUE \in BOOLEAN
    OBVIOUS
  <2>2. QED
    BY <1>2, <1>3, <1>4, <1>5, <1>6, <2>1 DEF Next, Simple, Leaving

LEMMA TableStep == TableInv /\ [Next]_vars => TableInv'
<1> SUFFICES ASSUME TableInv, [Next]_vars PROVE TableInv'
  OBVIOUS
<1>1. WriteInv'
  BY WriteStep DEF TableInv
<1>2. VersionInv' /\ BuildInv' /\ ReopenInv'
  BY VersionStep
<1>3. AheadInv'
  BY <1>1, <1>2, AheadStep
<1>4. QED
  BY <1>1, <1>2, <1>3 DEF TableInv

(* The versions in memory and every reading of the descriptor on the disk  *)
(* name only tables that are there: the inductive invariant.               *)
THEOREM TablesInvariant == Spec => []TableInv
<1>1. Init => TableInv
  <2> SUFFICES ASSUME Init PROVE TableInv
    OBVIOUS
  <2>1. WriteInv
    BY InitialWrites
  <2>2. VersionInv
    BY DEF Init, VersionInv
  <2>3. BuildInv
    <3>1. bg.pc = "idle" /\ bg.comp = None
      BY DEF Init, Idle
    <3>2. /\ bg.comp.in = {} /\ bg.comp.out = {} /\ bg.comp.base = {}
      BY <3>1 DEF None
    <3>3. Sound(tables, nextFile, {})
      BY NothingSaved DEF Sound
    <3>4. QED
      BY <3>1, <3>2, <3>3 DEF BuildInv
  <2>4. ReopenInv
    BY DEF Init, ReopenInv, OpensAgain
  <2>5. AheadInv
    BY DEF Init, AheadInv
  <2>6. QED
    BY <2>1, <2>2, <2>3, <2>4, <2>5 DEF TableInv
<1>2. QED
  BY <1>1, TableStep, PTL DEF Spec

(* No table of the current version, of an iterator's version or of the     *)
(* compaction's inputs is deleted or half written.                         *)
THEOREM TablesStay == Spec => []TablesThere
<1>1. TableInv => TablesThere
  <2> SUFFICES ASSUME TableInv, phase = "open",
                      NEW n \in Nums(version \cup (UNION held) \cup bg.comp.in)
               PROVE  n \in DOMAIN tables /\ tables[n] # Partial
    BY DEF TablesThere
  <2>1. CASE n \in Nums(version)
    BY <2>1, WhileOpen DEF Sound
  <2>2. CASE \E h \in held : n \in Nums(h)
    BY <2>2 DEF TableInv, VersionInv, Sound
  <2>3. CASE n \in Nums(bg.comp.in)
    <3>1. n \in Nums(bg.comp.base)
      BY <2>3 DEF TableInv, BuildInv, Nums
    <3>2. QED
      BY <3>1 DEF TableInv, BuildInv, Sound
  <2>4. QED
    BY <2>1, <2>2, <2>3 DEF Nums
<1>2. QED
  BY <1>1, TablesInvariant, PTL

(* Whatever crash or power loss came before, DB::Open finds a readable     *)
(* descriptor and all its tables, with the two exceptions of OpensAgain.   *)
THEOREM OpensEveryTime == Spec => []OpensAgain
<1>1. TableInv => OpensAgain
  BY DEF TableInv, ReopenInv
<1>2. QED
  BY <1>1, TablesInvariant, PTL

=============================================================================
