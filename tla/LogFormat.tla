----------------------------- MODULE LogFormat -----------------------------
(***************************************************************************)
(* The format of LevelDB's logs and descriptors                            *)
(* (ios/Pods/leveldb-library: db/log_writer.cc, db/log_reader.cc).         *)
(* A writer cuts records into fragments that fit the blocks of a file; a   *)
(* reader puts them together again, after the file was cut short, damaged, *)
(* or written to by a call that failed half way.                           *)
(* A file is a sequence of bytes, each named by what it belongs to. The    *)
(* checksum is taken to tell every damaged fragment, and every place that  *)
(* is not the start of a fragment.                                         *)
(***************************************************************************)
EXTENDS Integers, Sequences, FiniteSets, SequencesExt

CONSTANTS
  BlockSize,    \* kBlockSize
  HeaderSize,   \* kHeaderSize
  Lengths,      \* the lengths of records
  MaxRecords    \* bound: calls of AddRecord

VARIABLES
  file,      \* the bytes
  blockOff,  \* Writer::block_offset_
  records,   \* for each call of AddRecord: the length, how much is written,
             \* where in the file, whether it is over and returned OK
  damage,    \* what happened to the file: "no", "cut", "flip", "torn", "unread"
  place,     \* where, for "flip"
  rd,        \* the Reader, and the locals of ReadRecord
  out,       \* what ReadRecord returned
  drops      \* calls of Reporter::Corruption

vars == <<file, blockOff, records, damage, place, rd, out, drops>>
writer == <<file, blockOff, records>>

-----------------------------------------------------------------------------
(* Bytes. The first of a header has its type and what the checksum was     *)
(* taken of; a byte of a record has the record and its index.              *)

HeadByte(type, data) ==
  [of |-> "head", type |-> type, rec |-> << >>, data |-> data]
Byte(r, k) == [of |-> "byte", type |-> "", rec |-> <<r, k>>, data |-> << >>]
Filler(name) == [of |-> name, type |-> "", rec |-> << >>, data |-> << >>]
Repeat(b, n) == [i \in 1 .. n |-> b]
Record(r, len) == [k \in 1 .. len |-> Byte(r, k)]

Header(type, data) ==
  <<HeadByte(type, data)>> \o Repeat(Filler("header"), HeaderSize - 1)

FragmentType(begin, end) ==
  CASE begin /\ end  -> "full"
    [] begin /\ ~end -> "first"
    [] ~begin /\ end -> "last"
    [] OTHER         -> "middle"

-----------------------------------------------------------------------------
(* Writer                                                                  *)

NoReader == [pc |-> "none"]

Init ==
  /\ file = << >> /\ blockOff = 0 /\ records = << >>
  /\ damage = "no" /\ place = 0
  /\ rd = NoReader /\ out = << >> /\ drops = 0

Cur == Last(records)
Busy == records # << >> /\ ~Cur.over
Writable == rd = NoReader /\ damage \in {"no", "torn"}

AddRecord(len) ==
  /\ Writable /\ ~Busy /\ Len(records) < MaxRecords
  /\ records' = Append(records, [len |-> len, done |-> 0, at |-> 0, end |-> 0,
                                 over |-> FALSE, ok |-> FALSE])
  /\ UNCHANGED <<file, blockOff, damage, place, rd, out, drops>>

(* What is left of a block that has no room for a header is filled.        *)
Trailer == IF BlockSize - blockOff < HeaderSize THEN BlockSize - blockOff ELSE 0
Start == IF BlockSize - blockOff < HeaderSize THEN 0 ELSE blockOff

Room == BlockSize - Start - HeaderSize

Size == IF Cur.len - Cur.done < Room THEN Cur.len - Cur.done ELSE Room

(* The next fragment of the record, and what goes before it in the file.   *)
Ends == Cur.done + Size = Cur.len
Fragment ==
  LET data == SubSeq(Record(Len(records), Cur.len), Cur.done + 1, Cur.done + Size)
  IN  Header(FragmentType(Cur.done = 0, Ends), data) \o data
Zeros == Repeat(Filler("zero"), Trailer)

(* A turn of AddRecord's loop, in which the file gets these bytes. The     *)
(* place in the block moves on whatever they are.                          *)
Emit(ok, bytes) ==
  /\ file' = file \o bytes
  /\ blockOff' = Start + HeaderSize + Size
  /\ records' = [records EXCEPT ![Len(records)] =
       [len |-> Cur.len, done |-> Cur.done + Size, end |-> Len(file'),
        at |-> IF Cur.done = 0 THEN Len(file) + Trailer ELSE Cur.at,
        over |-> Ends \/ ~ok, ok |-> Ends /\ ok]]

EmitPhysicalRecord ==
  /\ Writable /\ Busy
  /\ Emit(TRUE, Zeros \o Fragment)
  /\ UNCHANGED <<damage, place, rd, out, drops>>

(* The header, the payload or the flush fails, with some of it written; or *)
(* the trailer does, of which nobody takes note.                           *)
Torn ==
  /\ Busy /\ damage = "no"
  /\ \/ \E k \in 0 .. Trailer + HeaderSize + Size :
          Emit(FALSE, SubSeq(Zeros \o Fragment, 1, k))
     \/ \E k \in 0 .. Trailer - 1 :
          Emit(TRUE, SubSeq(Zeros, 1, k) \o Fragment)
  /\ damage' = "torn"
  /\ UNCHANGED <<place, rd, out, drops>>

(* The machine stops: any part of the end of the file is missing.          *)
Cut ==
  /\ rd = NoReader /\ damage = "no"
  /\ \E n \in 0 .. Len(file) : file' = SubSeq(file, 1, n)
  /\ damage' = "cut"
  /\ UNCHANGED <<blockOff, records, place, rd, out, drops>>

(* A byte is not what was written.                                         *)
Flip ==
  /\ rd = NoReader /\ damage = "no" /\ ~Busy
  /\ \E p \in DOMAIN file :
       file' = [file EXCEPT ![p] = Filler("bad")] /\ place' = p
  /\ damage' = "flip"
  /\ UNCHANGED <<blockOff, records, rd, out, drops>>

-----------------------------------------------------------------------------
(* Reader. buffer_ is the part of the file from lo to hi, hi being         *)
(* end_of_buffer_offset_.                                                  *)

ReaderFor(offset) ==
  [pc |-> "call", lo |-> 0, hi |-> 0, pos |-> 0, eof |-> FALSE, last |-> 0,
   initial |-> offset, resyncing |-> offset > 0, inside |-> FALSE,
   scratch |-> << >>, at |-> 0]

OpenReader(offset) ==
  /\ rd = NoReader /\ (Busy => damage = "cut")
  /\ rd' = ReaderFor(offset)
  /\ UNCHANGED <<writer, damage, place, out, drops>>

(* The start of ReadRecord, with SkipToInitialBlock.                       *)
InitialBlock(offset) ==
  LET inBlock == offset % BlockSize
  IN  offset - inBlock
        + (IF inBlock > BlockSize - (HeaderSize - 1) THEN BlockSize ELSE 0)

ReadRecord ==
  /\ rd.pc = "call"
  /\ LET skip == rd.last < rd.initial
         b == InitialBlock(rd.initial)
     IN  rd' = [rd EXCEPT !.pc = "physical", !.inside = FALSE,
                  !.scratch = << >>, !.at = 0,
                  !.hi = IF skip THEN b ELSE @,
                  !.lo = IF skip THEN b - (rd.hi - rd.lo) ELSE @,
                  !.pos = IF skip THEN @ + b ELSE @]
  /\ UNCHANGED <<writer, damage, place, out, drops>>

BufferSize == rd.hi - rd.lo
LeastOf(a, b) == IF a < b THEN a ELSE b

(* ReportDrop. The subtraction of the code is unsigned.                    *)
Reported(lo, bytes) == lo < bytes \/ lo - bytes >= rd.initial

ReadBlock ==
  /\ rd.pc = "physical" /\ BufferSize < HeaderSize /\ ~rd.eof
  /\ LET n == LeastOf(BlockSize, IF rd.pos < Len(file) THEN Len(file) - rd.pos
                                 ELSE 0)
     IN  rd' = [rd EXCEPT !.lo = rd.hi, !.hi = @ + n, !.pos = @ + n,
                          !.eof = n < BlockSize]
  /\ UNCHANGED <<writer, damage, place, out, drops>>

ReadFails ==
  /\ rd.pc = "physical" /\ BufferSize < HeaderSize /\ ~rd.eof /\ damage = "no"
  /\ rd' = [rd EXCEPT !.lo = @ + BufferSize, !.eof = TRUE, !.pc = "end"]
  /\ damage' = "unread"
  /\ drops' = IF Reported(rd.hi, BlockSize) THEN drops + 1 ELSE drops
  /\ UNCHANGED <<writer, place, out>>

(* What ReadPhysicalRecord may return, and whether it reports a drop.      *)
IsHeader(p) == /\ file[p].of = "head"
               /\ \A i \in p + 1 .. p + HeaderSize - 1 : file[i].of = "header"
Res(type, data, lo, drop) ==
  [type |-> type, data |-> data, lo |-> lo, drop |-> drop]

Trusted(data, got) == TRUE
Checked(data, got) == data = got

Results ==
  LET p == rd.lo + 1
      data == file[p].data
      end == rd.lo + HeaderSize + Len(data)
      bad == Res("bad", << >>, rd.hi, TRUE)
      eof == Res("eof", << >>, rd.hi, FALSE)
  IN  IF BufferSize < HeaderSize THEN {eof}
      ELSE IF ~IsHeader(p)
        THEN {bad, [bad EXCEPT !.drop = FALSE]} \cup (IF rd.eof THEN {eof} ELSE {})
      ELSE IF end > rd.hi THEN IF rd.eof THEN {eof} ELSE {bad}
      ELSE IF ~Checked(data, SubSeq(file, rd.lo + HeaderSize + 1, end)) THEN {bad}
      ELSE IF rd.lo < rd.initial THEN {Res("bad", << >>, end, FALSE)}
      ELSE {Res(file[p].type, SubSeq(file, rd.lo + HeaderSize + 1, end), end,
                FALSE)}

(* The body of ReadRecord's loop for a physical record.                    *)
Returns(r, at, data, n) ==
  /\ out' = Append(out, data)
  /\ rd' = [r EXCEPT !.pc = "call", !.last = at]
  /\ drops' = drops + n
GoesOn(r, n) == rd' = r /\ drops' = drops + n /\ UNCHANGED out

Drop(lo, bytes) == IF Reported(lo, bytes) THEN 1 ELSE 0

Switch(r, x, at, n) ==
  LET partial == n + (IF r.inside /\ r.scratch # << >>
                      THEN Drop(r.lo, Len(r.scratch)) ELSE 0)
      joined  == r.scratch \o x.data
      missing == n + Drop(r.lo, Len(x.data))
  IN  CASE x.type = "full"  -> Returns(r, at, x.data, partial)
        [] x.type = "first" -> GoesOn([r EXCEPT !.at = at, !.scratch = x.data,
                                                !.inside = TRUE], partial)
        [] x.type = "middle" /\ r.inside ->
             GoesOn([r EXCEPT !.scratch = joined], n)
        [] x.type = "last" /\ r.inside -> Returns(r, r.at, joined, n)
        [] x.type \in {"middle", "last"} /\ ~r.inside -> GoesOn(r, missing)
        [] x.type = "eof" -> GoesOn([r EXCEPT !.pc = "end"], n)
        [] x.type = "bad" ->
             GoesOn([r EXCEPT !.inside = FALSE, !.scratch = << >>],
                    n + (IF r.inside THEN Drop(r.lo, Len(r.scratch)) ELSE 0))

ReadPhysicalRecord ==
  /\ rd.pc = "physical" /\ (BufferSize >= HeaderSize \/ rd.eof)
  /\ \E x \in Results :
       LET r == [rd EXCEPT !.lo = x.lo,
                   !.resyncing = @ /\ x.type = "middle"]
           n == IF x.drop THEN Drop(rd.hi, BufferSize) ELSE 0
       IN  IF rd.resyncing /\ x.type \in {"middle", "last"} THEN GoesOn(r, n)
           ELSE Switch(r, x, x.lo - HeaderSize - Len(x.data), n)
  /\ UNCHANGED <<writer, damage, place>>

Next ==
  \/ \E len \in Lengths : AddRecord(len)
  \/ EmitPhysicalRecord \/ Torn \/ Cut \/ Flip
  \/ \E o \in 0 .. Len(file) : (o > 0 => damage = "no") /\ OpenReader(o)
  \/ ReadRecord \/ ReadBlock \/ ReadFails \/ ReadPhysicalRecord

-----------------------------------------------------------------------------
(* Properties.                                                             *)

Block(p) == p \div BlockSize

(* The records that nothing has happened to.                               *)
Whole(i) ==
  /\ records[i].ok /\ records[i].at >= rd.initial
  /\ damage \in {"no", "cut", "flip"}
  /\ damage = "cut" => records[i].end <= Len(file)
  /\ damage = "flip" => Block(place - 1) \notin
                          Block(records[i].at) .. Block(records[i].end - 1)

(* Reading a log returns records as they were written and in their order,  *)
(* never a mixture of two and never part of one. It returns every record   *)
(* that begins at the initial offset or later and shares no block with a   *)
(* damaged byte; of a file that was only cut short it returns exactly the  *)
(* records it still holds whole, and reports nothing (log_reader.cc:56-174;*)
(* "Don't report a corruption", log_reader.cc:229-231).                    *)
LogReadsBack ==
  rd.pc = "end" =>
    LET whole == {i \in DOMAIN records : Whole(i)}
    IN  /\ \E S \in SUBSET DOMAIN records :
             /\ whole \subseteq S
             /\ damage \in {"no", "cut"} => S = whole
             /\ out = [k \in 1 .. Cardinality(S) |->
                         LET i == SetToSortSeq(S, <)[k]
                         IN  Record(i, records[i].len)]
        /\ rd.initial = 0 /\ damage \in {"no", "cut"} => drops = 0
        /\ rd.initial = 0 /\ damage = "unread" => drops > 0

=============================================================================
