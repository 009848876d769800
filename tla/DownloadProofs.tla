-------------------------- MODULE DownloadProofs --------------------------
(***************************************************************************)
(* Proofs about the set-up screen, for every archive, with or without      *)
(* faults, and every number of presses and of killed processes.            *)
(***************************************************************************)
EXTENDS Download, TLAPS, SequenceTheorems, FiniteSetTheorems

-----------------------------------------------------------------------------
(* Facts about the list and about counting downloads.                      *)

(* One entry more in a list of the first n.                                *)
LEMMA NextInOrder ==
  ASSUME NEW n \in Nat, NEW s, s = [i \in 1 .. n |-> i]
  PROVE  Append(s, n + 1) = [i \in 1 .. n + 1 |-> i]
<1>1. s \in Seq(Nat) /\ Len(s) = n
  <2>1. s \in [1 .. n -> Nat]
    OBVIOUS
  <2>2. s \in Seq(Nat)
    BY <2>1, SeqDef
  <2>3. QED
    BY <2>2, LenProperties
<1>2. /\ Append(s, n + 1) \in Seq(Nat) /\ Len(Append(s, n + 1)) = n + 1
      /\ \A i \in 1 .. n : Append(s, n + 1)[i] = s[i]
      /\ Append(s, n + 1)[n + 1] = n + 1
  BY <1>1, AppendProperties
<1>3. Append(s, n + 1) = [i \in 1 .. n + 1 |-> Append(s, n + 1)[i]]
  BY <1>2, LenProperties
<1>4. \A i \in 1 .. n + 1 : Append(s, n + 1)[i] = i
  BY <1>2
<1>5. QED
  BY <1>3, <1>4

(* Two different downloads are more than one.                              *)
LEMMA AtMostOne ==
  ASSUME NEW S \in SUBSET Downloads, Cardinality(S) <= 1,
         NEW d \in S, NEW e \in S
  PROVE  d = e
<1>1. SUFFICES ASSUME d # e PROVE FALSE
  OBVIOUS
<1>2. IsFiniteSet(S)
  <2>1. 1 \in Int /\ MaxPresses \in Int
    BY RequestsAssumption
  <2>2. IsFiniteSet(1 .. MaxPresses)
    BY <2>1, FS_Interval
  <2>3. QED
    BY <2>2, FS_Subset DEF Downloads
<1>3. IsFiniteSet({d}) /\ Cardinality({d}) = 1
  BY FS_Singleton
<1>4. Cardinality({d} \cup {e}) = 2
  BY <1>1, <1>3, FS_AddElement
<1>5. Cardinality({d} \cup {e}) <= Cardinality(S) /\ Cardinality(S) \in Nat
  BY <1>2, FS_Subset, FS_CardinalityType
<1>6. QED
  BY <1>4, <1>5

-----------------------------------------------------------------------------
(* Types.                                                                  *)

(* A new set-up screen has listed nothing.                                 *)
LEMMA InitOK == Init => DownloadInv
<1> SUFFICES ASSUME Init PROVE DownloadInv
  OBVIOUS
<1>1. zipPath \in BOOLEAN /\ dir \in BOOLEAN /\ clicked \in BOOLEAN
      /\ c_vis \in BOOLEAN /\ downloading \in BOOLEAN
  BY Zenon DEF Init
<1>2. TypeOK
  BY <1>1, EmptySeq, RequestsAssumption, ArchiveAssumption DEF Init, TypeOK
<1>3. Progress
  BY RequestsAssumption DEF Init, Progress
<1>4. OfferedByEnd
  BY DEF Init, OfferedByEnd
<1>5. SoleInOrder
  BY DEF Init, SoleInOrder, Sole
<1>6. QED
  BY <1>2, <1>3, <1>4, <1>5 DEF DownloadInv

(* Listing the next entry or finishing keeps the types of what it writes.  *)
LEMMA AdvanceOK ==
  ASSUME TypeOK, NEW d \in Downloads, Advance(d)
  PROVE  /\ images' \in Seq(Entries) /\ names' \in Seq(Entries)
         /\ at' \in [Downloads -> 0 .. NumEntries]
         /\ pc' \in [Downloads -> {"idle", "get", "save", "named", "create",
                                   "write", "over", "failed"}]
         /\ downloading' \in BOOLEAN
<1>1. downloading' \in BOOLEAN
  BY Zenon DEF Advance, List, Finished, TypeOK
<1>2. CASE MoreEntries(d) /\ List(d, NextEntry(d))
  <2>1. NextEntry(d) \in Entries
    BY <1>2, ArchiveAssumption DEF MoreEntries, NextEntry, Entries, TypeOK
  <2>2. Append(images, NextEntry(d)) \in Seq(Entries)
    BY <2>1, AppendProperties DEF TypeOK
  <2>3. QED
    BY <1>1, <1>2, <2>1, <2>2 DEF List, TypeOK, Entries
<1>3. CASE pc' = [pc EXCEPT ![d] = "over"] /\ UNCHANGED <<images, names, at>>
  BY <1>1, <1>3 DEF TypeOK
<1>4. QED
  BY <1>2, <1>3 DEF Advance

(* Every step keeps every variable in its type.                            *)
LEMMA TypeStep == TypeOK /\ Progress /\ [Next]_vars => TypeOK'
<1> SUFFICES ASSUME TypeOK, Progress, [Next]_vars PROVE TypeOK'
  OBVIOUS
<1>1. /\ zipPath' \in BOOLEAN /\ dir' \in BOOLEAN /\ clicked' \in BOOLEAN
      /\ c_vis' \in BOOLEAN
  <2>1. CASE Restart
    BY <2>1, Zenon DEF Restart
  <2>2. CASE DirArrives
    BY <2>2, Zenon DEF DirArrives, TypeOK
  <2>3. CASE Continue
    BY <2>3, Zenon DEF Continue, TypeOK
  <2>4. CASE UrlArrives
    <3>1. zipPath' = (data' > 1) /\ (data' > 1) \in BOOLEAN
      BY <2>4 DEF UrlArrives
    <3>2. zipPath' \in BOOLEAN
      BY <3>1, Zenon
    <3>3. QED
      BY <2>4, <3>2, Zenon DEF UrlArrives, TypeOK
  <2>5. CASE UNCHANGED <<zipPath, dir, clicked, c_vis>>
    BY <2>5, Zenon DEF TypeOK
  <2>6. QED
    BY <2>1, <2>2, <2>3, <2>4, <2>5
       DEF Next, UrlFails, Resume, GetDone, GetFails, Fail, SaveDone,
       DecodeFails, NamedDirectory, NamedFile, Created, Written, WriteFails,
       Build, NextTap, NextDone, vars, fields
<1>2. presses \in Nat /\ fetching \in Nat /\ MaxPresses \in Nat
      /\ fetching <= presses /\ restarts \in Nat /\ MaxRestarts \in Nat
  BY RequestsAssumption DEF TypeOK, Progress
<1>3. CASE Restart
  <2>1. downloading' \in BOOLEAN
    BY <1>3, Zenon DEF Restart
  <2>2. images' \in Seq(Entries)
    BY <1>3, EmptySeq DEF Restart
  <2>3. restarts' \in 0 .. MaxRestarts
    BY <1>2, <1>3 DEF Restart
  <2>4. QED
    BY <1>1, <1>2, <1>3, <2>1, <2>2, <2>3, ArchiveAssumption
       DEF Restart, TypeOK, stored
<1>4. CASE DirArrives
  BY <1>1, <1>4 DEF DirArrives, TypeOK, calls, stored
<1>5. CASE Continue
  <2>1. downloading' \in BOOLEAN
    BY <1>5, Zenon DEF Continue, SpinnerShown
  <2>2. presses + 1 \in Downloads
    BY <1>2, <1>5 DEF Continue, Downloads
  <2>3. presses' \in 0 .. MaxPresses /\ fetching' \in 0 .. MaxPresses
    BY <1>2, <1>5 DEF Continue
  <2>4. QED
    BY <1>1, <1>5, <2>1, <2>2, <2>3 DEF Continue, TypeOK, stored
<1>6. CASE UrlArrives \/ UrlFails
  <2>1. fetching' \in 0 .. MaxPresses /\ data' \in Nat
    BY <1>2, <1>6 DEF UrlArrives, UrlFails, TypeOK, fields
  <2>2. QED
    BY <1>1, <1>6, <2>1 DEF UrlArrives, UrlFails, TypeOK, fields, stored
<1>7. ASSUME NEW d \in Downloads, Fail(d) PROVE TypeOK'
  BY <1>7 DEF Fail, TypeOK, fields, stored
<1>8. ASSUME NEW d \in Downloads, GetDone(d) \/ NamedFile(d) PROVE TypeOK'
  BY <1>8 DEF GetDone, NamedFile, TypeOK, fields, stored
<1>9. ASSUME NEW d \in Downloads, SaveDone(d) \/ NamedDirectory(d)
      PROVE  TypeOK'
  <2>1. Advance(d)
    BY <1>9 DEF SaveDone, NamedDirectory
  <2>2. QED
    BY <1>1, <1>9, <2>1, AdvanceOK DEF SaveDone, NamedDirectory, TypeOK
<1>10. ASSUME NEW d \in Downloads, Created(d) PROVE TypeOK'
  BY <1>10 DEF Created, TypeOK, fields
<1>11. ASSUME NEW d \in Downloads, Written(d) PROVE TypeOK'
  <2>1. full' \subseteq Entries \ Directories
    <3>1. at[d] \in Entries \ Directories
      BY <1>11 DEF Written, Progress, TypeOK, Entries
    <3>2. QED
      BY <1>11, <3>1 DEF Written, TypeOK
  <2>2. Advance(d)
    BY <1>11 DEF Written
  <2>3. QED
    BY <1>1, <1>11, <2>1, <2>2, AdvanceOK DEF Written, TypeOK
<1>12. CASE Build
  BY <1>12 DEF Build, Frame, TypeOK, fields, calls, stored
<1>13. CASE NextTap \/ NextDone
  BY <1>13 DEF NextTap, NextDone, TypeOK, fields, stored
<1>14. CASE UNCHANGED vars
  BY <1>14 DEF vars, TypeOK, fields, calls, stored
<1>15. QED
  BY <1>3, <1>4, <1>5, <1>6, <1>7, <1>8, <1>9, <1>10, <1>11, <1>12, <1>13,
     <1>14 DEF Next, Resume, GetFails, DecodeFails, WriteFails

-----------------------------------------------------------------------------
(* How far each download is.                                               *)

(* Advance moves one download to "named" at the next entry, or to "over"   *)
(* at the last.                                                            *)
LEMMA AdvanceMoves ==
  ASSUME TypeOK, NEW d \in Downloads, Advance(d)
  PROVE  /\ \A e \in Downloads \ {d} : pc'[e] = pc[e] /\ at'[e] = at[e]
         /\ \/ /\ pc'[d] = "named" /\ at'[d] = at[d] + 1
               /\ at[d] < NumEntries
            \/ /\ pc'[d] = "over" /\ at'[d] = NumEntries
               /\ at[d] = NumEntries
<1>1. /\ at \in [Downloads -> 0 .. NumEntries] /\ at[d] \in 0 .. NumEntries
      /\ DOMAIN pc = Downloads /\ NumEntries \in Nat
  BY ArchiveAssumption DEF TypeOK
<1>2. CASE MoreEntries(d) /\ List(d, NextEntry(d))
  BY <1>1, <1>2 DEF MoreEntries, List, NextEntry
<1>3. CASE /\ ~MoreEntries(d) /\ pc' = [pc EXCEPT ![d] = "over"]
           /\ UNCHANGED <<images, names, at>>
  BY <1>1, <1>3 DEF MoreEntries
<1>4. QED
  BY <1>2, <1>3 DEF Advance

(* Every step keeps Progress.                                              *)
LEMMA ProgressStep == TypeOK /\ Progress /\ [Next]_vars => Progress'
<1> SUFFICES ASSUME TypeOK, Progress, [Next]_vars PROVE Progress'
  OBVIOUS
<1>1. /\ presses \in Nat /\ fetching \in Nat /\ MaxPresses \in Nat
      /\ at \in [Downloads -> 0 .. NumEntries] /\ DOMAIN pc = Downloads
      /\ NumEntries \in Nat \ {0} /\ Downloads \subseteq Nat
  BY RequestsAssumption, ArchiveAssumption DEF TypeOK, Downloads
<1>2. CASE Restart
  BY <1>1, <1>2 DEF Restart, Progress
<1>3. CASE Continue
  <2>1. presses + 1 \in Downloads /\ pc[presses + 1] = "idle"
        /\ at[presses + 1] = 0
    <3>1. presses + 1 \in Downloads /\ presses + 1 > presses
      BY <1>1, <1>3 DEF Continue, Downloads
    <3>2. QED
      BY <3>1 DEF Progress
  <2>2. fetching' <= presses'
    BY <1>1, <1>3 DEF Continue, Progress
  <2>3. ASSUME NEW d \in Downloads, d # presses + 1
        PROVE  pc'[d] = pc[d] /\ at'[d] = at[d] /\ (d > presses' => d > presses)
    BY <1>1, <1>3, <2>3 DEF Continue
  <2>4. pc'[presses + 1] \in {"get", "failed"} /\ at'[presses + 1] = 0
        /\ ~(presses + 1 > presses')
    BY <1>1, <1>3, <2>1 DEF Continue
  <2>5. QED
    BY <2>2, <2>3, <2>4 DEF Progress
<1>4. CASE UrlArrives \/ UrlFails
  BY <1>1, <1>4 DEF UrlArrives, UrlFails, Progress
<1>5. ASSUME NEW d \in Downloads, Fail(d), pc[d] # "idle" PROVE Progress'
  BY <1>1, <1>5 DEF Fail, Progress
<1>6. ASSUME NEW d \in Downloads, GetDone(d) \/ NamedFile(d) \/ Created(d)
      PROVE  Progress'
  BY <1>1, <1>6 DEF GetDone, NamedFile, Created, Progress
<1>7. ASSUME NEW d \in Downloads, SaveDone(d) \/ NamedDirectory(d) \/ Written(d)
      PROVE  Progress'
  <2>1. Advance(d) /\ presses' = presses /\ fetching' = fetching
        /\ pc[d] # "idle"
    BY <1>7 DEF SaveDone, NamedDirectory, Written
  <2>2. at[d] \in Nat /\ ~(d > presses)
    BY <1>1, <2>1 DEF Progress
  <2>3. /\ \A e \in Downloads \ {d} : pc'[e] = pc[e] /\ at'[e] = at[e]
        /\ \/ /\ pc'[d] = "named" /\ at'[d] = at[d] + 1
           \/ /\ pc'[d] = "over" /\ at'[d] = NumEntries
    BY <2>1, AdvanceMoves
  <2>4. at'[d] > 0 /\ pc'[d] \in {"named", "over"}
        /\ (pc'[d] = "over" => at'[d] = NumEntries)
    BY <1>1, <2>2, <2>3
  <2>5. \A e \in Downloads : e = d \/ (pc'[e] = pc[e] /\ at'[e] = at[e])
    BY <2>3
  <2>6. QED
    BY <2>1, <2>2, <2>4, <2>5 DEF Progress
<1>8. CASE UNCHANGED <<pc, at, presses, fetching>>
  BY <1>8 DEF Progress
<1>9. QED
  BY <1>2, <1>3, <1>4, <1>5, <1>6, <1>7, <1>8
     DEF Next, Resume, DirArrives, GetFails, DecodeFails, WriteFails, Build,
     NextTap, NextDone, vars, calls

-----------------------------------------------------------------------------
(* Next is offered by a finished download.                                 *)

(* A download that is over stays over until the process is killed.         *)
LEMMA OverStays ==
  ASSUME TypeOK, Progress, [Next]_vars, ~Restart,
         NEW o \in Downloads, pc[o] = "over"
  PROVE  pc'[o] = "over"
<1>1. DOMAIN pc = Downloads /\ presses \in Nat /\ Downloads \subseteq Nat
      /\ (o > presses => pc[o] = "idle")
  BY RequestsAssumption DEF TypeOK, Progress, Downloads
<1>2. CASE Continue
  <2>1. o # presses + 1
    BY <1>1
  <2>2. QED
    BY <1>1, <1>2, <2>1 DEF Continue
<1>3. ASSUME NEW d \in Downloads, Resume(d) PROVE pc'[o] = "over"
  <2>1. pc[d] # "over" /\ \E x : pc' = [pc EXCEPT ![d] = x]
    BY <1>3 DEF Resume, GetDone, GetFails, Fail, SaveDone, DecodeFails,
       NamedDirectory, NamedFile, Created, Written, WriteFails, Advance, List
  <2>2. QED
    BY <1>1, <2>1
<1>4. CASE UNCHANGED pc
  BY <1>4
<1>5. QED
  BY <1>2, <1>3, <1>4
     DEF Next, DirArrives, UrlArrives, UrlFails, Build, NextTap, NextDone,
     vars, calls

(* Every step keeps OfferedByEnd.                                          *)
LEMMA OfferedStep ==
  TypeOK /\ Progress /\ OfferedByEnd /\ [Next]_vars => OfferedByEnd'
<1> SUFFICES ASSUME TypeOK, Progress, OfferedByEnd, [Next]_vars
             PROVE  OfferedByEnd'
  OBVIOUS
<1>1. presses \in Nat
  BY DEF TypeOK
<1>2. CASE Restart
  BY <1>2 DEF Restart, OfferedByEnd, stored
<1>3. ASSUME ~Restart
      PROVE  (\E d \in Downloads : pc[d] = "over")
               => \E d \in Downloads : pc'[d] = "over"
  BY <1>3, OverStays
<1>4. CASE Continue
  <2>1. presses' > 0 /\ downloading' /\ UNCHANGED <<built, nextPc, check>>
    BY <1>1, <1>4 DEF Continue, SpinnerShown, stored
  <2>2. ~Restart
    BY <1>1, <1>4 DEF Continue, Restart
  <2>3. QED
    BY <1>3, <2>1, <2>2 DEF OfferedByEnd
<1>5. ASSUME NEW d \in Downloads, Advance(d), ~Restart,
             UNCHANGED <<c_vis, presses, built, nextPc, check>>
      PROVE  OfferedByEnd'
  <2>1. CASE downloading' = downloading
    BY <1>3, <1>5, <2>1 DEF OfferedByEnd
  <2>2. CASE pc' = [pc EXCEPT ![d] = "over"]
    BY <1>5, <2>2 DEF OfferedByEnd, TypeOK
  <2>3. QED
    BY <1>5, <2>1, <2>2 DEF Advance, List
<1>6. ASSUME NEW d \in Downloads, ~Restart,
             SaveDone(d) \/ NamedDirectory(d) \/ Written(d)
      PROVE  OfferedByEnd'
  BY <1>5, <1>6 DEF SaveDone, NamedDirectory, Written
<1>7. CASE Build /\ ~Restart
  <2>1. built' = "Next" => ~c_vis /\ ~downloading
    BY <1>7 DEF Build, Frame, TypeOK
  <2>2. QED
    BY <1>3, <1>7, <2>1 DEF Build, OfferedByEnd, fields, calls, stored
<1>8. CASE (NextTap \/ NextDone) /\ ~Restart
  BY <1>3, <1>8 DEF NextTap, NextDone, OfferedByEnd, fields, stored
<1>9. CASE ~Restart /\ UNCHANGED <<c_vis, presses, downloading, built, nextPc,
                                   check>>
  BY <1>3, <1>9 DEF OfferedByEnd
<1>10. QED
  BY <1>2, <1>4, <1>6, <1>7, <1>8, <1>9
     DEF Next, Resume, DirArrives, UrlArrives, UrlFails, GetDone, GetFails,
     Fail, DecodeFails, NamedFile, Created, WriteFails, vars, fields, calls,
     stored

-----------------------------------------------------------------------------
(* One download at a time.                                                 *)

(* A step that lists nothing, ends nothing and keeps the files.            *)
LEMMA SoleKept ==
  ASSUME SoleInOrder, UNCHANGED <<images, names, full, at>>,
         \A d \in Downloads : pc'[d] = "over" => pc[d] = "over"
  PROVE  SoleInOrder'
BY DEF SoleInOrder, Sole

(* Listing the next entry, or finishing, once the entry is unpacked.       *)
LEMMA SoleAdvance ==
  ASSUME TypeOK, SoleInOrder, NEW d \in Downloads, Advance(d),
         full \subseteq full',
         at[d] = 0 \/ at[d] \in Directories \/ at[d] \in full'
  PROVE  SoleInOrder'
<1>1. /\ at \in [Downloads -> 0 .. NumEntries] /\ at[d] \in Nat
      /\ NumEntries \in Nat \ {0} /\ Entries \subseteq Nat
  BY ArchiveAssumption DEF TypeOK, Entries
<1>2. /\ \A e \in Downloads \ {d} : at'[e] = at[e]
      /\ at'[d] > 0 /\ at'[d] >= at[d]
  BY <1>1, AdvanceMoves
<1>3. \A e \in Downloads : Sole(e)' => e = d
  BY <1>2 DEF Sole
<1>4. SUFFICES ASSUME Sole(d)'
               PROVE  /\ images' = [i \in 1 .. at'[d] |-> i]
                      /\ names' = images'
                      /\ \A e \in Entries \ Directories :
                           e < at'[d] \/ (e = at'[d] /\ pc'[d] = "over")
                             => e \in full'
  BY <1>2, <1>3 DEF SoleInOrder
<1>5. \A e \in Downloads \ {d} : at[e] = 0
  BY <1>1, <1>2, <1>4 DEF Sole
<1>6. images = [i \in 1 .. at[d] |-> i] /\ (at[d] > 0 => names = images)
  <2>1. CASE at[d] = 0
    <3>1. images = << >>
      BY <1>5, <2>1 DEF SoleInOrder
    <3>2. [i \in 1 .. 0 |-> i] = << >>
      OBVIOUS
    <3>3. QED
      BY <2>1, <3>1, <3>2
  <2>2. CASE at[d] > 0
    BY <1>5, <2>2 DEF SoleInOrder, Sole
  <2>3. QED
    BY <1>1, <2>1, <2>2
<1>7. \A e \in Entries \ Directories : e <= at[d] => e \in full'
  <2>1. SUFFICES ASSUME NEW e \in Entries \ Directories, e <= at[d]
                 PROVE  e \in full'
    OBVIOUS
  <2>2. e \in Nat /\ e > 0 /\ at[d] > 0
    BY <1>1, <2>1 DEF Entries
  <2>3. CASE e = at[d]
    BY <2>2, <2>3
  <2>4. CASE e < at[d]
    BY <1>5, <2>2, <2>4 DEF SoleInOrder, Sole
  <2>5. QED
    BY <1>1, <2>1, <2>2, <2>3, <2>4
<1>8. CASE MoreEntries(d) /\ List(d, NextEntry(d))
  <2>1. images' = Append(images, at[d] + 1) /\ names' = images'
        /\ at'[d] = at[d] + 1 /\ pc'[d] = "named"
    BY <1>1, <1>8 DEF List, NextEntry, TypeOK
  <2>2. images' = [i \in 1 .. at[d] + 1 |-> i]
    BY <1>1, <1>6, <2>1, NextInOrder
  <2>3. \A e \in Entries : e < at[d] + 1 => e <= at[d]
    BY <1>1
  <2>4. \A e \in Entries \ Directories :
          e < at'[d] \/ (e = at'[d] /\ pc'[d] = "over") => e \in full'
    BY <1>7, <2>1, <2>3
  <2>5. QED
    BY <2>1, <2>2, <2>4
<1>9. CASE ~MoreEntries(d) /\ UNCHANGED <<images, names, at>>
  <2>1. at[d] > 0
    BY <1>2, <1>9
  <2>2. QED
    BY <1>1, <1>6, <1>7, <1>9, <2>1
<1>10. QED
  BY <1>8, <1>9 DEF Advance

(* Every step keeps SoleInOrder.                                           *)
LEMMA SoleStep ==
  TypeOK /\ Progress /\ SoleInOrder /\ [Next]_vars => SoleInOrder'
<1> SUFFICES ASSUME TypeOK, Progress, SoleInOrder, [Next]_vars
             PROVE  SoleInOrder'
  OBVIOUS
<1>1. DOMAIN pc = Downloads /\ at \in [Downloads -> Nat]
      /\ Entries \subseteq Nat
  BY ArchiveAssumption DEF TypeOK, Entries
<1>2. CASE Restart
  BY <1>2 DEF Restart, SoleInOrder, Sole
<1>3. CASE Continue
  <2>1. \A d \in Downloads : pc'[d] = "over" => pc[d] = "over"
    BY <1>1, <1>3 DEF Continue
  <2>2. QED
    BY <1>3, <2>1, SoleKept DEF Continue, stored
<1>4. ASSUME NEW d \in Downloads, Fail(d) \/ GetDone(d) \/ NamedFile(d)
      PROVE  SoleInOrder'
  <2>1. \A e \in Downloads : pc'[e] = "over" => pc[e] = "over"
    BY <1>1, <1>4 DEF Fail, GetDone, NamedFile
  <2>2. QED
    BY <1>4, <2>1, SoleKept DEF Fail, GetDone, NamedFile, fields, stored
<1>5. ASSUME NEW d \in Downloads, Created(d) PROVE SoleInOrder'
  <2>1. /\ at[d] > 0 /\ full' = full \ {at[d]} /\ pc'[d] = "write"
        /\ UNCHANGED <<images, names, at>>
    BY <1>1, <1>5 DEF Created, Progress, fields
  <2>2. \A e \in Downloads : Sole(e)' => e = d /\ Sole(d)
    BY <2>1 DEF Sole
  <2>3. \A e \in Entries \ Directories : e < at[d] => e # at[d]
    BY <1>1
  <2>4. QED
    BY <2>1, <2>2, <2>3 DEF SoleInOrder
<1>6. ASSUME NEW d \in Downloads, SaveDone(d) \/ NamedDirectory(d) \/ Written(d)
      PROVE  SoleInOrder'
  <2>1. /\ Advance(d) /\ full \subseteq full'
        /\ at[d] = 0 \/ at[d] \in Directories \/ at[d] \in full'
    BY <1>6 DEF SaveDone, NamedDirectory, Written, Progress
  <2>2. QED
    BY <2>1, SoleAdvance
<1>7. CASE UNCHANGED <<images, names, full, at, pc>>
  BY <1>7, SoleKept
<1>8. QED
  BY <1>2, <1>3, <1>4, <1>5, <1>6, <1>7
     DEF Next, Resume, DirArrives, UrlArrives, UrlFails, GetFails,
     DecodeFails, WriteFails, Build, NextTap, NextDone, vars, fields, calls,
     stored

-----------------------------------------------------------------------------
(* The theorems.                                                           *)

(* Whatever fails, wherever the process is killed and however many presses *)
(* are under way (imagedownload.dart:60-111), DownloadInv holds.           *)
THEOREM Invariant == Spec => []DownloadInv
<1>1. DownloadInv /\ [Next]_vars => DownloadInv'
  BY TypeStep, ProgressStep, OfferedStep, SoleStep DEF DownloadInv
<1>2. QED
  BY <1>1, InitOK, PTL DEF Spec

(* The fields of the set-up screen keep their types, and every entry       *)
(* listed is one of the archive (imagedownload.dart:24-40).                *)
THEOREM Types == Spec => []TypeOK
<1>1. DownloadInv => TypeOK
  BY DEF DownloadInv
<1>2. QED
  BY <1>1, Invariant, PTL

(* The Next button is only offered, and "check" only stored, when every    *)
(* entry is listed and every file is there, unless a second download of    *)
(* the same process rewrites them (imagedownload.dart:76-111).             *)
THEOREM NextIsReady == Spec => []NextMeansFiles
<1>1. DownloadInv => NextMeansFiles
  <2>1. SUFFICES ASSUME DownloadInv, built = "Next" \/ check = 1,
                        Cardinality(Started) <= 1
                 PROVE  Complete
    BY DEF NextMeansFiles
  <2>2. PICK d \in Downloads : pc[d] = "over"
    BY <2>1 DEF DownloadInv, OfferedByEnd
  <2>3. at[d] = NumEntries /\ at[d] > 0 /\ d \in Started
    BY <2>1, <2>2 DEF DownloadInv, Progress, Started
  <2>4. \A e \in Downloads : at[e] > 0 => e = d
    <3>1. Started \in SUBSET Downloads
      BY DEF Started
    <3>2. \A e \in Downloads : at[e] > 0 => e \in Started
      BY DEF Started
    <3>3. QED
      BY <2>1, <2>3, <3>1, <3>2, AtMostOne
  <2>5. Sole(d)
    BY <2>3, <2>4 DEF Sole
  <2>6. /\ names = [i \in 1 .. NumEntries |-> i]
        /\ \A e \in Entries \ Directories :
             e < NumEntries \/ e = NumEntries => e \in full
    BY <2>1, <2>2, <2>3, <2>5 DEF DownloadInv, SoleInOrder
  <2>7. Listed(names) = Entries
    BY <2>6 DEF Listed, Entries
  <2>8. \A e \in Entries : e < NumEntries \/ e = NumEntries
    BY ArchiveAssumption DEF Entries
  <2>9. QED
    BY <2>6, <2>7, <2>8 DEF Complete
<1>2. QED
  BY <1>1, Invariant, PTL

(* The list names an entry twice only if two downloads ran on the same     *)
(* `images` (imagedownload.dart:30).                                       *)
THEOREM ListedOnce == Spec => []TwiceOnlyByTwo
<1>1. DownloadInv => TwiceOnlyByTwo
  <2>1. SUFFICES ASSUME DownloadInv, Cardinality(Started) <= 1
                 PROVE  Len(images) = Cardinality(Listed(images))
    BY DEF TwiceOnlyByTwo
  <2>2. PICK n \in Nat : images = [i \in 1 .. n |-> i]
    <3>1. at \in [Downloads -> Nat]
      BY <2>1, ArchiveAssumption DEF DownloadInv, TypeOK
    <3>2. CASE \A d \in Downloads : at[d] = 0
      <4>1. images = << >>
        BY <2>1, <3>2 DEF DownloadInv, SoleInOrder
      <4>2. [i \in 1 .. 0 |-> i] = << >>
        OBVIOUS
      <4>3. QED
        BY <4>1, <4>2
    <3>3. ASSUME NEW d \in Downloads, at[d] # 0
          PROVE  \E n \in Nat : images = [i \in 1 .. n |-> i]
      <4>1. Started \in SUBSET Downloads /\ d \in Started /\ at[d] > 0
        BY <3>1, <3>3 DEF Started
      <4>2. \A e \in Downloads : at[e] > 0 => e \in Started
        BY DEF Started
      <4>3. Sole(d)
        BY <2>1, <4>1, <4>2, AtMostOne DEF Sole
      <4>4. QED
        BY <2>1, <3>1, <4>3 DEF DownloadInv, SoleInOrder
    <3>4. QED
      BY <3>2, <3>3
  <2>3. Listed(images) = 1 .. n
    BY <2>2 DEF Listed
  <2>4. Cardinality(1 .. n) = n
    <3>1. 1 \in Int /\ n \in Int
      OBVIOUS
    <3>2. Cardinality(1 .. n) = IF 1 > n THEN 0 ELSE n - 1 + 1
      BY <3>1, FS_Interval
    <3>3. QED
      BY <3>2
  <2>5. Len(images) = n
    <3>1. images \in Seq(Nat)
      BY <2>2, SeqDef
    <3>2. QED
      BY <2>2, <3>1, LenProperties
  <2>6. QED
    BY <2>3, <2>4, <2>5
<1>2. QED
  BY <1>1, Invariant, PTL

=============================================================================
