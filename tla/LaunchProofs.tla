--------------------------- MODULE LaunchProofs ---------------------------
(***************************************************************************)
(* Proofs about the launches of the app, for every number of launches and  *)
(* every moment at which a process dies.                                   *)
(***************************************************************************)
EXTENDS Launch, TLAPS, SequenceTheorems

-----------------------------------------------------------------------------
(* Facts about the writes under way.                                       *)

Keys == {"number", "check", "names"}
Writers == {"incr", "setup", "next", "help", "none"}

(* A value of the type of its key.                                         *)
ValueOf(k, v) == IF k = "names" THEN v \in Names ELSE v \in Number

(* A write changes the value of its key and no other.                      *)
LEMMA WriteOK ==
  ASSUME NEW p \in Prefs, NEW k \in Keys, NEW v, ValueOf(k, v)
  PROVE  /\ [p EXCEPT ![k] = v] \in Prefs
         /\ [p EXCEPT ![k] = v].number = IF k = "number" THEN v ELSE p.number
         /\ [p EXCEPT ![k] = v].check = IF k = "check" THEN v ELSE p.check
         /\ [p EXCEPT ![k] = v].names = IF k = "names" THEN v ELSE p.names
BY DEF Prefs, Keys, ValueOf

(* prefs.set* puts one write behind those under way.                       *)
LEMMA SetOK ==
  ASSUME TypeOK, NEW k \in Keys, NEW v, ValueOf(k, v), NEW by \in Writers,
         Set(k, v, by)
  PROVE  /\ pending' \in Seq(Write) /\ Len(pending') = Len(pending) + 1
         /\ \A i \in 1 .. Len(pending) : pending'[i] = pending[i]
         /\ pending'[Len(pending) + 1] = [key |-> k, val |-> v, by |-> by]
         /\ cache' \in Prefs
         /\ \A i \in DOMAIN pending' :
              IF pending'[i].key = "names" THEN pending'[i].val \in Names
                                           ELSE pending'[i].val \in Number
<1> DEFINE w == [key |-> k, val |-> v, by |-> by]
<1>1. w \in Write
  BY DEF Write, Keys, Writers, ValueOf
<1>2. pending \in Seq(Write) /\ pending' = Append(pending, w)
  BY DEF TypeOK, Set
<1>3. /\ pending' \in Seq(Write) /\ Len(pending') = Len(pending) + 1
      /\ \A i \in 1 .. Len(pending) : pending'[i] = pending[i]
      /\ pending'[Len(pending) + 1] = w
  BY <1>1, <1>2, AppendProperties
<1>4. cache' \in Prefs
  BY WriteOK DEF Set, TypeOK
<1>5. DOMAIN pending' = 1 .. Len(pending) + 1 /\ Len(pending) \in Nat
      /\ DOMAIN pending = 1 .. Len(pending)
  BY <1>2, <1>3, LenProperties
<1>6. ASSUME NEW i \in DOMAIN pending'
      PROVE  IF pending'[i].key = "names" THEN pending'[i].val \in Names
                                          ELSE pending'[i].val \in Number
  <2>1. CASE i = Len(pending) + 1
    BY <1>3, <2>1 DEF ValueOf
  <2>2. CASE i \in 1 .. Len(pending)
    BY <1>3, <1>5, <2>2 DEF TypeOK
  <2>3. QED
    BY <1>5, <1>6, <2>1, <2>2
<1>7. QED
  BY <1>3, <1>4, <1>6

(* What is stored step by step, with one write more.                       *)
LEMMA SetStored ==
  ASSUME TypeOK, On, loaded, NEW S, StoredAfter(S), NEW k \in Keys, NEW v,
         ValueOf(k, v), NEW by \in Writers, Set(k, v, by), disk' = disk
  PROVE  \E T : /\ StoredAfter(T)'
                /\ \A i \in 0 .. Len(pending) : T[i] = S[i]
                /\ T[Len(pending) + 1] = cache'
<1> DEFINE n == Len(pending)
<1>1. /\ pending' \in Seq(Write) /\ Len(pending') = n + 1
      /\ \A i \in 1 .. n : pending'[i] = pending[i]
      /\ pending'[n + 1] = [key |-> k, val |-> v, by |-> by]
      /\ cache' \in Prefs
  BY SetOK
<1>2. n \in Nat
  BY LenProperties DEF TypeOK
<1>3. PICK T : T = [i \in 0 .. n + 1 |-> IF i <= n THEN S[i] ELSE cache']
  OBVIOUS
<1>4. /\ T \in [0 .. n + 1 -> Prefs] /\ T[n + 1] = cache'
      /\ \A i \in 0 .. n : T[i] = S[i]
  BY <1>1, <1>2, <1>3 DEF StoredAfter
<1>5. T[0] = disk'
  BY <1>2, <1>4 DEF StoredAfter
<1>6. cache' = [cache EXCEPT ![k] = v] /\ S[n] = cache
  BY DEF Set, StoredAfter
<1>7. ASSUME NEW i \in 1 .. n + 1
      PROVE  T[i] = [T[i - 1] EXCEPT ![pending'[i].key] = pending'[i].val]
  <2>1. CASE i = n + 1
    <3>1. T[i - 1] = cache /\ T[i] = cache'
      BY <1>2, <1>4, <1>6, <2>1
    <3>2. pending'[i].key = k /\ pending'[i].val = v
      BY <1>1, <2>1
    <3>3. QED
      BY <1>6, <3>1, <3>2
  <2>2. CASE i \in 1 .. n
    <3>1. T[i] = S[i] /\ T[i - 1] = S[i - 1] /\ pending'[i] = pending[i]
      BY <1>1, <1>2, <1>4, <2>2
    <3>2. QED
      BY <2>2, <3>1 DEF StoredAfter
  <2>3. QED
    BY <1>2, <1>7, <2>1, <2>2
<1>8. StoredAfter(T)'
  BY <1>1, <1>4, <1>5, <1>7 DEF StoredAfter
<1>9. QED
  BY <1>4, <1>8

(* The same once the oldest write has arrived.                             *)
LEMMA CommitStored ==
  ASSUME TypeOK, NEW S, StoredAfter(S), Commit
  PROVE  /\ pending' \in Seq(Write) /\ Len(pending') = Len(pending) - 1
         /\ \A i \in 1 .. Len(pending') : pending'[i] = pending[i + 1]
         /\ Len(pending) \in Nat \ {0} /\ disk' \in Prefs
         /\ \E T : /\ StoredAfter(T)'
                   /\ \A i \in 0 .. Len(pending') : T[i] = S[i + 1]
<1> DEFINE n == Len(pending)
<1>1. pending \in Seq(Write) /\ pending # << >> /\ pending' = Tail(pending)
      /\ Head(pending) = pending[1]
  BY HeadTailProperties DEF TypeOK, Commit
<1>2. n \in Nat \ {0} /\ pending' \in Seq(Write) /\ Len(pending') = n - 1
      /\ \A i \in 1 .. n - 1 : pending'[i] = pending[i + 1]
  BY <1>1, HeadTailProperties, LenProperties, EmptySeq
<1>3. pending[1] \in Write /\ 1 \in DOMAIN pending
  BY <1>1, <1>2, ElementOfSeq, LenProperties
<1>4. disk' \in Prefs /\ disk' = S[1]
  <2>1. ValueOf(pending[1].key, pending[1].val) /\ pending[1].key \in Keys
    <3>1. ValueOf(pending[1].key, pending[1].val)
      BY <1>3 DEF TypeOK, ValueOf
    <3>2. QED
      BY <1>3, <3>1 DEF Write, Keys
  <2>2. disk' = [disk EXCEPT ![pending[1].key] = pending[1].val]
    BY <1>1 DEF Commit
  <2>3. S[1] = [S[0] EXCEPT ![pending[1].key] = pending[1].val] /\ S[0] = disk
    <3>1. 1 \in 1 .. n /\ 1 - 1 = 0
      BY <1>2
    <3>2. S[1] = [S[1 - 1] EXCEPT ![pending[1].key] = pending[1].val]
      BY <3>1 DEF StoredAfter
    <3>3. QED
      BY <3>1, <3>2 DEF StoredAfter
  <2>4. QED
    BY <2>1, <2>2, <2>3, WriteOK DEF TypeOK
<1>5. PICK T : T = [i \in 0 .. n - 1 |-> S[i + 1]]
  OBVIOUS
<1>6. /\ T \in [0 .. n - 1 -> Prefs] /\ T[0] = disk'
      /\ \A i \in 0 .. n - 1 : T[i] = S[i + 1]
  BY <1>2, <1>4, <1>5 DEF StoredAfter
<1>7. ASSUME NEW i \in 1 .. n - 1
      PROVE  T[i] = [T[i - 1] EXCEPT ![pending'[i].key] = pending'[i].val]
  <2>1. T[i] = S[i + 1] /\ T[i - 1] = S[i] /\ pending'[i] = pending[i + 1]
    BY <1>2, <1>6, <1>7
  <2>2. i + 1 \in 1 .. n /\ (i + 1) - 1 = i
    BY <1>2, <1>7
  <2>3. S[i + 1] = [S[(i + 1) - 1] EXCEPT
                      ![pending[i + 1].key] = pending[i + 1].val]
    BY <2>2 DEF StoredAfter
  <2>4. QED
    BY <2>1, <2>2, <2>3
<1>8. On' /\ loaded' => T[n - 1] = cache'
  <2>1. T[n - 1] = S[n]
    BY <1>2, <1>6
  <2>2. QED
    BY <2>1 DEF Commit, On, StoredAfter
<1>9. StoredAfter(T)'
  BY <1>2, <1>6, <1>7, <1>8 DEF StoredAfter
<1>10. QED
  BY <1>2, <1>4, <1>6, <1>9

-----------------------------------------------------------------------------
(* Types, and where the handlers are.                                      *)

(* Nothing is stored before the first launch.                              *)
LEMMA InitOK == Init => LaunchInv
<1> SUFFICES ASSUME Init PROVE LaunchInv
  OBVIOUS
<1>1. disk \in Prefs /\ cache \in Prefs /\ pending \in Seq(Write)
      /\ Len(pending) = 0 /\ DOMAIN pending = {}
  BY EmptySeq DEF Init, Prefs, Names, Number, Null
<1>2. loaded \in BOOLEAN /\ fresh \in BOOLEAN /\ torn \in BOOLEAN
      /\ raced \in BOOLEAN /\ helped \in BOOLEAN
  BY Zenon DEF Init
<1>3. TypeOK
  BY <1>1, <1>2 DEF Init, TypeOK, Null
<1>4. ~On
  BY DEF Init, On
<1>5. Counting /\ Screens /\ HelpWipes /\ pending = << >>
  BY <1>4 DEF Init, Counting, Screens, HelpWipes
<1>6. PICK S : S = [i \in 0 .. 0 |-> disk]
  OBVIOUS
<1>7. StoredAfter(S)
  BY <1>1, <1>4, <1>6 DEF StoredAfter
<1>8. Durable(S)
  <2>1. Complete(disk)
    BY DEF Init, Complete, Null
  <2>2. QED
    BY <1>1, <1>4, <1>6, <2>1 DEF Durable
<1>9. QED
  BY <1>3, <1>5, <1>7, <1>8 DEF LaunchInv

(* Every step keeps every variable in its type.                            *)
LEMMA TypeStep == LaunchInv /\ [Next]_vars => TypeOK'
<1> SUFFICES ASSUME TypeOK, \E S : StoredAfter(S), [Next]_vars PROVE TypeOK'
  BY DEF LaunchInv
<1> DEFINE Values(p) == \A i \in DOMAIN p :
             IF p[i].key = "names" THEN p[i].val \in Names
                                   ELSE p[i].val \in Number
           Writes == /\ disk' \in Prefs /\ cache' \in Prefs
                     /\ pending' \in Seq(Write) /\ Values(pending')
           Flags == /\ loaded' \in BOOLEAN /\ fresh' \in BOOLEAN
                    /\ torn' \in BOOLEAN /\ raced' \in BOOLEAN
                    /\ helped' \in BOOLEAN
<1>1. Flags
  BY Zenon DEF TypeOK, Next, Boot, GetInstance, Commit, Kill, IncrNumber,
     IncrCount, IncrCheck, Splash, SetupList, NextTap, NextDone, BackToSetup,
     HelpTap, HelpNumber, HelpNames, vars, prefs, hist
<1>2. ASSUME NEW k \in Keys, NEW v, ValueOf(k, v), NEW by \in Writers,
             Set(k, v, by), disk' = disk
      PROVE  Writes
  BY <1>2, SetOK DEF TypeOK
<1>3. ASSUME disk' \in Prefs, UNCHANGED <<cache, pending>> PROVE Writes
  BY <1>3 DEF TypeOK
<1>4. disk \in Prefs
  BY DEF TypeOK
<1>5. CASE Boot
  BY <1>1, <1>3, <1>4, <1>5 DEF Boot, TypeOK, Null
<1>6. CASE GetInstance
  BY <1>1, <1>6 DEF GetInstance, incr, hist, TypeOK
<1>7. CASE Commit
  <2>1. Writes
    <3>1. /\ pending' \in Seq(Write) /\ Len(pending') = Len(pending) - 1
          /\ \A i \in 1 .. Len(pending') : pending'[i] = pending[i + 1]
          /\ Len(pending) \in Nat \ {0} /\ disk' \in Prefs
      BY <1>7, CommitStored
    <3>2. DOMAIN pending' = 1 .. Len(pending') /\ Values(pending)
          /\ DOMAIN pending = 1 .. Len(pending)
      BY <3>1, LenProperties DEF TypeOK
    <3>3. ASSUME NEW i \in DOMAIN pending'
          PROVE  i + 1 \in DOMAIN pending /\ pending'[i] = pending[i + 1]
      BY <3>1, <3>2, <3>3
    <3>4. Values(pending')
      BY <3>2, <3>3
    <3>5. QED
      BY <1>7, <3>1, <3>4 DEF Commit, TypeOK
  <2>2. QED
    BY <1>1, <1>7, <2>1 DEF Commit, incr, hist, TypeOK
<1>8. CASE Kill
  <2>1. pending' \in Seq(Write) /\ Values(pending')
    BY <1>8, EmptySeq DEF Kill
  <2>2. QED
    BY <1>1, <1>8, <2>1 DEF Kill, incr, TypeOK
<1>9. CASE IncrNumber
  <2>1. LastNumber + 1 \in Nat
    BY DEF LastNumber, TypeOK, Prefs, Number
  <2>2. Writes
    BY <1>2, <1>9, <2>1 DEF IncrNumber, Keys, Writers, ValueOf, Number
  <2>3. QED
    BY <1>1, <1>9, <2>1, <2>2 DEF IncrNumber, hist, TypeOK
<1>10. CASE IncrCount
  <2>1. Writes
    <3>1. CASE Set("check", 0, "incr")
      BY <1>2, <1>10, <3>1 DEF IncrCount, Keys, Writers, ValueOf, Number
    <3>2. QED
      BY <1>3, <1>4, <1>10, <3>1 DEF IncrCount
  <2>2. check' \in Int
    BY <1>10 DEF IncrCount, TypeOK, Prefs, Number, Null
  <2>3. QED
    BY <1>1, <1>10, <2>1, <2>2 DEF IncrCount, hist, TypeOK
<1>11. CASE IncrCheck
  <2>1. check' \in Int
    BY <1>11 DEF IncrCheck, TypeOK, Prefs, Number, Null
  <2>2. Writes
    BY <1>3, <1>4, <1>11 DEF IncrCheck, prefs
  <2>3. QED
    BY <1>1, <1>11, <2>1, <2>2 DEF IncrCheck, TypeOK
<1>12. CASE Splash
  <2>1. Writes
    BY <1>3, <1>4, <1>12 DEF Splash, prefs
  <2>2. QED
    BY <1>1, <1>12, <2>1 DEF Splash, NextScreen, incr, TypeOK
<1>13. CASE SetupList
  <2>1. Writes
    <3>1. PICK v \in {"list", "part"} : Set("names", v, "setup")
      BY <1>13 DEF SetupList
    <3>2. QED
      BY <1>2, <1>13, <3>1 DEF SetupList, Keys, Writers, ValueOf, Names
  <2>2. QED
    BY <1>1, <1>13, <2>1 DEF SetupList, incr, hist, TypeOK
<1>14. CASE NextTap
  <2>1. Writes
    BY <1>2, <1>14 DEF NextTap, Keys, Writers, ValueOf, Number
  <2>2. QED
    BY <1>1, <1>14, <2>1 DEF NextTap, incr, hist, TypeOK
<1>15. CASE NextDone \/ BackToSetup \/ HelpTap \/ UNCHANGED vars
  <2>1. Writes
    BY <1>3, <1>4, <1>15 DEF NextDone, BackToSetup, HelpTap, vars, prefs
  <2>2. QED
    BY <1>1, <1>15, <2>1 DEF NextDone, BackToSetup, HelpTap, vars, incr,
                             hist, TypeOK
<1>16. CASE HelpNumber
  <2>1. Writes
    BY <1>2, <1>16 DEF HelpNumber, Keys, Writers, ValueOf, Number
  <2>2. QED
    BY <1>1, <1>16, <2>1 DEF HelpNumber, incr, hist, TypeOK
<1>17. CASE HelpNames
  <2>1. Writes
    BY <1>2, <1>17 DEF HelpNames, Keys, Writers, ValueOf, Names
  <2>2. QED
    BY <1>1, <1>17, <2>1 DEF HelpNames, incr, hist, TypeOK
<1>18. QED
  BY <1>5, <1>6, <1>7, <1>8, <1>9, <1>10, <1>11, <1>12, <1>13, <1>14, <1>15,
     <1>16, <1>17 DEF Next

(* prefs.set* changes the instance at once, in its key only.               *)
LEMMA SetCache ==
  ASSUME TypeOK, NEW k \in Keys, NEW v, ValueOf(k, v), NEW by, Set(k, v, by)
  PROVE  /\ cache'.number = IF k = "number" THEN v ELSE cache.number
         /\ cache'.check = IF k = "check" THEN v ELSE cache.check
         /\ cache'.names = IF k = "names" THEN v ELSE cache.names
BY WriteOK DEF Set, TypeOK

(* Where the handlers are and how each screen was come by.                 *)
FlowInv == /\ Counting /\ Screens /\ HelpWipes
           /\ ~On => pending = << >>

(* A step that leaves the handlers, the fields and the instance alone.     *)
LEMMA QuietFlow ==
  ASSUME FlowInv, UNCHANGED <<cache, loaded, incr, fresh, helpPc, helped>>,
         nextPc' \in {"idle", nextPc},
         raced => raced', pending' = pending \/ (loaded /\ On),
         \/ screen' = screen
         \/ /\ On /\ screen' = "home" /\ (fresh \/ raced')
         \/ /\ screen = "home" /\ screen' = "setup" /\ fresh
  PROVE  FlowInv'
<1>1. Counting'
  BY DEF FlowInv, Counting, On, FirstLaunch, incr
<1>2. Screens'
  BY DEF FlowInv, Screens, On, incr
<1>3. HelpWipes'
  BY DEF FlowInv, HelpWipes, On, FirstLaunch, incr
<1>4. ~On' => pending' = << >>
  BY DEF FlowInv, On
<1>5. QED
  BY <1>1, <1>2, <1>3, <1>4 DEF FlowInv

(* Every step keeps them so.                                               *)
LEMMA FlowStep == TypeOK /\ FlowInv /\ [Next]_vars => FlowInv'
<1> SUFFICES ASSUME TypeOK, FlowInv, [Next]_vars PROVE FlowInv'
  OBVIOUS
<1>0. currentnumber \in Int /\ cache.number \in Number
      /\ pc \in {"getInstance", "number", "check", "done"}
  BY DEF TypeOK, Prefs
<1>1. CASE Boot
  <2>1. On' /\ ~loaded'
    BY <1>1 DEF Boot, On
  <2>2. pending' = << >>
    BY <1>1 DEF Boot, FlowInv
  <2>3. Counting'
    BY <1>1, <2>1, <2>2 DEF Boot, Counting, FirstLaunch, Null
  <2>4. Screens' /\ HelpWipes'
    BY <1>1, <2>1 DEF Boot, Screens, HelpWipes, Null
  <2>5. QED
    BY <2>1, <2>3, <2>4 DEF FlowInv
<1>2. CASE GetInstance
  <2>1. /\ On /\ On' /\ loaded' /\ pc = "getInstance" /\ pc' = pc
        /\ count' = Null /\ check' = Null /\ helpPc # "number"
    BY <1>2 DEF GetInstance, FlowInv, Counting, On, incr
  <2>2. Counting'
    BY <2>1 DEF Counting, Null
  <2>3. ~fresh
    BY <2>1, <1>2 DEF FlowInv, Screens, GetInstance, incr, Null
  <2>4. Screens'
    BY <1>2, <2>1, <2>3 DEF FlowInv, Screens, GetInstance, incr, hist, Null, On
  <2>5. HelpWipes'
    BY <1>2, <2>1 DEF HelpWipes, GetInstance
  <2>6. QED
    BY <2>1, <2>2, <2>4, <2>5 DEF FlowInv
<1>3. CASE Commit
  <2>1. loaded /\ On
    BY <1>3 DEF Commit, FlowInv, Counting
  <2>2. QED
    BY <1>3, <2>1, QuietFlow DEF Commit, hist
<1>4. CASE Kill
  <2>1. ~On' /\ pending' = << >>
    BY <1>4 DEF Kill, On
  <2>2. QED
    BY <2>1 DEF FlowInv, Counting, Screens, HelpWipes
<1>5. CASE IncrNumber
  <2>1. /\ On /\ On' /\ loaded /\ loaded' /\ pc = "getInstance"
        /\ pc' = "number" /\ currentnumber' = LastNumber + 1
        /\ UNCHANGED <<count, check, screen, nextPc, fresh, helpPc, raced,
                       helped>>
    BY <1>5 DEF IncrNumber, On, hist
  <2>2. /\ cache'.number = LastNumber + 1 /\ cache'.check = cache.check
        /\ cache'.names = cache.names
    <3>1. LastNumber + 1 \in Number
      BY <1>0 DEF LastNumber, Number
    <3>2. QED
      BY <1>5, <3>1, SetCache DEF IncrNumber, Keys, ValueOf
  <2>3. count = Null /\ check = Null
    BY <2>1 DEF FlowInv, Counting
  <2>4. ~fresh
    BY <2>1, <2>3 DEF FlowInv, Screens, Null
  <2>5. helpPc = "number" => LastNumber = 0 /\ helped
    BY <2>1, <2>4 DEF FlowInv, HelpWipes, LastNumber, Null
  <2>6. LastNumber \in Nat
    BY <1>0 DEF LastNumber, Number
  <2>7. QED
    BY <2>1, <2>2, <2>3, <2>4, <2>5, <2>6
       DEF FlowInv, Counting, Screens, HelpWipes, FirstLaunch, Null
<1>6. CASE IncrCount
  <2>1. /\ On /\ On' /\ loaded /\ loaded' /\ pc = "number"
        /\ count' = currentnumber /\ currentnumber' = currentnumber
        /\ UNCHANGED <<screen, nextPc, fresh, helpPc, raced, helped>>
    BY <1>6 DEF IncrCount, On, hist, FlowInv, Counting
  <2>2. count = Null /\ check = Null /\ ~fresh /\ currentnumber >= 1
    BY <2>1 DEF FlowInv, Counting, Screens, Null
  <2>3. CASE FirstLaunch
    <3>1. /\ pc' = "check" /\ check' = check
          /\ cache'.check = 0 /\ cache'.number = cache.number
          /\ cache'.names = cache.names
      BY <1>6, <2>3, SetCache DEF IncrCount, Keys, ValueOf, Number
    <3>2. QED
      BY <2>1, <2>2, <2>3, <3>1
         DEF FlowInv, Counting, Screens, HelpWipes, FirstLaunch
  <2>4. CASE ~FirstLaunch
    <3>1. pc' = "done" /\ check' = cache.check /\ cache' = cache
      BY <1>6, <2>4 DEF IncrCount
    <3>2. QED
      BY <2>1, <2>2, <2>4, <3>1
         DEF FlowInv, Counting, Screens, HelpWipes, FirstLaunch
  <2>5. QED
    BY <2>3, <2>4
<1>7. CASE IncrCheck
  <2>1. /\ On /\ On' /\ pc = "check" /\ pc' = "done" /\ check' = cache.check
        /\ UNCHANGED <<screen, nextPc, fresh, helpPc, raced, helped, loaded, cache,
                       currentnumber, count, pending>>
    BY <1>7 DEF IncrCheck, On, prefs
  <2>2. loaded /\ count = 1 /\ FirstLaunch
    BY <2>1 DEF FlowInv, Counting, FirstLaunch
  <2>3. Counting' /\ HelpWipes'
    BY <2>1, <2>2 DEF FlowInv, Counting, HelpWipes, FirstLaunch
  <2>4. Screens'
    BY <2>1, <2>2 DEF FlowInv, Screens
  <2>5. QED
    BY <2>1, <2>3, <2>4 DEF FlowInv
<1>8. CASE Splash
  <2>1. /\ On /\ On' /\ screen = "splash" /\ screen' = NextScreen
        /\ raced' = (pc # "done" /\ count # 1)
        /\ UNCHANGED <<prefs, incr, nextPc, fresh, helpPc, helped>>
    BY <1>8 DEF Splash, On, NextScreen
  <2>2. ~fresh
    BY <2>1 DEF FlowInv, Screens
  <2>3. Counting' /\ HelpWipes'
    BY <2>1 DEF FlowInv, Counting, HelpWipes, FirstLaunch, prefs, incr
  <2>4. Screens'
    BY <2>1, <2>2 DEF FlowInv, Screens, NextScreen, prefs, incr
  <2>5. QED
    BY <2>1, <2>3, <2>4 DEF FlowInv
<1>9. CASE SetupList
  <2>1. /\ On /\ On' /\ screen = "setup" /\ loaded /\ ~fresh
        /\ UNCHANGED <<loaded, incr, screen, nextPc, helpPc, raced, helped>>
    BY <1>9 DEF SetupList, On, hist
  <2>2. cache'.number = cache.number /\ cache'.check = cache.check
        /\ (fresh' => cache'.names = "list") /\ fresh' \in BOOLEAN
    <3>1. PICK last \in BOOLEAN :
            Set("names", IF last THEN "list" ELSE "part", "setup")
            /\ fresh' = last
      BY <1>9 DEF SetupList
    <3>2. ValueOf("names", IF last THEN "list" ELSE "part")
      BY DEF ValueOf, Names
    <3>3. QED
      BY <3>1, <3>2, SetCache DEF Keys
  <2>3. helpPc = "idle" /\ (count = 1 \/ check = 0)
    BY <2>1 DEF FlowInv, Screens
  <2>4. Counting' /\ HelpWipes'
    BY <2>1, <2>2, <2>3 DEF FlowInv, Counting, HelpWipes, FirstLaunch, incr
  <2>5. Screens'
    BY <2>1, <2>2, <2>3 DEF FlowInv, Screens, incr
  <2>6. QED
    BY <2>1, <2>4, <2>5 DEF FlowInv
<1>10. CASE NextTap
  <2>1. /\ On /\ On' /\ fresh
        /\ UNCHANGED <<loaded, incr, screen, fresh, helpPc, raced, helped>>
    BY <1>10 DEF NextTap, On, hist
  <2>2. cache'.number = cache.number /\ cache'.names = cache.names
    BY <1>10, SetCache DEF NextTap, Keys, ValueOf, Number
  <2>3. loaded
    BY <2>1 DEF FlowInv, Counting, Screens, Null
  <2>4. Counting'
    BY <2>1, <2>2, <2>3 DEF FlowInv, Counting, FirstLaunch, incr
  <2>5. Screens' /\ HelpWipes'
    BY <2>1, <2>2 DEF FlowInv, Screens, HelpWipes, FirstLaunch, incr
  <2>6. QED
    BY <2>1, <2>4, <2>5 DEF FlowInv
<1>11. CASE NextDone
  <2>1. fresh
    BY <1>11 DEF FlowInv, Screens, NextDone, On
  <2>2. QED
    BY <1>11, <2>1, QuietFlow DEF NextDone, prefs, hist, On
<1>12. CASE BackToSetup
  <2>1. raced' = raced
    BY <1>12 DEF BackToSetup, hist
  <2>2. QED
    BY <1>12, <2>1, QuietFlow DEF BackToSetup, prefs, hist
<1>13. CASE HelpTap
  BY <1>13 DEF HelpTap, prefs, incr, hist, On, FlowInv, Counting, Screens,
               HelpWipes, FirstLaunch
<1>14. CASE HelpNumber
  <2>1. /\ On /\ On' /\ loaded /\ helped' /\ helpPc' = "number"
        /\ helpPc = "getInstance"
        /\ UNCHANGED <<loaded, incr, screen, nextPc, fresh, raced>>
    BY <1>14 DEF HelpNumber, On
  <2>2. /\ cache'.number = 0 /\ cache'.check = cache.check
        /\ cache'.names = cache.names
    BY <1>14, SetCache DEF HelpNumber, Keys, ValueOf, Number
  <2>3. Counting' /\ HelpWipes'
    BY <2>1, <2>2 DEF FlowInv, Counting, HelpWipes, FirstLaunch, incr
  <2>4. Screens'
    BY <2>1, <2>2 DEF FlowInv, Screens, incr
  <2>5. QED
    BY <2>1, <2>3, <2>4 DEF FlowInv
<1>15. CASE HelpNames
  <2>1. /\ On /\ On' /\ loaded /\ helpPc' = "idle" /\ helpPc = "number"
        /\ UNCHANGED <<loaded, incr, screen, nextPc, fresh, raced, helped>>
    BY <1>15 DEF HelpNames, On, hist, FlowInv, Counting
  <2>2. cache'.number = cache.number /\ cache'.check = cache.check
    BY <1>15, SetCache DEF HelpNames, Keys, ValueOf, Names
  <2>3. helped /\ (fresh => cache.number = 0)
    BY <2>1 DEF FlowInv, HelpWipes
  <2>4. Counting' /\ HelpWipes'
    BY <2>1, <2>2, <2>3 DEF FlowInv, Counting, HelpWipes, FirstLaunch, incr
  <2>5. Screens'
    BY <2>1, <2>2, <2>3 DEF FlowInv, Screens, incr
  <2>6. QED
    BY <2>1, <2>4, <2>5 DEF FlowInv
<1>16. CASE UNCHANGED vars
  BY <1>16, QuietFlow DEF vars, prefs, hist
<1>17. QED
  BY <1>1, <1>2, <1>3, <1>4, <1>5, <1>6, <1>7, <1>8, <1>9, <1>10, <1>11,
     <1>12, <1>13, <1>14, <1>15, <1>16 DEF Next

-----------------------------------------------------------------------------
(* What is stored wherever the process dies.                               *)

(* The writes under way are a finite sequence, numbered from 1.            *)
LEMMA PendingType ==
  ASSUME TypeOK
  PROVE  Len(pending) \in Nat /\ DOMAIN pending = 1 .. Len(pending)
BY LenProperties DEF TypeOK

(* A step that writes nothing: what was excused stays excused, or is       *)
(* complete.                                                               *)
LEMMA QuietStore ==
  ASSUME TypeOK, NEW S, StoredAfter(S), Durable(S), UNCHANGED <<disk, pending>>,
         On' /\ loaded' => S[Len(pending)] = cache',
         \A i \in 0 .. Len(pending) :
           Excused(S[i]) => Excused(S[i])' \/ Complete(S[i]),
         On' /\ pc' = "check" => On /\ pc = "check"
  PROVE  StoredAfter(S)' /\ Durable(S)'
<1>1. StoredAfter(S)'
  BY DEF StoredAfter
<1>2. \A i \in 0 .. Len(pending) : Complete(S[i])' <=> Complete(S[i])
  BY DEF Complete
<1>3. Durable(S)'
  BY <1>2 DEF Durable
<1>4. QED
  BY <1>1, <1>3

(* A step that sends one write: what it makes of the instance is complete  *)
(* or excused.                                                             *)
LEMMA SetDurable ==
  ASSUME TypeOK, On, On', loaded, NEW S, StoredAfter(S), Durable(S),
         NEW k \in Keys, NEW v, ValueOf(k, v), NEW by \in Writers,
         Set(k, v, by), disk' = disk, torn' = torn,
         \A i \in 0 .. Len(pending) : Excused(S[i]) => Excused(S[i])',
         (Complete(cache) \/ Excused(cache))',
         pc' = "check" => by = "incr" \/ pc = "check",
         pc' = "check" => Complete(cache)'
  PROVE  \E T : StoredAfter(T)' /\ Durable(T)'
<1> DEFINE n == Len(pending)
<1>1. n \in Nat
  BY PendingType
<1>2. PICK T : /\ StoredAfter(T)' /\ \A i \in 0 .. n : T[i] = S[i]
               /\ T[n + 1] = cache'
  BY SetStored
<1>3. /\ Len(pending') = n + 1
      /\ \A i \in 1 .. n : pending'[i] = pending[i]
      /\ pending'[n + 1] = [key |-> k, val |-> v, by |-> by]
  BY SetOK
<1>4. ASSUME NEW i \in 0 .. n + 1
      PROVE  /\ (Complete(T[i]) \/ Excused(T[i]))'
             /\ (/\ pc' = "check"
                 /\ \A j \in i + 1 .. n + 1 : pending'[j].by # "incr")
                  => Complete(T[i])'
  <2>1. CASE i = n + 1
    BY <1>2, <2>1
  <2>2. CASE i \in 0 .. n
    <3>1. T[i] = S[i]
      BY <1>2, <2>2
    <3>2. (Complete(S[i]) \/ Excused(S[i]))'
      BY <2>2 DEF Durable, Complete
    <3>3. ASSUME pc' = "check", \A j \in i + 1 .. n + 1 : pending'[j].by # "incr"
          PROVE  Complete(S[i])'
      <4>1. n + 1 \in i + 1 .. n + 1
        BY <1>1, <2>2
      <4>2. by # "incr"
        BY <1>3, <3>3, <4>1
      <4>3. pc = "check"
        BY <3>3, <4>2
      <4>4. \A j \in i + 1 .. n : pending[j].by # "incr"
        <5>1. TAKE j \in i + 1 .. n
        <5>2. j \in 1 .. n /\ j \in i + 1 .. n + 1
          BY <1>1, <2>2
        <5>3. QED
          BY <1>3, <3>3, <5>2
      <4>5. QED
        BY <2>2, <4>3, <4>4 DEF Durable, Complete
    <3>4. QED
      BY <3>1, <3>2, <3>3
  <2>3. QED
    BY <1>1, <1>4, <2>1, <2>2
<1>5. Durable(T)'
  BY <1>3, <1>4 DEF Durable
<1>6. QED
  BY <1>2, <1>5

(* Every step, the death of the process included, leaves what is stored    *)
(* complete or excused.                                                    *)
LEMMA StoreStep ==
  LaunchInv /\ [Next]_vars => \E T : StoredAfter(T)' /\ Durable(T)'
<1> SUFFICES ASSUME TypeOK, FlowInv, NEW S, StoredAfter(S), Durable(S),
                    [Next]_vars
             PROVE  \E T : StoredAfter(T)' /\ Durable(T)'
  BY DEF LaunchInv, FlowInv
<1> DEFINE n == Len(pending)
<1>0. n \in Nat /\ DOMAIN pending = 1 .. n
  BY PendingType
<1>1. CASE Boot
  <2>1. ~On /\ ~loaded' /\ pc' = "getInstance" /\ torn' = torn
        /\ UNCHANGED <<disk, pending>>
    BY <1>1 DEF Boot
  <2>2. \A i \in 0 .. n : Excused(S[i]) => Excused(S[i])'
    BY <2>1 DEF Excused
  <2>3. QED
    BY <2>1, <2>2, QuietStore
<1>2. CASE GetInstance
  <2>1. n = 0 /\ S[n] = cache'
    BY <1>2, EmptySeq DEF GetInstance, FlowInv, Counting, StoredAfter
  <2>2. UNCHANGED <<disk, pending, pc, currentnumber, screen, torn>>
    BY <1>2 DEF GetInstance, incr, hist
  <2>3. \A i \in 0 .. n : Excused(S[i]) => Excused(S[i])'
    BY <2>2 DEF Excused, On, FirstLaunch
  <2>4. QED
    BY <2>1, <2>2, <2>3, QuietStore DEF On
<1>3. CASE Commit
  <2>1. /\ Len(pending') = n - 1 /\ n # 0
        /\ \A i \in 1 .. n - 1 : pending'[i] = pending[i + 1]
    BY <1>3, CommitStored
  <2>2. PICK T : StoredAfter(T)' /\ \A i \in 0 .. n - 1 : T[i] = S[i + 1]
    BY <1>3, <2>1, CommitStored
  <2>3. UNCHANGED <<pc, currentnumber, screen, torn>>
    BY <1>3 DEF Commit, incr, hist
  <2>4. ASSUME NEW i \in 0 .. n - 1
        PROVE  /\ (Complete(T[i]) \/ Excused(T[i]))'
               /\ (/\ On' /\ pc' = "check"
                   /\ \A j \in i + 1 .. n - 1 : pending'[j].by # "incr")
                    => Complete(T[i])'
    <3>1. T[i] = S[i + 1] /\ i + 1 \in 0 .. n
      BY <1>0, <2>1, <2>2, <2>4
    <3>2. Complete(S[i + 1]) \/ Excused(S[i + 1])
      BY <3>1 DEF Durable
    <3>3. (Complete(T[i]) \/ Excused(T[i]))'
      BY <2>3, <3>1, <3>2 DEF Complete, Excused, On, FirstLaunch
    <3>4. ASSUME On', pc' = "check",
                 \A j \in i + 1 .. n - 1 : pending'[j].by # "incr"
          PROVE  Complete(T[i])'
      <4>1. \A j \in (i + 1) + 1 .. n : pending[j].by # "incr"
        <5>1. TAKE j \in (i + 1) + 1 .. n
        <5>2. j - 1 \in i + 1 .. n - 1 /\ j - 1 \in 1 .. n - 1
              /\ (j - 1) + 1 = j
          BY <1>0, <2>4
        <5>3. pending'[j - 1] = pending[j]
          BY <2>1, <5>2
        <5>4. QED
          BY <3>4, <5>2, <5>3
      <4>2. Complete(S[i + 1])
        BY <2>3, <3>1, <3>4, <4>1 DEF Durable, On
      <4>3. QED
        BY <3>1, <4>2 DEF Complete
    <3>5. QED
      BY <3>3, <3>4
  <2>5. Durable(T)'
    BY <2>1, <2>4 DEF Durable
  <2>6. QED
    BY <2>2, <2>5
<1>4. CASE Kill
  <2>1. ~On' /\ pending' = << >> /\ disk' = disk
    BY <1>4 DEF Kill, On
  <2>2. Len(pending') = 0
    BY <2>1, EmptySeq
  <2>3. PICK T : T = [i \in 0 .. 0 |-> disk]
    OBVIOUS
  <2>4. StoredAfter(T)'
    BY <2>1, <2>2, <2>3 DEF StoredAfter, TypeOK
  <2>5. Complete(disk) \/ torn'
    <3>1. Complete(disk) \/ Excused(disk)
      BY <1>0 DEF Durable, StoredAfter
    <3>2. Complete(disk) \/ disk.check # 0
      BY DEF Complete
    <3>3. QED
      BY <1>4, <3>1, <3>2 DEF Kill, Excused
  <2>6. Durable(T)'
    BY <2>1, <2>2, <2>3, <2>5 DEF Durable, Complete, Excused
  <2>7. QED
    BY <2>4, <2>6
<1>5. CASE IncrNumber
  <2>1. /\ On /\ On' /\ loaded /\ pc = "getInstance" /\ pc' = "number"
        /\ currentnumber' = LastNumber + 1 /\ torn' = torn
        /\ Set("number", LastNumber + 1, "incr") /\ disk' = disk
    BY <1>5 DEF IncrNumber, On, hist
  <2>2. cache.number \in Number /\ LastNumber \in Nat
    BY DEF TypeOK, Prefs, Number, LastNumber
  <2>3. ValueOf("number", LastNumber + 1)
    BY <2>2 DEF ValueOf, Number
  <2>4. /\ cache'.number = LastNumber + 1 /\ cache'.check = cache.check
        /\ cache'.names = cache.names
    BY <2>1, <2>3, SetCache DEF Keys
  <2>5. \A i \in 0 .. n : Excused(S[i]) => Excused(S[i])'
    BY <2>1 DEF Excused
  <2>6. (Complete(cache) \/ Excused(cache))'
    <3>1. CASE LastNumber = 0
      BY <2>1, <2>4, <3>1 DEF Excused, FirstLaunch
    <3>2. CASE LastNumber # 0
      <4>1. cache.number >= 1
        BY <2>2, <3>2 DEF LastNumber, Number
      <4>2. Complete(cache) \/ Excused(cache)
        BY <1>0, <2>1 DEF Durable, StoredAfter
      <4>3. QED
        BY <2>1, <2>4, <4>1, <4>2 DEF Complete, Excused
    <3>3. QED
      BY <3>1, <3>2
  <2>7. QED
    BY <2>1, <2>3, <2>5, <2>6, SetDurable DEF Keys, Writers
<1>6. CASE IncrCount
  <2>1. /\ On /\ On' /\ loaded /\ pc = "number" /\ torn' = torn
        /\ UNCHANGED <<disk, loaded, currentnumber, screen>>
    BY <1>6 DEF IncrCount, On, hist, FlowInv, Counting
  <2>2. CASE FirstLaunch
    <3>1. Set("check", 0, "incr") /\ pc' = "check"
      BY <1>6, <2>2 DEF IncrCount
    <3>2. ValueOf("check", 0)
      BY DEF ValueOf, Number
    <3>3. Complete(cache)'
      BY <3>1, <3>2, SetCache DEF Keys, Complete
    <3>4. \A i \in 0 .. n : Excused(S[i]) => Excused(S[i])'
      BY <2>1, <2>2, <3>1 DEF Excused, FirstLaunch
    <3>5. QED
      BY <2>1, <3>1, <3>2, <3>3, <3>4, SetDurable DEF Keys, Writers
  <2>3. CASE ~FirstLaunch
    <3>1. pc' = "done" /\ UNCHANGED <<cache, pending>>
      BY <1>6, <2>3 DEF IncrCount
    <3>2. \A i \in 0 .. n : Excused(S[i]) => Excused(S[i])'
      BY <2>1, <2>3 DEF Excused
    <3>3. QED
      BY <2>1, <3>1, <3>2, QuietStore DEF StoredAfter
  <2>4. QED
    BY <2>2, <2>3
<1>7. CASE IncrCheck
  <2>1. /\ On /\ pc = "check" /\ pc' = "done"
        /\ UNCHANGED <<disk, pending, cache, loaded, screen>>
        /\ \A i \in 1 .. n : pending[i].by # "incr"
    BY <1>0, <1>7 DEF IncrCheck, Answered, prefs
  <2>2. \A i \in 0 .. n : Complete(S[i])
    BY <1>0, <2>1 DEF Durable
  <2>3. QED
    BY <2>1, <2>2, QuietStore DEF StoredAfter, On
<1>8. CASE Splash \/ NextDone \/ BackToSetup \/ HelpTap \/ UNCHANGED vars
  <2>1. /\ UNCHANGED <<disk, pending, cache, loaded, pc, currentnumber, torn>>
        /\ On <=> On'
    BY <1>8 DEF Splash, NextDone, BackToSetup, HelpTap, vars, prefs, incr,
                hist, On, NextScreen
  <2>2. \A i \in 0 .. n : Excused(S[i]) => Excused(S[i])'
    BY <2>1 DEF Excused, FirstLaunch
  <2>3. QED
    BY <2>1, <2>2, QuietStore DEF StoredAfter
<1>9. ASSUME NEW k \in Keys, NEW v, ValueOf(k, v), NEW by \in Writers \ {"incr"},
             Set(k, v, by), On, loaded,
             UNCHANGED <<disk, pc, currentnumber, screen, torn>>,
             (Complete(cache) \/ (pc # "check" /\ Excused(cache)))'
      PROVE  \E T : StoredAfter(T)' /\ Durable(T)'
  <2>1. On'
    BY <1>9 DEF On
  <2>2. \A i \in 0 .. n : Excused(S[i]) => Excused(S[i])'
    BY <1>9, <2>1 DEF Excused, FirstLaunch
  <2>3. QED
    BY <1>9, <2>1, <2>2, SetDurable
<1>10. CASE SetupList
  <2>1. On /\ loaded /\ UNCHANGED <<disk, pc, currentnumber, screen, torn>>
        /\ cache.check = 0
    BY <1>10 DEF SetupList, On, incr, hist, FlowInv, Screens
  <2>2. PICK v \in {"list", "part"} : Set("names", v, "setup")
    BY <1>10 DEF SetupList
  <2>3. ValueOf("names", v)
    BY DEF ValueOf, Names
  <2>4. Complete(cache)'
    BY <2>1, <2>2, <2>3, SetCache DEF Keys, Complete
  <2>5. QED
    BY <1>9, <2>1, <2>2, <2>3, <2>4 DEF Keys, Writers
<1>11. CASE NextTap
  <2>1. On /\ fresh /\ UNCHANGED <<disk, pc, currentnumber, screen, torn>>
        /\ Set("check", 1, "next") /\ ValueOf("check", 1)
    BY <1>11 DEF NextTap, On, incr, hist, ValueOf, Number
  <2>2. loaded
    BY <2>1 DEF FlowInv, Counting, Screens, Null
  <2>3. cache.names = "list" \/ cache.number = 0
    BY <2>1 DEF FlowInv, Screens
  <2>4. Complete(cache)'
    BY <2>1, <2>3, SetCache DEF Keys, Complete
  <2>5. QED
    BY <1>9, <2>1, <2>2, <2>4 DEF Keys, Writers
<1>12. CASE HelpNumber
  <2>1. On /\ loaded /\ UNCHANGED <<disk, pc, currentnumber, screen, torn>>
        /\ Set("number", 0, "help") /\ ValueOf("number", 0)
    BY <1>12 DEF HelpNumber, On, incr, ValueOf, Number
  <2>2. Complete(cache)'
    BY <2>1, SetCache DEF Keys, Complete
  <2>3. QED
    BY <1>9, <2>1, <2>2 DEF Keys, Writers
<1>13. CASE HelpNames
  <2>1. On /\ UNCHANGED <<disk, pc, currentnumber, screen, torn>>
        /\ Set("names", "none", "none") /\ ValueOf("names", "none")
        /\ helpPc = "number"
    BY <1>13 DEF HelpNames, On, incr, hist, ValueOf, Names
  <2>2. loaded
    BY <2>1 DEF FlowInv, Counting
  <2>3. cache'.number = cache.number /\ cache'.check = cache.check
    BY <2>1, SetCache DEF Keys
  <2>4. \/ cache.number = 0
        \/ cache.check = 0
        \/ FirstLaunch /\ cache.number = 1 /\ pc = "number"
    BY <2>1 DEF FlowInv, HelpWipes
  <2>5. (Complete(cache) \/ (pc # "check" /\ Excused(cache)))'
    BY <2>1, <2>3, <2>4 DEF Complete, Excused, On, FirstLaunch
  <2>6. QED
    BY <1>9, <2>1, <2>2, <2>5 DEF Keys, Writers
<1>14. QED
  BY <1>1, <1>2, <1>3, <1>4, <1>5, <1>6, <1>7, <1>8, <1>10, <1>11, <1>12,
     <1>13 DEF Next

(* The whole invariant holds in every state of every sequence of launches  *)
(* (main.dart:45-72, 133).                                                 *)
THEOREM Invariant == Spec => []LaunchInv
<1>1. LaunchInv /\ [Next]_vars => LaunchInv'
  <2> SUFFICES ASSUME LaunchInv, [Next]_vars PROVE LaunchInv'
    OBVIOUS
  <2>1. TypeOK'
    BY TypeStep
  <2>2. FlowInv'
    BY FlowStep DEF LaunchInv, FlowInv
  <2>3. QED
    BY <2>1, <2>2, StoreStep DEF LaunchInv, FlowInv
<1>2. QED
  BY InitOK, <1>1, PTL DEF Spec

(* However many launches, and wherever each process dies between two       *)
(* writes of its preferences: what is stored sends the next launch to Home *)
(* only with a complete list of images, or a first launch was torn         *)
(* (main.dart:52, 62, 133).                                                *)
THEOREM StoredIsComplete == Spec => []StoredHomeHasImages
<1>1. LaunchInv => StoredHomeHasImages
  <2> SUFFICES ASSUME LaunchInv, disk.number >= 1, disk.check # 0, ~On
               PROVE  disk.names = "list" \/ torn
    BY DEF StoredHomeHasImages
  <2>1. PICK S : StoredAfter(S) /\ Durable(S)
    BY DEF LaunchInv
  <2>2. Len(pending) \in Nat
    BY PendingType DEF LaunchInv
  <2>3. Complete(disk) \/ Excused(disk)
    BY <2>1, <2>2 DEF StoredAfter, Durable
  <2>4. QED
    BY <2>3 DEF Complete, Excused
<1>2. QED
  BY <1>1, Invariant, PTL

(* Home is shown without a complete list only after a torn first launch,   *)
(* after a splash that outran the preferences, or after Help, for every    *)
(* number of launches (main.dart:124-137, home.dart).                      *)
THEOREM HomeIsComplete == Spec => []HomeHasImages
<1>1. LaunchInv => HomeHasImages
  <2> SUFFICES ASSUME LaunchInv, screen = "home", loaded,
                      ~torn, ~raced, ~helped
               PROVE  cache.names = "list"
    BY DEF HomeHasImages
  <2>1. On
    BY DEF On
  <2>2. CASE fresh
    BY <2>1, <2>2 DEF LaunchInv, Screens
  <2>3. CASE ~fresh
    <3>1. pc = "done" /\ cache.check # 0
      BY <2>1, <2>3 DEF LaunchInv, Screens
    <3>2. cache.number >= 1
      BY <2>1, <3>1 DEF LaunchInv, Counting
    <3>3. PICK S : StoredAfter(S) /\ Durable(S)
      BY DEF LaunchInv
    <3>4. Len(pending) \in Nat
      BY PendingType DEF LaunchInv
    <3>5. Complete(cache) \/ Excused(cache)
      BY <2>1, <3>3, <3>4 DEF StoredAfter, Durable
    <3>6. QED
      BY <3>1, <3>2, <3>5 DEF Complete, Excused
  <2>4. QED
    BY <2>2, <2>3
<1>2. QED
  BY <1>1, Invariant, PTL

=============================================================================
