---------------------------- MODULE QuizProofs ----------------------------
(***************************************************************************)
(* Proofs about the Quiz screen, for every list of images, every title,    *)
(* every number of tiles and every number of presses.                      *)
(***************************************************************************)
EXTENDS Quiz, TLAPS, SequenceTheorems, FiniteSetTheorems

-----------------------------------------------------------------------------
(* Facts about the operators.                                              *)

(* A function on 1 .. n with values in S is a sequence over S; task() and  *)
(* the taps build the answer's letters that way.                           *)
LEMMA FunctionIsSeq ==
  ASSUME NEW S, NEW n \in Nat, NEW f \in [1 .. n -> S]
  PROVE  f \in Seq(S) /\ Len(f) = n /\ DOMAIN f = 1 .. n
<1>1. f \in Seq(S)
  BY SeqDef
<1>2. QED
  BY <1>1, LenProperties

(* The tiles task() deals (Quiz.dart:187-204) carry letters.               *)
LEMMA RacksAreTiles ==
  ASSUME NEW t, NEW rk \in Racks(t)
  PROVE  rk \in [Cell -> Letter \cup {Blank}]
BY DEF Racks

(* A full ring.                                                            *)
LEMMA OneType == One \in Nat
BY SMT DEF One

(* The index task() draws is one of the list.                              *)
LEMMA TaskLogoOK ==
  ASSUME LogoOK, NEW n, NEW p \in Pics, Task(n, p)
  PROVE  LogoOK'
<1> USE ImagesAssumption
<1>1. Title[p] \in Seq(Letter) /\ Len(Title[p]) \in Nat
  BY LenProperties
<1>2. [x \in 1 .. Len(Title[p]) |-> Blank] \in Seq(Letter \cup {Blank})
  BY <1>1, FunctionIsSeq
<1>3. NoTiles \in [Cell -> Letter \cup {Blank}]
  BY DEF NoTiles
<1>4. << >> \in Seq(Letter) /\ << >> \in Seq(Letter \cup {Blank})
  BY EmptySeq
<1>5. visible' \in BOOLEAN /\ end' \in BOOLEAN
  BY Zenon DEF Task, LogoOK, HideButton
<1>6. /\ repeat' \subseteq Pics /\ percent' \in Int /\ elapsed' \in Nat
      /\ count' \in Nat /\ loop_count' \in Nat
      /\ firstpic' \in Pics \cup {NoPic}
  BY OneType DEF Task, LogoOK
<1>7. correct' \in Seq(Letter) /\ text' \in Seq(Letter \cup {Blank})
  BY <1>1, <1>2, <1>4 DEF Task
<1>8. rack' \in [Cell -> Letter \cup {Blank}]
  BY <1>3, RacksAreTiles DEF Task
<1>9. QED
  BY <1>5, <1>6, <1>7, <1>8 DEF LogoOK

(* A call of task() that never returns leaves the screen cleared.          *)
LEMMA LoopsOK ==
  ASSUME LogoOK, NEW n, TaskLoops(n)
  PROVE  LogoOK' /\ hung' \in BOOLEAN
<1>1. correct' \in Seq(Letter) /\ text' \in Seq(Letter \cup {Blank})
  BY EmptySeq DEF TaskLoops
<1>2. rack' \in [Cell -> Letter \cup {Blank}]
  BY DEF TaskLoops, NoTiles
<1>3. visible' \in BOOLEAN /\ hung' \in BOOLEAN
  BY Zenon DEF TaskLoops, HideButton
<1>4. percent' \in Int
  BY OneType DEF TaskLoops
<1>5. QED
  BY <1>1, <1>2, <1>3, <1>4 DEF LogoOK, TaskLoops

(* A call of task() that ends its handler leaves fields of their types.    *)
LEMMA RunTaskOK ==
  ASSUME TypeOK, NEW n, RunTask(n)
  PROVE  LogoOK' /\ hung' \in BOOLEAN
<1>1. CASE (\E p \in Pics : Task(n, p)) /\ UNCHANGED hung
  BY <1>1, TaskLogoOK DEF TypeOK
<1>2. CASE TaskLoops(n)
  BY <1>2, LoopsOK DEF TypeOK
<1>3. QED
  BY <1>1, <1>2 DEF RunTask

(* getstart() (Quiz.dart:111-114) resets the countdown to the full limit.  *)
LEMMA GetStartOK ==
  ASSUME ClockOK, NEW running \in SUBSET live, GetStart(running)
  PROVE  ClockOK'
BY BoundsAssumption DEF ClockOK, GetStart, FullTime

(* What the end of a tick (Quiz.dart:131-138) hands over is a score.       *)
LEMMA FinishTickOK ==
  ASSUME TypeOK, NEW over, FinishTick(over)
  PROVE  /\ live' \subseteq live
         /\ thanks' \in Seq(Scores)
         /\ life' \in {"current", "covered", "leaving", "gone"}
<1>1. [obt |-> obt_score, tot |-> total_score] \in Scores
  BY ImagesAssumption DEF TypeOK, ScoreOK, LoadsOK, Scores
<1>2. Append(thanks, [obt |-> obt_score, tot |-> total_score]) \in Seq(Scores)
  BY <1>1, AppendProperties DEF TypeOK, RouteOK
<1>3. QED
  BY <1>2 DEF TypeOK, RouteOK, FinishTick, CancelOnEnd

(* A tap leaves text a sequence of letters and blanks, and the rack tiles. *)
LEMMA TapOK ==
  ASSUME LogoOK, NEW c \in Cell, rack[c] # Blank
  PROVE  /\ TextAfter(rack[c]) \in Seq(Letter \cup {Blank})
         /\ DOMAIN TextAfter(rack[c]) = DOMAIN text
         /\ [rack EXCEPT ![c] = Blank] \in [Cell -> Letter \cup {Blank}]
<1>1. /\ Len(text) \in Nat /\ text \in [1 .. Len(text) -> Letter \cup {Blank}]
      /\ DOMAIN text = 1 .. Len(text)
  BY LenProperties DEF LogoOK
<1>2. rack[c] \in Letter
  BY DEF LogoOK
<1>3. Reveal(rack[c]) \in [1 .. Len(text) -> Letter \cup {Blank}]
  BY <1>1, <1>2 DEF Reveal
<1>4. QED
  BY <1>1, <1>3, FunctionIsSeq DEF TextAfter, LogoOK

(* What a step leaves alone keeps its type.                                *)
LEMMA SameOK ==
  /\ LogoOK /\ UNCHANGED logo => LogoOK'
  /\ ClockOK /\ UNCHANGED clock => ClockOK'
  /\ ScoreOK /\ UNCHANGED score => ScoreOK'
  /\ LoadsOK /\ UNCHANGED loads => LoadsOK'
  /\ RouteOK /\ UNCHANGED route => RouteOK'
<1>1. LogoOK /\ UNCHANGED logo => LogoOK'
  BY DEF LogoOK, logo
<1>2. ClockOK /\ UNCHANGED clock => ClockOK'
  BY DEF ClockOK, clock
<1>3. ScoreOK /\ UNCHANGED score => ScoreOK'
  BY DEF ScoreOK, score
<1>4. LoadsOK /\ UNCHANGED loads => LoadsOK'
  BY DEF LoadsOK, loads
<1>5. RouteOK /\ UNCHANGED route => RouteOK'
  BY DEF RouteOK, route
<1>6. QED
  BY <1>1, <1>2, <1>3, <1>4, <1>5

(* The setState of the button's handler keeps the types of what it writes. *)
LEMMA StartBodyOK ==
  ASSUME TypeOK, NEW n, StartBody(n), presses' \in Nat
  PROVE  LogoOK' /\ ClockOK' /\ ScoreOK' /\ hung' \in BOOLEAN
<1>1. LogoOK' /\ hung' \in BOOLEAN
  BY RunTaskOK DEF StartBody
<1>2. PICK running \in SUBSET live : GetStart(running)
  BY DEF StartBody, CancelTimer
<1>3. ClockOK'
  BY <1>2, GetStartOK DEF TypeOK
<1>4. ScoreOK'
  BY DEF StartBody, ScoreOK, TypeOK
<1>5. QED
  BY <1>1, <1>3, <1>4

(* The frame shows the button or it does not.                              *)
LEMMA FrameType == Frame \in {"Start", "game"}
BY DEF Frame

(* The fields start with values of their types (Quiz.dart:28-63).          *)
LEMMA TypeInit == Init => TypeOK
<1> SUFFICES ASSUME Init PROVE TypeOK
  OBVIOUS
<1>1. LogoOK
  <2>1. end \in BOOLEAN /\ visible \in BOOLEAN
    BY Zenon DEF Init
  <2>2. /\ repeat \subseteq Pics /\ count \in Nat /\ loop_count \in Nat
        /\ firstpic \in Pics \cup {NoPic} /\ percent \in Int /\ elapsed \in Nat
    BY OneType DEF Init
  <2>3. correct \in Seq(Letter) /\ text \in Seq(Letter \cup {Blank})
    BY EmptySeq DEF Init
  <2>4. rack \in [Cell -> Letter \cup {Blank}]
    BY DEF Init, NoTiles
  <2>5. QED
    BY <2>1, <2>2, <2>3, <2>4 DEF LogoOK
<1>2. ClockOK /\ ScoreOK
  BY BoundsAssumption DEF Init, ClockOK, ScoreOK, ScoreAtFirst
<1>3. LoadsOK
  BY DEF Init, LoadsOK
<1>4. RouteOK
  BY EmptySeq DEF Init, RouteOK
<1>5. hung \in BOOLEAN
  BY Zenon DEF Init
<1>6. QED
  BY <1>1, <1>2, <1>3, <1>4, <1>5 DEF TypeOK

(* Every step keeps every field in its type.                               *)
LEMMA TypeStep == TypeOK /\ [Next]_vars => TypeOK'
<1> SUFFICES ASSUME TypeOK, [Next]_vars PROVE TypeOK'
  OBVIOUS
<1> USE DEF TypeOK
<1>1. CASE PressStart
  <2>1. LoadsOK' /\ ScoreOK'
    BY <1>1 DEF PressStart, LoadsOK, ScoreOK
  <2>2. QED
    BY <1>1, <2>1, SameOK DEF PressStart
<1>2. CASE PressNext
  <2>1. presses' \in Nat
    BY <1>2 DEF PressNext, ScoreOK
  <2>2. QED
    BY <1>2, <2>1, StartBodyOK, SameOK DEF PressNext
<1>3. CASE PrefsArrive
  <2>1. prefsReady' \in BOOLEAN
    BY <1>3, Zenon DEF PrefsArrive
  <2>2. LoadsOK'
    BY <1>3, <2>1 DEF PrefsArrive, LoadsOK
  <2>3. QED
    BY <1>3, <2>2, SameOK DEF PrefsArrive
<1>4. CASE GetImDone
  <2>1. LoadsOK' /\ presses' \in Nat
    BY <1>4 DEF GetImDone, LoadsOK, ScoreOK
  <2>2. QED
    BY <1>4, <2>1, StartBodyOK, SameOK DEF GetImDone
<1>5. CASE GetImAfterDispose
  <2>1. LoadsOK'
    BY <1>5 DEF GetImAfterDispose, LoadsOK
  <2>2. QED
    BY <1>5, <2>1, SameOK DEF GetImAfterDispose
<1>6. CASE GetImFails
  <2>1. LoadsOK'
    BY <1>6 DEF GetImFails, LoadsOK
  <2>2. QED
    BY <1>6, <2>1, SameOK DEF GetImFails
<1>7. CASE Build
  <2>1. RouteOK'
    BY <1>7, FrameType DEF Build, RouteOK
  <2>2. QED
    BY <1>7, <2>1, SameOK DEF Build
<1>8. ASSUME NEW c \in Cell, TapLetter(c) PROVE TypeOK'
  <2>1. LogoOK'
    <3>1. /\ text' \in Seq(Letter \cup {Blank})
          /\ rack' \in [Cell -> Letter \cup {Blank}]
      BY <1>8, TapOK DEF TapLetter, CanTap, LogoOK
    <3>2. QED
      BY <1>8, <3>1 DEF TapLetter, LogoOK
  <2>2. QED
    BY <1>8, <2>1, SameOK DEF TapLetter
<1>9. ASSUME NEW c \in Cell, TapWin(c) PROVE TypeOK'
  <2>1. ScoreOK'
    BY <1>9 DEF TapWin, ScoreOK
  <2>2. ClockOK'
    BY <1>9, GetStartOK DEF TapWin, CancelTimer
  <2>3. QED
    BY <1>9, <2>1, <2>2, RunTaskOK, SameOK DEF TapWin
<1>10. ASSUME NEW t \in live, Tick(t) PROVE TypeOK'
  <2>1. CASE CountDown(t)
    <3>1. LogoOK'
      <4>1. percent' \in Int /\ elapsed' \in Nat
        BY <2>1 DEF CountDown, Percent, LogoOK, ClockOK
      <4>2. QED
        BY <2>1, <4>1 DEF CountDown, LogoOK
    <3>2. ClockOK'
      <4>1. live' \subseteq live
        BY <2>1, FinishTickOK DEF CountDown
      <4>2. QED
        BY <2>1, <4>1, BoundsAssumption DEF CountDown, TimeLeft, ClockOK
    <3>3. RouteOK'
      BY <2>1, FinishTickOK DEF CountDown, RouteOK
    <3>4. QED
      BY <2>1, <3>1, <3>2, <3>3, SameOK DEF CountDown
  <2>2. CASE TimeOut(t)
    <3>1. LogoOK'
      BY <2>2, TaskLogoOK DEF TimeOut
    <3>2. ClockOK'
      <4>1. live' \subseteq live
        BY <2>2, FinishTickOK DEF TimeOut
      <4>2. QED
        BY <2>2, <4>1, BoundsAssumption DEF TimeOut, FullTime, ClockOK
    <3>3. RouteOK'
      BY <2>2, FinishTickOK DEF TimeOut, RouteOK
    <3>4. QED
      BY <2>2, <3>1, <3>2, <3>3, SameOK DEF TimeOut
  <2>3. CASE TimeOutThrows(t)
    BY <2>3, TaskLogoOK, SameOK DEF TimeOutThrows
  <2>4. CASE TimeOutHangs(t)
    BY <2>4, LoopsOK, SameOK DEF TimeOutHangs, TypeOK
  <2>5. CASE TickAfterDispose(t)
    <3>1. ClockOK'
      BY <2>5 DEF TickAfterDispose, CancelOnEnd, ClockOK
    <3>2. QED
      BY <2>5, <3>1, SameOK DEF TickAfterDispose
  <2>6. QED
    BY <1>10, <2>1, <2>2, <2>3, <2>4, <2>5 DEF Tick
<1>11. CASE Leave
  <2>1. RouteOK'
    BY <1>11 DEF Leave, RouteOK
  <2>2. QED
    BY <1>11, <2>1, SameOK DEF Leave
<1>12. CASE Dispose
  <2>1. RouteOK'
    BY <1>12 DEF Dispose, RouteOK
  <2>2. QED
    BY <1>12, <2>1, SameOK DEF Dispose
<1>13. CASE HelpLands
  <2>1. helpPending' \in BOOLEAN
    BY <1>13, Zenon DEF HelpLands
  <2>2. RouteOK' /\ LoadsOK'
    BY <1>13, <2>1 DEF HelpLands, RouteOK, LoadsOK
  <2>3. QED
    BY <1>13, <2>2, SameOK DEF HelpLands
<1>14. CASE Uncover
  <2>1. RouteOK'
    BY <1>14, FrameType DEF Uncover, RouteOK
  <2>2. QED
    BY <1>14, <2>1, SameOK DEF Uncover
<1>15. CASE UNCHANGED vars
  BY <1>15, SameOK DEF vars
<1>16. QED
  BY <1>1, <1>2, <1>3, <1>4, <1>5, <1>6, <1>7, <1>8, <1>9, <1>10, <1>11,
     <1>12, <1>13, <1>14, <1>15 DEF Next

(* The fields of the Quiz screen keep their types, for every list of       *)
(* images, every title and every order of presses, taps, ticks and route   *)
(* changes (Quiz.dart:28-63).                                              *)
THEOREM TypeCorrect == Spec => []TypeOK
BY TypeInit, TypeStep, PTL DEF Spec

-----------------------------------------------------------------------------
(* Where the game is: one timer, one score handed over.                    *)

(* task() hides the button, and after the last logo brings no tiles.       *)
LEMMA TaskFlow ==
  ASSUME LogoOK, Over, NEW p \in Pics, Task(NumImages, p)
  PROVE  ~visible' /\ Over'
<1>1. ~visible'
  BY Zenon DEF Task, HideButton
<1>2. CASE MoreLogos(NumImages)
  <2>1. ~end
    BY <1>2, ImagesAssumption DEF MoreLogos, Over, LogoOK
  <2>2. end' = end
    BY <1>2 DEF Task
  <2>3. QED
    BY <1>1, <2>1, <2>2 DEF Over
<1>3. CASE ~MoreLogos(NumImages)
  <2>1. rack' = NoTiles /\ loop_count' = loop_count
    BY <1>3 DEF Task
  <2>2. loop_count >= NumImages - 1
    BY <1>3, ImagesAssumption DEF MoreLogos, LogoOK
  <2>3. QED
    BY <1>1, <2>1, <2>2 DEF Over, NoTiles
<1>4. QED
  BY <1>2, <1>3

(* However a call of task() ends, the button is hidden and a game that is  *)
(* over has no tiles.                                                      *)
LEMMA RunTaskFlow ==
  ASSUME TypeOK, FlowInv, RunTask(NumImages)
  PROVE  ~visible' /\ Over'
<1>1. CASE \E p \in Pics : Task(NumImages, p)
  BY <1>1, TaskFlow DEF TypeOK, FlowInv
<1>2. CASE TaskLoops(NumImages)
  <2>1. ~visible'
    BY <1>2, Zenon DEF TaskLoops, HideButton
  <2>2. Over'
    BY <1>2 DEF FlowInv, Over, TaskLoops, NoTiles
  <2>3. QED
    BY <2>1, <2>2
<1>3. QED
  BY <1>1, <1>2 DEF RunTask

(* A press or a win while the score is still here: the old timer goes, one *)
(* new timer comes.                                                        *)
LEMMA RestartFlow ==
  ASSUME TypeOK, FlowInv, NEW running \in SUBSET live, timer \notin running,
         GetStart(running), RunTask(NumImages), start' = "Next",
         obt_score' = obt_score + 1, thanks = << >>, thanks' = thanks,
         prefsReady', nimages' = NumImages, total_score' = NumImages
  PROVE  FlowInv'
<1>1. OneTimer'
  BY DEF FlowInv, OneTimer, GetStart
<1>2. NotBegun'
  BY DEF NotBegun
<1>3. obt_score' >= 0
  BY DEF FlowInv, NotBegun, Begun, TypeOK, ScoreOK
<1>4. Begun'
  BY <1>3, RunTaskFlow DEF Begun
<1>5. HandedOver' /\ AtMostOneThanks'
  BY EmptySeq DEF HandedOver, AtMostOneThanks
<1>6. QED
  BY <1>1, <1>2, <1>4, <1>5, RunTaskFlow DEF FlowInv

(* The handler of the button begins a game with one timer.                 *)
LEMMA StartBodyFlow ==
  ASSUME TypeOK, FlowInv, StartBody(NumImages), thanks = << >>,
         thanks' = thanks, prefsReady', nimages' = NumImages,
         total_score' = NumImages
  PROVE  FlowInv'
<1>1. PICK running \in SUBSET live : timer \notin running /\ GetStart(running)
  <2>1. CASE start = "Next"
    BY <2>1 DEF StartBody, CancelTimer
  <2>2. CASE start = "Start"
    BY <2>2 DEF StartBody, FlowInv, NotBegun
  <2>3. QED
    BY <2>1, <2>2 DEF TypeOK, ScoreOK
<1>2. QED
  BY <1>1, RestartFlow DEF StartBody

(* While a timer fires the game is on and its score still here.            *)
LEMMA TickFlow ==
  ASSUME TypeOK, FlowInv, Idle, NEW t \in live
  PROVE  /\ start = "Next" /\ thanks = << >> /\ loading = 0 /\ live = {timer}
         /\ nimages = NumImages /\ t = timer
<1>1. start = "Next"
  BY DEF TypeOK, ScoreOK, FlowInv, NotBegun
<1>2. thanks = << >>
  BY DEF FlowInv, HandedOver
<1>3. loading = 0
  BY <1>1 DEF Idle, FlowInv, Begun, TypeOK, LoadsOK
<1>4. QED
  BY <1>1, <1>2, <1>3 DEF FlowInv, OneTimer, Begun

(* The second setState of the timer's callback, after a first one that     *)
(* keeps the rest of the invariant.                                        *)
LEMMA FinishFlow ==
  ASSUME TypeOK, FlowInv, Idle, NEW t \in live, FinishTick(end'),
         UNCHANGED <<timer, score, loads, built>>, visible' = FALSE, Over'
  PROVE  FlowInv'
<1>1. /\ start = "Next" /\ thanks = << >> /\ loading = 0 /\ live = {timer}
  BY TickFlow
<1>2. OneTimer'
  BY <1>1 DEF FinishTick, CancelOnEnd, OneTimer
<1>3. NotBegun'
  BY <1>1 DEF NotBegun, score
<1>4. Begun'
  BY <1>1 DEF FlowInv, Begun, score, loads
<1>5. CASE end'
  <2>1. /\ live' = {} /\ life' # "current"
        /\ thanks' = <<[obt |-> obt_score, tot |-> total_score]>>
    BY <1>1, <1>5 DEF FinishTick, CancelOnEnd
  <2>2. HandedOver'
    BY <1>1, <1>5, <2>1 DEF HandedOver, score, loads
  <2>3. AtMostOneThanks'
    BY <2>1 DEF AtMostOneThanks
  <2>4. QED
    BY <1>2, <1>3, <1>4, <2>2, <2>3 DEF FlowInv
<1>6. CASE ~end'
  <2>1. thanks' = << >>
    BY <1>1, <1>6 DEF FinishTick
  <2>2. HandedOver' /\ AtMostOneThanks'
    BY <2>1, EmptySeq DEF HandedOver, AtMostOneThanks
  <2>3. QED
    BY <1>2, <1>3, <1>4, <2>2 DEF FlowInv
<1>7. QED
  BY <1>5, <1>6

(* The part of FlowInv that a step leaves alone when it writes neither the *)
(* logo, the clock, the score nor the scores handed over.                  *)
LEMMA QuietFlow ==
  ASSUME TypeOK, FlowInv, UNCHANGED <<logo, clock, start, obt_score, thanks>>,
         start = "Next" =>
           prefsReady' /\ nimages' = NumImages /\ total_score' = NumImages,
         thanks # << >> => loading' = 0,
         thanks # << >> /\ life' = "current" => built' = "game"
  PROVE  FlowInv'
<1>1. OneTimer' /\ NotBegun' /\ AtMostOneThanks'
  BY DEF FlowInv, OneTimer, NotBegun, AtMostOneThanks, logo, clock, NoTiles
<1>2. Begun'
  BY DEF FlowInv, Begun, logo
<1>3. Over' /\ HandedOver'
  BY DEF FlowInv, Over, HandedOver, logo, clock, NoTiles
<1>4. QED
  BY <1>1, <1>2, <1>3 DEF FlowInv

(* A game once begun shows no button.                                      *)
LEMMA FrameInGame ==
  ASSUME FlowInv, start = "Next"
  PROVE  Frame = "game"
BY DEF FlowInv, Begun, Frame, StartButton

(* A new Quiz screen has no timer, no tiles and no score.                  *)
LEMMA FlowInit == Init => FlowInv
<1> SUFFICES ASSUME Init PROVE FlowInv
  OBVIOUS
<1>1. OneTimer /\ NotBegun /\ Begun
  BY DEF Init, OneTimer, NotBegun, Begun, ScoreAtFirst
<1>2. Over /\ HandedOver
  BY DEF Init, Over, HandedOver
<1>3. AtMostOneThanks
  BY EmptySeq DEF Init, AtMostOneThanks
<1>4. QED
  BY <1>1, <1>2, <1>3 DEF FlowInv

(* Every step keeps the timer, the button, the tiles and the route agreed. *)
LEMMA FlowStep == TypeOK /\ FlowInv /\ [Next]_vars => FlowInv'
<1> SUFFICES ASSUME TypeOK, FlowInv, [Next]_vars PROVE FlowInv'
  OBVIOUS
<1>1. CASE PressStart
  <2>1. thanks = << >>
    BY <1>1 DEF PressStart, FlowInv, HandedOver
  <2>2. QED
    BY <1>1, <2>1, QuietFlow DEF PressStart, route
<1>2. CASE PressNext
  <2>1. thanks = << >>
    BY <1>2 DEF PressNext, FlowInv, HandedOver
  <2>2. /\ prefsReady' /\ nimages' = NumImages /\ total_score' = NumImages
        /\ nimages = NumImages /\ thanks' = thanks
    BY <1>2 DEF PressNext, FlowInv, Begun, loads, route
  <2>3. StartBody(NumImages)
    BY <1>2, <2>2 DEF PressNext
  <2>4. QED
    BY <2>1, <2>2, <2>3, StartBodyFlow
<1>3. CASE PrefsArrive
  <2>1. start # "Next"
    BY <1>3 DEF PrefsArrive, FlowInv, Begun
  <2>2. thanks = << >>
    BY <2>1 DEF FlowInv, HandedOver
  <2>3. QED
    BY <1>3, <2>1, <2>2, QuietFlow DEF PrefsArrive, score, route
<1>4. CASE GetImDone
  <2>1. thanks = << >>
    BY <1>4 DEF GetImDone, FlowInv, HandedOver
  <2>2. QED
    BY <1>4, <2>1, StartBodyFlow DEF GetImDone, route
<1>5. CASE GetImAfterDispose
  <2>1. thanks = << >>
    BY <1>5 DEF GetImAfterDispose, FlowInv, HandedOver
  <2>2. QED
    BY <1>5, <2>1, QuietFlow DEF GetImAfterDispose, score, route
<1>6. CASE GetImFails
  <2>1. thanks = << >>
    BY <1>6 DEF GetImFails, FlowInv, HandedOver
  <2>2. QED
    BY <1>6, <2>1, QuietFlow DEF GetImFails, score, route, FlowInv, Begun
<1>7. CASE Build
  <2>1. thanks # << >> => built' = "game"
    BY <1>7, FrameInGame DEF Build, FlowInv, HandedOver
  <2>2. QED
    BY <1>7, <2>1, QuietFlow
       DEF Build, score, loads, FlowInv, Begun, HandedOver
<1>8. ASSUME NEW c \in Cell, TapLetter(c) PROVE FlowInv'
  <2>1. rack # NoTiles
    BY <1>8 DEF TapLetter, CanTap, NoTiles
  <2>2. start = "Next" /\ ~end
    BY <2>1 DEF FlowInv, NotBegun, Over, TypeOK, ScoreOK
  <2>3. OneTimer' /\ NotBegun' /\ Begun'
    BY <1>8, <2>2 DEF TapLetter, FlowInv, OneTimer, NotBegun, Begun, clock,
                      score, loads
  <2>4. Over'
    BY <1>8, <2>2 DEF TapLetter, Over
  <2>5. HandedOver' /\ AtMostOneThanks'
    BY <1>8, <2>2 DEF TapLetter, FlowInv, HandedOver, AtMostOneThanks, route
  <2>6. QED
    BY <2>3, <2>4, <2>5 DEF FlowInv
<1>9. ASSUME NEW c \in Cell, TapWin(c) PROVE FlowInv'
  <2>1. rack # NoTiles
    BY <1>9 DEF TapWin, CanTap, NoTiles
  <2>2. start = "Next" /\ ~end
    BY <2>1 DEF FlowInv, NotBegun, Over, TypeOK, ScoreOK
  <2>3. thanks = << >> /\ nimages = NumImages
    BY <2>2 DEF FlowInv, HandedOver, Begun
  <2>4. /\ prefsReady' /\ nimages' = NumImages /\ total_score' = NumImages
        /\ thanks' = thanks
    BY <1>9, <2>2 DEF TapWin, FlowInv, Begun, loads, route
  <2>5. CancelTimer \in SUBSET live /\ timer \notin CancelTimer
    BY DEF CancelTimer
  <2>6. RunTask(NumImages) /\ GetStart(CancelTimer) /\ start' = "Next"
        /\ obt_score' = obt_score + 1
    BY <1>9, <2>3 DEF TapWin
  <2>7. QED
    BY <2>3, <2>4, <2>5, <2>6, RestartFlow
<1>10. ASSUME NEW t \in live, Tick(t) PROVE FlowInv'
  <2>1. CASE CountDown(t)
    <3>1. Idle /\ start = "Next"
      BY <2>1, TickFlow DEF CountDown
    <3>2. visible' = FALSE
      <4>1. ~visible /\ visible \in BOOLEAN
        BY <3>1 DEF FlowInv, Begun, TypeOK, LogoOK
      <4>2. visible = FALSE
        BY <4>1, Zenon
      <4>3. QED
        BY <2>1, <4>2 DEF CountDown
    <3>3. Over'
      BY <2>1 DEF CountDown, FlowInv, Over, NoTiles
    <3>4. FinishTick(end') /\ UNCHANGED <<timer, score, loads, built>>
      BY <2>1 DEF CountDown
    <3>5. QED
      BY <3>1, <3>2, <3>3, <3>4, FinishFlow
  <2>2. CASE TimeOut(t)
    <3>1. Idle /\ nimages = NumImages
      BY <2>2, TickFlow DEF TimeOut
    <3>2. PICK p \in Pics : Task(NumImages, p)
      BY <2>2, <3>1 DEF TimeOut
    <3>3. Over'
      BY <3>2, TaskFlow DEF TypeOK, FlowInv
    <3>4. visible' = FALSE
      BY <3>2 DEF Task, HideButton
    <3>5. FinishTick(end') /\ UNCHANGED <<timer, score, loads, built>>
      BY <2>2 DEF TimeOut
    <3>6. QED
      BY <3>1, <3>3, <3>4, <3>5, FinishFlow
  <2>3. CASE TimeOutThrows(t) \/ TimeOutHangs(t)
    <3>1. /\ start = "Next" /\ thanks = << >> /\ nimages = NumImages
      BY <2>3, TickFlow DEF TimeOutThrows, TimeOutHangs
    <3>2. RunTask(NumImages)
      BY <2>3, <3>1 DEF TimeOutThrows, TimeOutHangs, RunTask
    <3>3. ~visible' /\ Over'
      BY <3>2, RunTaskFlow
    <3>4. UNCHANGED <<clock, score, loads, route>>
      BY <2>3 DEF TimeOutThrows, TimeOutHangs
    <3>5. OneTimer' /\ NotBegun' /\ Begun'
      BY <3>1, <3>3, <3>4 DEF FlowInv, OneTimer, NotBegun, Begun, clock,
                              score, loads
    <3>6. HandedOver' /\ AtMostOneThanks'
      BY <3>1, <3>4, EmptySeq DEF HandedOver, AtMostOneThanks, route
    <3>7. QED
      BY <3>3, <3>5, <3>6 DEF FlowInv
  <2>4. CASE TickAfterDispose(t)
    <3>1. /\ start = "Next" /\ thanks = << >>
      BY <2>4, TickFlow DEF TickAfterDispose
    <3>2. OneTimer'
      BY <2>4 DEF TickAfterDispose, CancelOnEnd, FlowInv, OneTimer
    <3>3. NotBegun' /\ Begun'
      BY <2>4, <3>1 DEF TickAfterDispose, FlowInv, NotBegun, Begun, logo,
                        score, loads
    <3>4. Over'
      BY <2>4 DEF TickAfterDispose, FlowInv, Over, logo, NoTiles
    <3>5. HandedOver' /\ AtMostOneThanks'
      BY <2>4, <3>1, EmptySeq DEF TickAfterDispose, HandedOver,
                                  AtMostOneThanks, route
    <3>6. QED
      BY <3>2, <3>3, <3>4, <3>5 DEF FlowInv
  <2>5. QED
    BY <1>10, <2>1, <2>2, <2>3, <2>4 DEF Tick
<1>11. CASE Leave
  BY <1>11, QuietFlow DEF Leave, score, loads, FlowInv, Begun, HandedOver
<1>12. CASE Dispose
  BY <1>12, QuietFlow DEF Dispose, score, loads, FlowInv, Begun, HandedOver
<1>13. CASE HelpLands
  BY <1>13, QuietFlow DEF HelpLands, score, FlowInv, Begun, HandedOver
<1>14. CASE Uncover
  <2>1. thanks # << >> => built' = "game"
    BY <1>14, FrameInGame DEF Uncover, FlowInv, HandedOver
  <2>2. QED
    BY <1>14, <2>1, QuietFlow
       DEF Uncover, score, loads, FlowInv, Begun, HandedOver
<1>15. CASE UNCHANGED vars
  BY <1>15, QuietFlow
     DEF vars, score, loads, route, FlowInv, Begun, HandedOver
<1>16. QED
  BY <1>1, <1>2, <1>3, <1>4, <1>5, <1>6, <1>7, <1>8, <1>9, <1>10, <1>11,
     <1>12, <1>13, <1>14, <1>15 DEF Next

(* The timer, the button, the tiles and the route always agree.            *)
LEMMA FlowCorrect == Spec => [](TypeOK /\ FlowInv)
<1>1. Init => TypeOK /\ FlowInv
  BY TypeInit, FlowInit
<1>2. TypeOK /\ FlowInv /\ [Next]_vars => (TypeOK /\ FlowInv)'
  BY TypeStep, FlowStep
<1>3. QED
  BY <1>1, <1>2, PTL DEF Spec

(* At most one periodic Timer fires at any moment, whatever is pressed     *)
(* twice, solved, timed out or left (Quiz.dart:111-141, 325, 408).         *)
THEOREM TimersNeverPileUp == Spec => []OneTimer
<1>1. FlowInv => OneTimer
  BY DEF FlowInv
<1>2. QED
  BY <1>1, FlowCorrect, PTL

(* A game hands its score to "/thanks" at most once (Quiz.dart:131-138).   *)
THEOREM OneScoreHandedOver == Spec => []AtMostOneThanks
<1>1. FlowInv => AtMostOneThanks
  BY DEF FlowInv
<1>2. QED
  BY <1>1, FlowCorrect, PTL

(* Neither Next nor Done is ever offered in a game (Quiz.dart:294, 341).   *)
THEOREM ButtonsStayHidden == Spec => []NoButtonInGame
<1>1. FlowInv => NoButtonInGame
  BY DEF FlowInv, Begun, NoButtonInGame, StartButton, DoneButton
<1>2. QED
  BY <1>1, FlowCorrect, PTL

-----------------------------------------------------------------------------
(* The score.                                                              *)

(* The images drawn are finitely many, and no more than there are.         *)
LEMMA DrawsBounded ==
  ASSUME LogoOK
  PROVE  /\ IsFiniteSet(repeat) /\ Cardinality(repeat) \in Nat
         /\ Cardinality(repeat) <= NumImages
<1>1. IsFiniteSet(Pics) /\ Cardinality(Pics) = NumImages
  <2>1. 0 \in Int /\ NumImages - 1 \in Int /\ ~(0 > NumImages - 1)
        /\ (NumImages - 1) - 0 + 1 = NumImages
    BY ImagesAssumption
  <2>2. QED
    BY <2>1, FS_Interval DEF Pics
<1>2. repeat \in SUBSET Pics
  BY DEF LogoOK
<1>3. QED
  BY <1>1, <1>2, FS_Subset, FS_CardinalityType

(* Every call of task() that returns draws one image more.                 *)
LEMMA TaskDraws ==
  ASSUME LogoOK, NEW n, NEW p, Task(n, p)
  PROVE  Cardinality(repeat') = Cardinality(repeat) + 1
<1>1. p \notin repeat /\ repeat' = repeat \cup {p}
  BY DEF Task
<1>2. QED
  BY <1>1, DrawsBounded, FS_AddElement

(* A press or a win: a point and a draw, or the endless loop.              *)
LEMMA PointNeedsDraw ==
  ASSUME TypeOK, ScoreWithinDraws, ~hung, NEW n, RunTask(n),
         obt_score' = obt_score + 1
  PROVE  ScoreWithinDraws'
<1>1. obt_score < Cardinality(repeat)
  BY DEF ScoreWithinDraws
<1>2. CASE \E p \in Pics : Task(n, p)
  <2>1. Cardinality(repeat') = Cardinality(repeat) + 1
    BY <1>2, TaskDraws DEF TypeOK
  <2>2. QED
    BY <1>1, <2>1, DrawsBounded DEF ScoreWithinDraws, TypeOK, ScoreOK
<1>3. CASE hung' = TRUE
  BY <1>3 DEF ScoreWithinDraws
<1>4. QED
  BY <1>2, <1>3 DEF RunTask, TaskLoops

(* A timeout: a draw and no point.                                         *)
LEMMA DrawKeepsScore ==
  ASSUME TypeOK, ScoreWithinDraws, NEW n, NEW p, Task(n, p),
         UNCHANGED <<obt_score, hung>>
  PROVE  ScoreWithinDraws'
BY TaskDraws, DrawsBounded DEF ScoreWithinDraws, TypeOK, ScoreOK

(* A new Quiz screen has scored nothing and handed over nothing.           *)
LEMMA ScoreInit == Init => ScoreWithinDraws /\ ScoreBelowTotal
<1> SUFFICES ASSUME Init PROVE ScoreWithinDraws /\ ScoreBelowTotal
  OBVIOUS
<1>1. ScoreWithinDraws
  BY FS_EmptySet DEF Init, ScoreWithinDraws, ScoreAtFirst
<1>2. ScoreBelowTotal
  BY DEF Init, ScoreBelowTotal
<1>3. QED
  BY <1>1, <1>2

(* Every step keeps the score below the number of images drawn.            *)
LEMMA DrawsStep ==
  TypeOK /\ ScoreWithinDraws /\ [Next]_vars => ScoreWithinDraws'
<1> SUFFICES ASSUME TypeOK, ScoreWithinDraws, [Next]_vars
             PROVE  ScoreWithinDraws'
  OBVIOUS
<1>1. CASE UNCHANGED <<repeat, obt_score, hung>>
  BY <1>1 DEF ScoreWithinDraws
<1>2. CASE PressNext
  BY <1>2, PointNeedsDraw DEF PressNext, Idle, StartBody
<1>3. CASE GetImDone
  BY <1>3, PointNeedsDraw DEF GetImDone, StartBody
<1>4. ASSUME NEW c \in Cell, TapWin(c) PROVE ScoreWithinDraws'
  BY <1>4, PointNeedsDraw DEF TapWin, CanTap, Idle
<1>5. ASSUME NEW t \in live, TimeOut(t) \/ TimeOutThrows(t)
      PROVE  ScoreWithinDraws'
  BY <1>5, DrawKeepsScore DEF TimeOut, TimeOutThrows, score
<1>6. ASSUME NEW t \in live, TimeOutHangs(t) PROVE ScoreWithinDraws'
  BY <1>6 DEF TimeOutHangs, TaskLoops, ScoreWithinDraws
<1>7. CASE \/ PressStart \/ PrefsArrive \/ GetImAfterDispose \/ GetImFails
           \/ Build \/ Leave \/ Dispose \/ HelpLands \/ Uncover
  BY <1>1, <1>7 DEF PressStart, PrefsArrive, GetImAfterDispose, GetImFails,
                    Build, Leave, Dispose, HelpLands, Uncover, logo, score
<1>8. ASSUME NEW c \in Cell, TapLetter(c) PROVE ScoreWithinDraws'
  BY <1>1, <1>8 DEF TapLetter, score
<1>9. ASSUME NEW t \in live, CountDown(t) \/ TickAfterDispose(t)
      PROVE  ScoreWithinDraws'
  BY <1>1, <1>9 DEF CountDown, TickAfterDispose, logo, score
<1>10. CASE UNCHANGED vars
  BY <1>1, <1>10 DEF vars, logo, score
<1>11. QED
  BY <1>2, <1>3, <1>4, <1>5, <1>6, <1>7, <1>8, <1>9, <1>10 DEF Next, Tick

(* The tick that ends the game hands over a score of 0 .. NumImages - 1.   *)
LEMMA HandOver ==
  ASSUME TypeOK, FlowInv, ScoreWithinDraws, ScoreBelowTotal, Idle,
         NEW t \in live, NEW over, FinishTick(over)
  PROVE  ScoreBelowTotal'
<1>1. thanks = << >> /\ start = "Next"
  BY TickFlow
<1>2. 0 <= obt_score /\ obt_score < total_score
  <2>1. obt_score >= 0 /\ total_score = NumImages
    BY <1>1 DEF FlowInv, Begun
  <2>2. obt_score < Cardinality(repeat)
    BY DEF Idle, ScoreWithinDraws
  <2>3. QED
    BY <2>1, <2>2, DrawsBounded, ImagesAssumption DEF TypeOK, ScoreOK
<1>3. CASE over
  <2>1. thanks' = <<[obt |-> obt_score, tot |-> total_score]>>
    BY <1>1, <1>3 DEF FinishTick
  <2>2. QED
    BY <1>2, <2>1 DEF ScoreBelowTotal
<1>4. CASE thanks' = thanks
  BY <1>4 DEF ScoreBelowTotal
<1>5. QED
  BY <1>3, <1>4 DEF FinishTick

(* Every step keeps the scores handed over below the total.                *)
LEMMA ScoreStep ==
  TypeOK /\ FlowInv /\ ScoreWithinDraws /\ ScoreBelowTotal /\ [Next]_vars
    => ScoreBelowTotal'
<1> SUFFICES ASSUME TypeOK, FlowInv, ScoreWithinDraws, ScoreBelowTotal,
                    [Next]_vars
             PROVE  ScoreBelowTotal'
  OBVIOUS
<1>1. CASE thanks' = thanks
  BY <1>1 DEF ScoreBelowTotal
<1>2. ASSUME NEW t \in live, CountDown(t) \/ TimeOut(t) PROVE ScoreBelowTotal'
  BY <1>2, HandOver DEF CountDown, TimeOut
<1>3. CASE \/ PressStart \/ PressNext \/ PrefsArrive \/ GetImDone
           \/ GetImAfterDispose \/ GetImFails \/ Build
           \/ \E c \in Cell : TapLetter(c) \/ TapWin(c)
           \/ Leave \/ Dispose \/ HelpLands \/ Uncover
  BY <1>1, <1>3 DEF PressStart, PressNext, PrefsArrive, GetImDone,
       GetImAfterDispose, GetImFails, Build, TapLetter, TapWin, Leave,
       Dispose, HelpLands, Uncover, route
<1>4. ASSUME NEW t \in live,
             TimeOutThrows(t) \/ TimeOutHangs(t) \/ TickAfterDispose(t)
      PROVE  ScoreBelowTotal'
  BY <1>1, <1>4 DEF TimeOutThrows, TimeOutHangs, TickAfterDispose, route
<1>5. CASE UNCHANGED vars
  BY <1>1, <1>5 DEF vars, route
<1>6. QED
  BY <1>2, <1>3, <1>4, <1>5 DEF Next, Tick

(* The score is bounded by the draws, and the draws by the list.           *)
LEMMA ScoreCorrect ==
  Spec => [](TypeOK /\ FlowInv /\ ScoreWithinDraws /\ ScoreBelowTotal)
<1>1. Init => TypeOK /\ FlowInv /\ ScoreWithinDraws /\ ScoreBelowTotal
  BY TypeInit, FlowInit, ScoreInit
<1>2. TypeOK /\ FlowInv /\ ScoreWithinDraws /\ ScoreBelowTotal /\ [Next]_vars
        => (TypeOK /\ FlowInv /\ ScoreWithinDraws /\ ScoreBelowTotal)'
  BY TypeStep, FlowStep, DrawsStep, ScoreStep
<1>3. QED
  BY <1>1, <1>2, PTL DEF Spec

(* The score never overtakes the number of images drawn: a point always    *)
(* costs a call of task() (Quiz.dart:332-336, 413-417).                    *)
THEOREM PointsCostDraws == Spec => []ScoreWithinDraws
BY ScoreCorrect, PTL

(* The score handed to "/thanks" is at least 0 and below the number of     *)
(* images, for every list and every play (Quiz.dart:57, 134-136).          *)
THEOREM ScoreNeverFull == Spec => []ScoreBelowTotal
BY ScoreCorrect, PTL

-----------------------------------------------------------------------------
(* The letters and the tiles.                                              *)

(* Every letter of a title is on a tile that task() deals.                 *)
LEMMA RackHasLetters ==
  ASSUME NEW t \in Seq(Letter), NEW rk \in Racks(t), NEW x \in DOMAIN t
  PROVE  \E c \in Cell : rk[c] = t[x]
<1>1. Len(t) \in Nat /\ DOMAIN t = 1 .. Len(t) /\ t[x] \in Letter
  BY LenProperties, ElementOfSeq
<1> DEFINE In  == {i \in DOMAIN t : t[i] = t[x]}
           Out == {c \in DOMAIN rk : rk[c] = t[x]}
<1>2. DOMAIN rk = Cell
  BY DEF Racks
<1>3. IsFiniteSet(In) /\ IsFiniteSet(Out)
  <2>1. IsFiniteSet(1 .. Len(t))
    BY <1>1, FS_Interval
  <2>2. IsFiniteSet(Cell)
    BY FS_Interval, BoundsAssumption DEF Cell, RackSize
  <2>3. In \in SUBSET (1 .. Len(t)) /\ Out \in SUBSET Cell
    BY <1>1, <1>2
  <2>4. QED
    BY <2>1, <2>2, <2>3, FS_Subset
<1>4. Cardinality(In) <= Cardinality(Out)
  BY <1>1 DEF Racks, Copies
<1>5. In # {}
  OBVIOUS
<1>6. Cardinality(In) \in Nat /\ Cardinality(In) # 0 /\ Cardinality(Out) \in Nat
  BY <1>3, <1>5, FS_EmptySet, FS_CardinalityType
<1>7. Out # {}
  BY <1>3, <1>4, <1>6, FS_EmptySet
<1>8. QED
  BY <1>2, <1>7

(* task() shows a logo with nothing filled in and all its letters on the   *)
(* tiles.                                                                  *)
LEMMA TaskAnswer ==
  ASSUME LogoOK, NEW n, NEW p \in Pics, Task(n, p)
  PROVE  AnswerInv'
<1>1. Title[p] \in Seq(Letter) /\ Len(Title[p]) \in Nat
      /\ DOMAIN Title[p] = 1 .. Len(Title[p])
  BY ImagesAssumption, LenProperties
<1>2. \/ correct' = << >> /\ text' = << >>
      \/ correct' = Title[p] /\ text' = [x \in 1 .. Len(Title[p]) |-> Blank]
  BY DEF Task
<1>3. SameLength'
  BY <1>1, <1>2 DEF SameLength
<1>4. SolvedNeverLingers'
  <2>1. SUFFICES ASSUME text' = correct', correct' # << >> PROVE FALSE
    BY DEF SolvedNeverLingers
  <2>2. correct' = Title[p] /\ text' = [x \in 1 .. Len(Title[p]) |-> Blank]
    BY <1>2, <2>1
  <2>3. Len(Title[p]) \in Nat \ {0}
    BY <1>1, <2>1, <2>2, EmptySeq
  <2>4. Title[p][1] \in Letter /\ text'[1] = Blank
    BY <1>1, <2>2, <2>3, ElementOfSeq
  <2>5. QED
    BY <2>1, <2>2, <2>4, LettersAssumption
<1>5. Solvable'
  <2>1. SUFFICES ASSUME firstpic' # NoPic, WellFormed(firstpic'), ~end',
                        NEW x \in DOMAIN correct'
                 PROVE  text'[x] = Blank /\ \E c \in Cell : rack'[c] = correct'[x]
    BY DEF Solvable
  <2>2. MoreLogos(n) /\ firstpic' = p
    BY <2>1 DEF Task
  <2>3. rack' \in Racks(Title[p])
    BY <2>1, <2>2 DEF Task
  <2>4. correct' = Title[p] /\ text' = [y \in 1 .. Len(Title[p]) |-> Blank]
    BY <2>1, <2>2 DEF Task, WellFormed
  <2>5. QED
    BY <1>1, <2>1, <2>3, <2>4, RackHasLetters
<1>6. QED
  BY <1>3, <1>4, <1>5 DEF AnswerInv

(* A step that leaves the logo alone keeps its letters and tiles.          *)
LEMMA SameAnswer ==
  ASSUME AnswerInv, UNCHANGED <<correct, text, rack, firstpic, end>>,
         hung => hung'
  PROVE  AnswerInv'
<1>1. SameLength' /\ SolvedNeverLingers'
  BY DEF AnswerInv, SameLength, SolvedNeverLingers
<1>2. Solvable'
  BY DEF AnswerInv, Solvable
<1>3. QED
  BY <1>1, <1>2 DEF AnswerInv

(* A call of task() that never returns leaves no letters and no answer.    *)
LEMMA LoopsAnswer ==
  ASSUME NEW n, TaskLoops(n)
  PROVE  AnswerInv'
<1>1. SameLength' /\ SolvedNeverLingers'
  BY DEF TaskLoops, SameLength, SolvedNeverLingers
<1>2. Solvable'
  BY DEF TaskLoops, Solvable
<1>3. QED
  BY <1>1, <1>2 DEF AnswerInv

(* A call of task() that ends its handler deals a solvable logo.           *)
LEMMA RunTaskAnswer ==
  ASSUME TypeOK, AnswerInv, NEW n, RunTask(n), ~hung
  PROVE  AnswerInv'
<1>1. CASE \E p \in Pics : Task(n, p)
  BY <1>1, TaskAnswer DEF TypeOK
<1>2. CASE TaskLoops(n)
  BY <1>2, LoopsAnswer
<1>3. QED
  BY <1>1, <1>2 DEF RunTask

(* A tap that does not win: it fills every place of its letter and takes   *)
(* that tile only, so the letters still missing keep theirs.               *)
LEMMA TapAnswer ==
  ASSUME TypeOK, AnswerInv, NEW c \in Cell, TapLetter(c)
  PROVE  AnswerInv'
<1> DEFINE a == rack[c]
<1>1. /\ text' = TextAfter(a) /\ ~Wins(c) /\ a # Blank
      /\ UNCHANGED <<correct, firstpic, end, hung>>
  BY DEF TapLetter, CanTap
<1>2. DOMAIN TextAfter(a) = DOMAIN text
  BY <1>1, TapOK DEF TypeOK
<1>3. SameLength'
  BY <1>1, <1>2 DEF AnswerInv, SameLength
<1>4. SolvedNeverLingers'
  <2>1. CASE Hits(a)
    BY <1>1, <2>1 DEF Wins, SolvedNeverLingers
  <2>2. CASE ~Hits(a)
    BY <1>1, <2>2 DEF TextAfter, AnswerInv, SolvedNeverLingers
  <2>3. QED
    BY <2>1, <2>2
<1>5. Solvable'
  <2>1. CASE ~Hits(a)
    <3>1. text' = text /\ rack' = rack
      BY <1>1, <2>1 DEF TextAfter, TapLetter
    <3>2. QED
      BY <1>1, <3>1 DEF AnswerInv, Solvable
  <2>2. CASE Hits(a)
    <3>1. rack' = [rack EXCEPT ![c] = Blank]
      BY <2>2 DEF TapLetter
    <3>2. text' = [x \in DOMAIN text |-> IF correct[x] = a THEN a ELSE text[x]]
      BY <1>1, <2>2 DEF TextAfter, Reveal
    <3>3. SUFFICES ASSUME firstpic # NoPic, WellFormed(firstpic), ~end, ~hung,
                          NEW x \in DOMAIN correct
                   PROVE  \/ text'[x] = correct[x]
                          \/ /\ text'[x] = Blank
                             /\ \E d \in Cell : rack'[d] = correct[x]
      BY <1>1 DEF Solvable
    <3>4. x \in DOMAIN text
      BY <3>3 DEF AnswerInv, SameLength
    <3>5. CASE correct[x] = a
      BY <3>2, <3>4, <3>5
    <3>6. CASE correct[x] # a
      <4>1. text'[x] = text[x]
        BY <3>2, <3>4, <3>6
      <4>2. \/ text[x] = correct[x]
            \/ text[x] = Blank /\ \E d \in Cell : rack[d] = correct[x]
        BY <3>3 DEF AnswerInv, Solvable
      <4>3. \A d \in Cell : rack[d] = correct[x] => rack'[d] = rack[d]
        BY <3>1, <3>6 DEF TypeOK, LogoOK
      <4>4. QED
        BY <4>1, <4>2, <4>3
    <3>7. QED
      BY <3>5, <3>6
  <2>3. QED
    BY <2>1, <2>2
<1>6. QED
  BY <1>3, <1>4, <1>5 DEF AnswerInv

(* Before the first logo there is no letter to miss.                       *)
LEMMA AnswerInit == Init => AnswerInv
<1> SUFFICES ASSUME Init PROVE AnswerInv
  OBVIOUS
<1>1. SameLength /\ SolvedNeverLingers
  BY DEF Init, SameLength, SolvedNeverLingers
<1>2. Solvable
  BY DEF Init, Solvable
<1>3. QED
  BY <1>1, <1>2 DEF AnswerInv

(* Every step keeps the letters and the tiles agreed.                      *)
LEMMA AnswerStep == TypeOK /\ AnswerInv /\ [Next]_vars => AnswerInv'
<1> SUFFICES ASSUME TypeOK, AnswerInv, [Next]_vars PROVE AnswerInv'
  OBVIOUS
<1>1. CASE PressNext
  BY <1>1, RunTaskAnswer DEF PressNext, StartBody, Idle
<1>2. CASE GetImDone
  BY <1>2, RunTaskAnswer DEF GetImDone, StartBody
<1>3. ASSUME NEW c \in Cell, TapWin(c) PROVE AnswerInv'
  BY <1>3, RunTaskAnswer DEF TapWin, CanTap, Idle
<1>4. ASSUME NEW c \in Cell, TapLetter(c) PROVE AnswerInv'
  BY <1>4, TapAnswer
<1>5. ASSUME NEW t \in live, TimeOut(t) \/ TimeOutThrows(t) PROVE AnswerInv'
  BY <1>5, TaskAnswer DEF TimeOut, TimeOutThrows, TypeOK
<1>6. CASE \/ PressStart \/ PrefsArrive \/ GetImAfterDispose \/ GetImFails
           \/ Build \/ Leave \/ Dispose \/ HelpLands \/ Uncover
  BY <1>6, SameAnswer DEF PressStart, PrefsArrive, GetImAfterDispose,
       GetImFails, Build, Leave, Dispose, HelpLands, Uncover, logo
<1>7. ASSUME NEW t \in live, CountDown(t) \/ TickAfterDispose(t)
      PROVE  AnswerInv'
  BY <1>7, SameAnswer DEF CountDown, TickAfterDispose, logo
<1>8. ASSUME NEW t \in live, TimeOutHangs(t) PROVE AnswerInv'
  BY <1>8, LoopsAnswer DEF TimeOutHangs
<1>9. CASE UNCHANGED vars
  BY <1>9, SameAnswer DEF vars, logo
<1>10. QED
  BY <1>1, <1>2, <1>3, <1>4, <1>5, <1>6, <1>7, <1>8, <1>9 DEF Next, Tick

(* The letters, the answer and the tiles always agree.                     *)
LEMMA AnswerCorrect == Spec => [](TypeOK /\ AnswerInv)
<1>1. Init => TypeOK /\ AnswerInv
  BY TypeInit, AnswerInit
<1>2. TypeOK /\ AnswerInv /\ [Next]_vars => (TypeOK /\ AnswerInv)'
  BY TypeStep, AnswerStep
<1>3. QED
  BY <1>1, <1>2, PTL DEF Spec

(* No order of taps makes a logo unsolvable (Quiz.dart:187-204, 389-552).  *)
THEOREM AlwaysSolvable == Spec => []Solvable
<1>1. AnswerInv => Solvable
  BY DEF AnswerInv
<1>2. QED
  BY <1>1, AnswerCorrect, PTL

(* A solved logo never stays on the screen to be scored again              *)
(* (Quiz.dart:406, 470, 535).                                              *)
THEOREM SolvedIsReplaced == Spec => []SolvedNeverLingers
<1>1. AnswerInv => SolvedNeverLingers
  BY DEF AnswerInv
<1>2. QED
  BY <1>1, AnswerCorrect, PTL

-----------------------------------------------------------------------------
(* The ring with the countdown.                                            *)

(* A full ring is one that CircularPercentIndicator accepts.               *)
LEMMA OneInRange == One \in 0 .. One
BY OneType

(* A second less: the share shown stays within the ring.                   *)
LEMMA PercentOfSecond ==
  ASSUME NEW k \in 1 .. 30
  PROVE  Percent(k - 1) \in 0 .. One
<1>1. k - 1 \in 0 .. 29
  OBVIOUS
<1>2. (k - 1) * 33333 \in Int /\ 0 <= (k - 1) * 33333
  BY <1>1, SMT
<1>3. (k - 1) * 33333 <= One
  BY <1>1, SMT DEF One
<1>4. Percent(k - 1) = (k - 1) * 33333
  BY SMT DEF Percent
<1>5. QED
  BY <1>2, <1>3, <1>4, OneType, SMT

(* A step that leaves the clock and the ring alone keeps them agreed.      *)
LEMMA SameRing ==
  ASSUME RingInv, UNCHANGED <<start, timeinmin, elapsed, percent>>,
         hung => hung'
  PROVE  RingInv'
BY DEF RingInv, RingCountsTicks, PercentInRange

(* A call of task() that never returns leaves the ring full.               *)
LEMMA LoopsRing ==
  ASSUME NEW n, TaskLoops(n)
  PROVE  RingInv'
<1>1. percent' = One /\ hung'
  BY DEF TaskLoops
<1>2. QED
  BY <1>1, OneInRange DEF RingInv, RingCountsTicks, PercentInRange

(* A press or a win restarts the timer and the count of its ticks.         *)
LEMMA RestartRing ==
  ASSUME TypeOK, RingInv, NEW running, GetStart(running), NEW n, RunTask(n)
  PROVE  RingInv'
<1>1. timeinmin' = TimeLimit
  BY DEF GetStart, FullTime
<1>2. CASE \E p \in Pics : Task(n, p)
  <2>1. percent' = One /\ elapsed' = 0
    BY <1>2 DEF Task
  <2>2. QED
    BY <1>1, <2>1, OneInRange, BoundsAssumption
       DEF RingInv, RingCountsTicks, PercentInRange
<1>3. CASE TaskLoops(n)
  BY <1>3, LoopsRing
<1>4. QED
  BY <1>2, <1>3 DEF RunTask

(* Before the first timer the ring is full.                                *)
LEMMA RingInit == Init => RingInv
<1> SUFFICES ASSUME Init PROVE RingInv
  OBVIOUS
<1>1. PercentInRange
  BY OneInRange DEF Init, PercentInRange
<1>2. RingCountsTicks
  BY DEF Init, RingCountsTicks
<1>3. QED
  BY <1>1, <1>2 DEF RingInv

(* Every step keeps the ring and the number in it on the logo's time.      *)
LEMMA RingStep == TypeOK /\ FlowInv /\ RingInv /\ [Next]_vars => RingInv'
<1> SUFFICES ASSUME TypeOK, FlowInv, RingInv, [Next]_vars PROVE RingInv'
  OBVIOUS
<1>1. CASE PressNext
  BY <1>1, RestartRing DEF PressNext, StartBody
<1>2. CASE GetImDone
  BY <1>2, RestartRing DEF GetImDone, StartBody
<1>3. ASSUME NEW c \in Cell, TapWin(c) PROVE RingInv'
  BY <1>3, RestartRing DEF TapWin
<1>4. ASSUME NEW t \in live, CountDown(t) PROVE RingInv'
  <2>1. t = timer /\ Idle
    BY <1>4, TickFlow DEF CountDown
  <2>2. timeinmin \in 1 .. 30
    BY <1>4, BoundsAssumption DEF CountDown, TimeLeft, TypeOK, ClockOK
  <2>3. PercentInRange'
    BY <1>4, <2>2, PercentOfSecond DEF CountDown, PercentInRange
  <2>4. RingCountsTicks'
    <3>1. timeinmin' = timeinmin - 1 /\ elapsed' = elapsed + 1
          /\ UNCHANGED <<start, hung>>
      BY <1>4, <2>1 DEF CountDown, score
    <3>2. timeinmin \in Int /\ elapsed \in Int
      BY <2>2 DEF TypeOK, LogoOK
    <3>3. QED
      BY <3>1, <3>2 DEF RingInv, RingCountsTicks
  <2>5. QED
    BY <2>3, <2>4 DEF RingInv
<1>5. ASSUME NEW t \in live, TimeOut(t) PROVE RingInv'
  <2>1. timeinmin' = TimeLimit /\ percent' = One /\ elapsed' = 0
    BY <1>5 DEF TimeOut, Task, FullTime
  <2>2. QED
    BY <2>1, OneInRange, BoundsAssumption
       DEF RingInv, RingCountsTicks, PercentInRange
<1>6. ASSUME NEW t \in live, TimeOutThrows(t) PROVE RingInv'
  <2>1. PICK p \in Pics : TaskThrows(nimages, p) /\ percent' = One
    BY <1>6 DEF TimeOutThrows, Task
  <2>2. QED
    BY <2>1, OneInRange
       DEF TaskThrows, RingInv, RingCountsTicks, PercentInRange
<1>7. ASSUME NEW t \in live, TimeOutHangs(t) PROVE RingInv'
  BY <1>7, LoopsRing DEF TimeOutHangs
<1>8. CASE \/ PressStart \/ PrefsArrive \/ GetImAfterDispose \/ GetImFails
           \/ Build \/ Leave \/ Dispose \/ HelpLands \/ Uncover
  BY <1>8, SameRing DEF PressStart, PrefsArrive, GetImAfterDispose,
       GetImFails, Build, Leave, Dispose, HelpLands, Uncover, logo, clock,
       score
<1>9. ASSUME NEW c \in Cell, TapLetter(c) PROVE RingInv'
  BY <1>9, SameRing DEF TapLetter, clock, score
<1>10. ASSUME NEW t \in live, TickAfterDispose(t) PROVE RingInv'
  BY <1>10, SameRing DEF TickAfterDispose, logo, score
<1>11. CASE UNCHANGED vars
  BY <1>11, SameRing DEF vars, logo, clock, score
<1>12. QED
  BY <1>1, <1>2, <1>3, <1>4, <1>5, <1>6, <1>7, <1>8, <1>9, <1>10, <1>11
     DEF Next, Tick

-----------------------------------------------------------------------------
(* The whole invariant holds in every state of every game: the timer, the  *)
(* button, the tiles, the score and the ring of Quiz.dart agree.           *)
THEOREM Invariant == Spec => []IInv
<1>1. Init => IInv
  BY TypeInit, FlowInit, ScoreInit, AnswerInit, RingInit DEF IInv
<1>2. IInv /\ [Next]_vars => IInv'
  BY TypeStep, FlowStep, DrawsStep, ScoreStep, AnswerStep, RingStep DEF IInv
<1>3. QED
  BY <1>1, <1>2, PTL DEF Spec

(* With well-formed titles every logo not solved has TimeLimit + 1 ticks   *)
(* of its timer, in every game: a timeout comes on the tick after the one  *)
(* that brings the ring to 0, and on no other (Quiz.dart:118-128).         *)
THEOREM LogoHasItsTime == Spec => LogoTime
<1> DEFINE Good == \A p \in Pics : WellFormed(p)
           OneTick == \/ repeat' = repeat /\ elapsed' = elapsed
                      \/ /\ repeat' = repeat /\ elapsed < TimeLimit
                         /\ elapsed' = elapsed + 1
                      \/ repeat' # repeat /\ elapsed = TimeLimit /\ elapsed' = 0
<1>1. ASSUME IInv, [Next]_vars, start = "Next", ~hung', timer' = timer, Good
      PROVE  OneTick
  <2> USE <1>1
  <2>1. TypeOK /\ FlowInv /\ RingCountsTicks
    BY DEF IInv, RingInv
  <2>2. timeinmin \in Nat /\ elapsed \in Nat /\ timer \in Nat /\ TimeLimit \in Nat
    BY <2>1, BoundsAssumption DEF TypeOK, LogoOK, ClockOK
  <2>3. ~hung => timeinmin + elapsed = TimeLimit
    BY <2>1 DEF RingCountsTicks
  <2>4. \A running : ~GetStart(running)
    BY <2>2 DEF GetStart
  <2>5. ~PressNext /\ ~GetImDone /\ \A c \in Cell : ~TapWin(c)
    BY <2>4 DEF PressNext, GetImDone, StartBody, TapWin
  <2>6. ASSUME NEW t \in live, CountDown(t) PROVE OneTick
    <3>1. t = timer /\ ~hung
      BY <2>1, <2>6, TickFlow DEF CountDown, Idle
    <3>2. timeinmin > 0 /\ elapsed' = elapsed + 1 /\ repeat' = repeat
      BY <2>6, <3>1 DEF CountDown, TimeLeft
    <3>3. elapsed < TimeLimit
      BY <2>2, <2>3, <3>1, <3>2
    <3>4. QED
      BY <3>2, <3>3
  <2>7. ASSUME NEW t \in live, TimeOut(t) PROVE OneTick
    <3>1. ~hung /\ timeinmin = 0
      BY <2>2, <2>7 DEF TimeOut, Idle, TimeLeft
    <3>2. elapsed = TimeLimit
      BY <2>2, <2>3, <3>1
    <3>3. PICK p \in Pics : Task(nimages, p)
      BY <2>7 DEF TimeOut
    <3>4. elapsed' = 0 /\ repeat' # repeat
      BY <3>3 DEF Task
    <3>5. QED
      BY <3>2, <3>4
  <2>8. ASSUME NEW t \in live, TimeOutThrows(t) PROVE FALSE
    <3>1. PICK p \in Pics : TaskThrows(nimages, p)
      BY <2>8 DEF TimeOutThrows
    <3>2. WellFormed(p)
      OBVIOUS
    <3>3. QED
      BY <3>1, <3>2 DEF TaskThrows
  <2>9. ASSUME NEW t \in live, TimeOutHangs(t) PROVE FALSE
    BY <2>9 DEF TimeOutHangs, TaskLoops
  <2>10. CASE \/ PressStart \/ PrefsArrive \/ GetImAfterDispose
              \/ GetImFails \/ Build \/ Leave \/ Dispose \/ HelpLands
              \/ Uncover
    BY <2>10 DEF PressStart, PrefsArrive, GetImAfterDispose, GetImFails,
         Build, Leave, Dispose, HelpLands, Uncover, logo
  <2>11. ASSUME NEW c \in Cell, TapLetter(c) PROVE OneTick
    BY <2>11 DEF TapLetter
  <2>12. ASSUME NEW t \in live, TickAfterDispose(t) PROVE OneTick
    BY <2>12 DEF TickAfterDispose, logo
  <2>13. CASE UNCHANGED vars
    BY <2>13 DEF vars, logo
  <2>14. QED
    BY <2>5, <2>6, <2>7, <2>8, <2>9, <2>10, <2>11, <2>12, <2>13
       DEF Next, Tick
<1>2. IInv /\ [Next]_vars =>
        [(start = "Next" /\ ~hung' /\ timer' = timer /\ Good) => OneTick]_vars
  BY <1>1
<1>3. QED
  BY <1>2, Invariant, PTL DEF Spec, LogoTime

(* CircularPercentIndicator is never given a share outside 0.0 .. 1.0 by   *)
(* the Quiz screen (Quiz.dart:120, 146, 581).                              *)
THEOREM RingNeverThrows == Spec => []PercentInRange
<1>1. IInv => PercentInRange
  BY DEF IInv, RingInv
<1>2. QED
  BY <1>1, Invariant, PTL

-----------------------------------------------------------------------------
(* The endless loop of task().                                             *)

(* As many images drawn as there are: every one of them.                   *)
LEMMA AllDrawn ==
  ASSUME NEW D \in SUBSET Pics
  PROVE  /\ Cardinality(D) \in Nat /\ Cardinality(D) <= NumImages
         /\ Cardinality(D) = NumImages <=> D = Pics
<1>1. IsFiniteSet(Pics) /\ Cardinality(Pics) = NumImages
  <2>1. 0 \in Int /\ NumImages - 1 \in Int /\ ~(0 > NumImages - 1)
        /\ (NumImages - 1) - 0 + 1 = NumImages
    BY ImagesAssumption
  <2>2. QED
    BY <2>1, FS_Interval DEF Pics
<1>2. QED
  BY <1>1, FS_Subset, FS_CardinalityType

(* Before the end of the game task() always finds an image.                *)
LEMMA ImageLeft ==
  ASSUME TypeOK, DrawsCounted, ~end
  PROVE  ~TaskHangs(NumImages)
<1>1. Cardinality(repeat) # NumImages
  BY ImagesAssumption DEF DrawsCounted, TypeOK, LogoOK
<1>2. QED
  BY <1>1, AllDrawn DEF TypeOK, LogoOK, TaskHangs, Pics

(* With well-formed titles a call of task() before the end of the game     *)
(* returns and keeps count.                                                *)
LEMMA TaskCounts ==
  ASSUME TypeOK, DrawsCounted, ~end, NEW p \in Pics, WellFormed(p),
         Task(NumImages, p)
  PROVE  /\ DrawsCounted'
         /\ end' => loop_count = NumImages - 1
<1>1. Cardinality(repeat') = Cardinality(repeat) + 1
  BY TaskDraws DEF TypeOK
<1>2. /\ loop_count \in Nat /\ loop_count <= NumImages - 1
      /\ Cardinality(repeat) = loop_count
  BY DEF DrawsCounted, TypeOK, LogoOK
<1>3. CASE MoreLogos(NumImages)
  <2>1. loop_count' = loop_count + 1 /\ ~end'
    BY <1>3 DEF Task
  <2>2. QED
    BY <1>1, <1>2, <1>3, <2>1, ImagesAssumption DEF DrawsCounted, MoreLogos
<1>4. CASE ~MoreLogos(NumImages)
  <2>1. loop_count' = loop_count /\ end'
    BY <1>4 DEF Task
  <2>2. QED
    BY <1>1, <1>2, <1>4, <2>1, ImagesAssumption DEF DrawsCounted, MoreLogos
<1>5. QED
  BY <1>3, <1>4

(* The same for a caller that does nothing more.                           *)
LEMMA RunTaskCounts ==
  ASSUME TypeOK, DrawsCounted, ~end, ~hung, RunTask(NumImages),
         \A p \in Pics : WellFormed(p)
  PROVE  ~hung' /\ DrawsCounted' /\ (end' => loop_count = NumImages - 1)
<1>1. ~TaskLoops(NumImages)
  BY ImageLeft DEF TaskLoops
<1>2. PICK p \in Pics : Task(NumImages, p) /\ UNCHANGED hung
  BY <1>1 DEF RunTask
<1>3. QED
  BY <1>2, TaskCounts

(* The bound on the presses is 1 or 2.                                     *)
LEMMA PressLimitType ==
  /\ PressLimit \in 1 .. 2
  /\ PressLimit = 1 => NumImages = 1
BY DEF PressLimit

(* A step that leaves the draws, the presses, the clock and the isolate    *)
(* alone, and brings no button back.                                       *)
LEMMA QuietHang ==
  ASSUME TypeOK, HangInv,
         UNCHANGED <<loop_count, end, repeat, hung, start, presses>>,
         loading' \in Nat, loading' <= loading, live' \subseteq live,
         timeinmin' = timeinmin \/ (end => live' = {}),
         end /\ life' = "current" =>
           built' = "game" \/ (built' = built /\ life = "current")
  PROVE  HangInv'
<1>1. loading \in Nat /\ presses \in Nat
  BY DEF TypeOK, LoadsOK, ScoreOK
<1>2. PressesPaid'
  BY <1>1 DEF HangInv, PressesPaid
<1>3. DrawsCounted => DrawsCounted'
  BY DEF DrawsCounted
<1>4. NothingLeftToCall => NothingLeftToCall'
  BY <1>1 DEF NothingLeftToCall, PressLimit
<1>5. QED
  BY <1>2, <1>3, <1>4 DEF HangInv, PressLimit

(* A new Quiz screen has drawn nothing.                                    *)
LEMMA HangInit == Init => HangInv
<1> SUFFICES ASSUME Init PROVE HangInv
  OBVIOUS
<1>1. PressesPaid
  BY DEF Init, PressesPaid
<1>2. DrawsCounted
  BY FS_EmptySet, ImagesAssumption DEF Init, DrawsCounted
<1>3. ~hung /\ NothingLeftToCall
  BY DEF Init, NothingLeftToCall
<1>4. QED
  BY <1>1, <1>2, <1>3 DEF HangInv

(* A getIm() under way and the game begun leave none of two presses.       *)
LEMMA TwoPresses ==
  ASSUME NEW m \in Nat, NEW n \in Nat, NEW limit \in Int, limit <= 2,
         m + 1 < n, n <= limit
  PROVE  m = 0 /\ n >= limit
OBVIOUS

(* The setState of the button's handler, run for a press that was paid:    *)
(* the last draw uses up the presses allowed.                              *)
LEMMA StartBodyHang ==
  ASSUME TypeOK, FlowInv, HangInv, ~hung, StartBody(NumImages),
         \A p \in Pics : WellFormed(p), presses' <= PressLimit,
         presses' \in {presses, presses + 1}, loading' \in Nat,
         IF start = "Next" THEN loading' + 1 < presses' ELSE loading' < presses',
         ~end
  PROVE  ~hung' /\ DrawsCounted' /\ NothingLeftToCall'
<1>1. presses \in Nat /\ presses' \in Nat /\ presses <= PressLimit
  BY PressLimitType DEF TypeOK, ScoreOK
<1>2. DrawsCounted
  BY <1>1 DEF HangInv
<1>3. ~hung' /\ DrawsCounted' /\ (end' => loop_count = NumImages - 1)
  BY <1>2, RunTaskCounts DEF StartBody
<1>4. timeinmin' > 0
  BY BoundsAssumption DEF StartBody, GetStart, FullTime
<1>5. SUFFICES ASSUME end' PROVE loading' = 0 /\ presses' >= PressLimit
  BY <1>3, <1>4 DEF NothingLeftToCall, PressLimit
<1>6. CASE start = "Next"
  <2>1. loading' + 1 < presses' /\ presses' <= PressLimit
    BY <1>6
  <2>2. PressLimit \in Int /\ PressLimit <= 2
    BY PressLimitType
  <2>3. QED
    BY <1>1, <2>1, <2>2, TwoPresses
<1>7. CASE start = "Start"
  <2>1. loop_count = 0
    BY <1>7 DEF FlowInv, NotBegun
  <2>2. NumImages = 1
    BY <1>3, <1>5, <2>1, ImagesAssumption
  <2>3. PressLimit = 1
    BY <2>2 DEF PressLimit
  <2>4. QED
    BY <1>1, <1>7, <2>3
<1>8. QED
  BY <1>6, <1>7 DEF TypeOK, ScoreOK

(* Every step keeps the count, and leaves nothing to call at the end.      *)
LEMMA HangStep == TypeOK /\ FlowInv /\ HangInv /\ [Next]_vars => HangInv'
<1> SUFFICES ASSUME TypeOK, FlowInv, HangInv, [Next]_vars PROVE HangInv'
  OBVIOUS
<1> DEFINE W == \A p \in Pics : WellFormed(p)
<1>0. loading \in Nat /\ presses \in Nat /\ timeinmin \in Nat
      /\ start \in {"Start", "Next"}
  BY BoundsAssumption DEF TypeOK, LoadsOK, ScoreOK, ClockOK
<1>p. IF start = "Next" THEN loading < presses ELSE loading <= presses
  BY DEF HangInv, PressesPaid
<1>h. W /\ presses <= PressLimit => ~hung /\ DrawsCounted /\ NothingLeftToCall
  BY DEF HangInv
<1>1. CASE PressStart
  <2>1. start = "Start" /\ start' = start /\ presses' = presses + 1
        /\ loading' = loading + 1 /\ UNCHANGED <<logo, hung>>
    BY <1>1 DEF PressStart
  <2>2. PressesPaid'
    BY <1>0, <1>p, <2>1 DEF PressesPaid
  <2>3. ~end
    BY <2>1 DEF FlowInv, NotBegun
  <2>4. DrawsCounted => DrawsCounted'
    BY <2>1 DEF DrawsCounted, logo
  <2>5. NothingLeftToCall'
    BY <2>1, <2>3 DEF NothingLeftToCall, logo
  <2>6. presses' <= PressLimit => presses <= PressLimit
    BY <1>0, <2>1, PressLimitType
  <2>7. QED
    BY <1>h, <2>1, <2>2, <2>4, <2>5, <2>6 DEF HangInv, PressLimit
<1>2. CASE PressNext
  <2>1. /\ start = "Next" /\ start' = "Next" /\ presses' = presses + 1
        /\ UNCHANGED loads /\ life = "current" /\ built = "Start" /\ ~hung
    BY <1>2 DEF PressNext, StartBody, Idle
  <2>2. nimages = NumImages /\ loading = 0 /\ loading' = 0
    BY <1>0, <1>2, <2>1 DEF PressNext, Idle, FlowInv, Begun, loads
  <2>3. PressesPaid'
    BY <1>0, <1>p, <2>1, <2>2 DEF PressesPaid
  <2>4. ASSUME W, presses' <= PressLimit
        PROVE  ~hung' /\ DrawsCounted' /\ NothingLeftToCall'
    <3>1. presses <= PressLimit /\ ~(presses >= PressLimit)
      BY <1>0, <2>1, <2>4, PressLimitType
    <3>2. ~end
      BY <1>h, <2>1, <2>4, <3>1 DEF NothingLeftToCall
    <3>3. StartBody(NumImages)
      BY <1>2, <2>2 DEF PressNext
    <3>4. QED
      BY <1>0, <1>p, <2>1, <2>2, <2>4, <3>2, <3>3, StartBodyHang
  <2>5. QED
    BY <2>3, <2>4 DEF HangInv, PressLimit
<1>3. CASE PrefsArrive
  BY <1>0, <1>3, QuietHang DEF PrefsArrive, logo, clock, score, route
<1>4. CASE GetImDone
  <2>1. /\ start' = "Next" /\ presses' = presses /\ loading > 0
        /\ loading' = loading - 1 /\ ~hung /\ StartBody(NumImages)
    BY <1>4 DEF GetImDone, StartBody
  <2>2. PressesPaid'
    BY <1>0, <1>p, <2>1 DEF PressesPaid
  <2>3. ASSUME W, presses' <= PressLimit
        PROVE  ~hung' /\ DrawsCounted' /\ NothingLeftToCall'
    <3>1. ~end
      BY <1>0, <1>h, <2>1, <2>3 DEF NothingLeftToCall
    <3>2. QED
      BY <1>0, <1>p, <2>1, <2>3, <3>1, StartBodyHang
  <2>4. QED
    BY <2>2, <2>3 DEF HangInv, PressLimit
<1>5. CASE GetImAfterDispose
  BY <1>0, <1>5, QuietHang DEF GetImAfterDispose, logo, clock, score, route
<1>6. CASE GetImFails
  BY <1>0, <1>6, QuietHang DEF GetImFails, logo, clock, score, route
<1>7. CASE Build
  <2>1. end => built' = "game"
    BY <1>0, <1>7, FrameInGame DEF Build, FlowInv, NotBegun
  <2>2. QED
    BY <1>0, <1>7, <2>1, QuietHang DEF Build, logo, clock, score, loads
<1>8. ASSUME NEW c \in Cell, TapLetter(c) PROVE HangInv'
  BY <1>0, <1>8, QuietHang DEF TapLetter, clock, score, loads, route
<1>9. ASSUME NEW c \in Cell, TapWin(c) PROVE HangInv'
  <2>1. rack # NoTiles /\ built = "game" /\ ~hung /\ Idle
    BY <1>9 DEF TapWin, CanTap, NoTiles, Idle
  <2>2. start = "Next" /\ ~end
    BY <1>0, <2>1 DEF FlowInv, NotBegun, Over
  <2>3. nimages = NumImages /\ loading = 0
    BY <1>0, <2>1, <2>2 DEF Idle, FlowInv, Begun
  <2>4. /\ start' = "Next" /\ presses' = presses /\ loading' = 0
        /\ built' = "game" /\ RunTask(NumImages)
    BY <1>9, <2>1, <2>3 DEF TapWin, loads, route
  <2>5. PressesPaid'
    BY <1>0, <1>p, <2>2, <2>3, <2>4 DEF PressesPaid
  <2>6. timeinmin' > 0
    BY <1>9, BoundsAssumption DEF TapWin, GetStart, FullTime
  <2>7. NothingLeftToCall'
    BY <2>4, <2>6 DEF NothingLeftToCall
  <2>8. ASSUME W, presses' <= PressLimit PROVE ~hung' /\ DrawsCounted'
    BY <1>h, <2>1, <2>2, <2>4, <2>8, RunTaskCounts
  <2>9. QED
    BY <2>5, <2>7, <2>8 DEF HangInv, PressLimit
<1>10. ASSUME NEW t \in live, CountDown(t) PROVE HangInv'
  <2>1. Idle /\ live = {timer} /\ UNCHANGED <<score, loads, built, hung>>
        /\ UNCHANGED <<loop_count, end, repeat>> /\ FinishTick(end)
    BY <1>10, TickFlow DEF CountDown
  <2>2. live' \subseteq live /\ (end => live' = {})
    BY <2>1 DEF FinishTick, CancelOnEnd
  <2>3. end => life' # "current"
    BY <2>1 DEF FinishTick
  <2>4. PressesPaid'
    BY <1>p, <2>1 DEF PressesPaid, score, loads
  <2>5. DrawsCounted => DrawsCounted'
    BY <2>1 DEF DrawsCounted
  <2>6. NothingLeftToCall => NothingLeftToCall'
    BY <2>1, <2>2, <2>3 DEF NothingLeftToCall, loads
  <2>7. QED
    BY <1>h, <2>1, <2>4, <2>5, <2>6 DEF HangInv, PressLimit, score
<1>11. ASSUME NEW t \in live,
              TimeOut(t) \/ TimeOutThrows(t) \/ TimeOutHangs(t)
       PROVE  HangInv'
  <2>1. /\ Idle /\ live = {timer} /\ nimages = NumImages /\ loading = 0
        /\ ~TimeLeft /\ UNCHANGED <<score, loads>>
    BY <1>11, TickFlow DEF TimeOut, TimeOutThrows, TimeOutHangs
  <2>2. PressesPaid' /\ loading' = 0 /\ presses' = presses
    BY <1>p, <2>1 DEF PressesPaid, score, loads
  <2>3. ASSUME W, presses' <= PressLimit
        PROVE  ~hung' /\ DrawsCounted' /\ NothingLeftToCall'
    <3>1. ~hung /\ DrawsCounted /\ ~end
      BY <1>0, <1>h, <2>1, <2>2, <2>3 DEF NothingLeftToCall, TimeLeft
    <3>2. ~TimeOutHangs(t)
      BY <2>1, <3>1, ImageLeft DEF TimeOutHangs, TaskLoops
    <3>3. ~TimeOutThrows(t)
      BY <2>3 DEF TimeOutThrows, TaskThrows
    <3>4. TimeOut(t)
      BY <1>11, <3>2, <3>3
    <3>5. PICK p \in Pics : Task(NumImages, p)
      BY <2>1, <3>4 DEF TimeOut
    <3>6. DrawsCounted'
      BY <2>3, <3>1, <3>5, TaskCounts
    <3>7. ~hung' /\ FinishTick(end')
      BY <3>1, <3>4 DEF TimeOut
    <3>8. NothingLeftToCall'
      BY <2>1, <2>2, <3>7 DEF NothingLeftToCall, FinishTick, CancelOnEnd
    <3>9. QED
      BY <3>6, <3>7, <3>8
  <2>4. QED
    BY <2>2, <2>3 DEF HangInv, PressLimit
<1>12. ASSUME NEW t \in live, TickAfterDispose(t) PROVE HangInv'
  BY <1>0, <1>12, QuietHang
     DEF TickAfterDispose, CancelOnEnd, logo, score, loads, route
<1>13. CASE Leave \/ Dispose
  BY <1>0, <1>13, QuietHang DEF Leave, Dispose, logo, clock, score, loads
<1>14. CASE HelpLands
  BY <1>0, <1>14, QuietHang DEF HelpLands, logo, clock, score
<1>15. CASE Uncover
  <2>1. end => built' = "game"
    BY <1>0, <1>15, FrameInGame DEF Uncover, FlowInv, NotBegun
  <2>2. QED
    BY <1>0, <1>15, <2>1, QuietHang DEF Uncover, logo, clock, score, loads
<1>16. CASE UNCHANGED vars
  BY <1>0, <1>16, QuietHang DEF vars, logo, clock, score, loads, route
<1>17. QED
  BY <1>1, <1>2, <1>3, <1>4, <1>5, <1>6, <1>7, <1>8, <1>9, <1>10, <1>11,
     <1>12, <1>13, <1>14, <1>15, <1>16 DEF Next, Tick

(* With well-formed titles and a double press of Start at most, the loop   *)
(* of task() that looks for an image not drawn yet always ends, for every  *)
(* list of images (Quiz.dart:158-164).                                     *)
THEOREM TaskReturns == Spec => []NoHang
<1>1. Init => TypeOK /\ FlowInv /\ HangInv
  BY TypeInit, FlowInit, HangInit
<1>2. TypeOK /\ FlowInv /\ HangInv /\ [Next]_vars
        => (TypeOK /\ FlowInv /\ HangInv)'
  BY TypeStep, FlowStep, HangStep
<1>3. HangInv => NoHang
  BY DEF HangInv, NoHang
<1>4. QED
  BY <1>1, <1>2, <1>3, PTL DEF Spec

-----------------------------------------------------------------------------
(* The Quiz screen plays the game of module Game.                          *)

(* A call of task() that returns draws an image before the game is over,   *)
(* and ends the game only with the last one.                               *)
LEMMA TaskDrawnFirst ==
  ASSUME LogoOK, DrawnFirst, NEW p \in Pics, Task(NumImages, p)
  PROVE  ~end /\ DrawnFirst'
<1>1. p \in Pics \ repeat /\ repeat' = repeat \cup {p}
  BY DEF Task, Pics
<1>2. ~end
  BY <1>1 DEF DrawnFirst
<1>3. /\ Cardinality(repeat') = Cardinality(repeat) + 1
      /\ loop_count \in Nat /\ Cardinality(repeat) \in Nat
      /\ loop_count <= Cardinality(repeat)
  BY <1>2, TaskDraws, DrawsBounded DEF DrawnFirst, LogoOK
<1>4. CASE MoreLogos(NumImages)
  <2>1. ~end' /\ loop_count' \in {loop_count, loop_count + 1}
    BY <1>2, <1>4 DEF Task
  <2>2. QED
    BY <1>2, <1>3, <2>1 DEF DrawnFirst
<1>5. CASE ~MoreLogos(NumImages)
  <2>1. end' /\ loop_count >= NumImages - 1
    BY <1>3, <1>5, ImagesAssumption DEF Task, MoreLogos
  <2>2. repeat' \in SUBSET Pics
    BY <1>1 DEF LogoOK
  <2>3. Cardinality(repeat') \in Nat /\ Cardinality(repeat') <= NumImages
    BY <2>2, AllDrawn
  <2>4. Cardinality(repeat') = NumImages
    BY <1>3, <2>1, <2>3, ImagesAssumption
  <2>5. QED
    BY <1>2, <2>1, <2>2, <2>4, AllDrawn DEF DrawnFirst
<1>6. QED
  BY <1>4, <1>5

(* Every step keeps the draws ahead of the logos shown.                    *)
LEMMA DrawnStep == TypeOK /\ FlowInv /\ DrawnFirst /\ [Next]_vars => DrawnFirst'
<1> SUFFICES ASSUME TypeOK, FlowInv, DrawnFirst, [Next]_vars
             PROVE  DrawnFirst'
  OBVIOUS
<1>1. CASE UNCHANGED <<repeat, loop_count, end>>
  BY <1>1 DEF DrawnFirst
<1>2. CASE RunTask(NumImages)
  <2>1. CASE TaskLoops(NumImages)
    BY <1>1, <2>1 DEF TaskLoops
  <2>2. CASE \E p \in Pics : Task(NumImages, p)
    BY <2>2, TaskDrawnFirst DEF TypeOK
  <2>3. QED
    BY <1>2, <2>1, <2>2 DEF RunTask
<1>3. CASE PressNext
  BY <1>2, <1>3 DEF PressNext, StartBody, FlowInv, Begun
<1>4. CASE GetImDone
  BY <1>2, <1>4 DEF GetImDone, StartBody
<1>5. ASSUME NEW c \in Cell, TapWin(c) PROVE DrawnFirst'
  <2>1. rack # NoTiles
    BY <1>5 DEF TapWin, CanTap, NoTiles
  <2>2. nimages = NumImages
    BY <2>1 DEF FlowInv, NotBegun, Begun, TypeOK, ScoreOK
  <2>3. QED
    BY <1>2, <1>5, <2>2 DEF TapWin
<1>6. ASSUME NEW t \in live,
             TimeOut(t) \/ TimeOutThrows(t) \/ TimeOutHangs(t)
      PROVE  DrawnFirst'
  <2>1. nimages = NumImages
    BY <1>6, TickFlow DEF TimeOut, TimeOutThrows, TimeOutHangs
  <2>2. RunTask(NumImages)
    BY <1>6, <2>1 DEF TimeOut, TimeOutThrows, TimeOutHangs, RunTask
  <2>3. QED
    BY <1>2, <2>2
<1>7. CASE \/ PressStart \/ PrefsArrive \/ GetImAfterDispose \/ GetImFails
           \/ Build \/ Leave \/ Dispose \/ HelpLands \/ Uncover
           \/ UNCHANGED vars
  BY <1>1, <1>7 DEF PressStart, PrefsArrive, GetImAfterDispose, GetImFails,
                    Build, Leave, Dispose, HelpLands, Uncover, vars, logo
<1>8. ASSUME NEW c \in Cell, TapLetter(c) PROVE DrawnFirst'
  BY <1>1, <1>8 DEF TapLetter
<1>9. ASSUME NEW t \in live, CountDown(t) \/ TickAfterDispose(t)
      PROVE  DrawnFirst'
  BY <1>1, <1>9 DEF CountDown, TickAfterDispose, logo
<1>10. QED
  BY <1>3, <1>4, <1>5, <1>6, <1>7, <1>8, <1>9 DEF Next, Tick

(* A call of task() that returns is a draw of the game; the tick that ends *)
(* the game may hand the score over in the same step.                      *)
LEMMA TaskIsDraw ==
  ASSUME TypeOK, DrawnFirst, ~hung, hung' = hung, thanks = << >>,
         NEW p \in Pics, Task(NumImages, p),
         obt_score' \in {obt_score, obt_score + 1}, obt_score' >= 0,
         \/ thanks' = << >>
         \/ end' /\ thanks' = <<[obt |-> obt_score', tot |-> total_score]>>
  PROVE  Abstract!Draw(p)
<1>1. ~end /\ p \in Pics \ repeat /\ repeat' = repeat \cup {p}
  BY TaskDrawnFirst DEF TypeOK, Task, Pics
<1>2. end' \in BOOLEAN
  BY TaskLogoOK DEF TypeOK, LogoOK
<1>3. end' => repeat' = Pics
  BY TaskDrawnFirst DEF TypeOK, DrawnFirst
<1>4. /\ Abstract!Playing
      /\ Abstract!Pics = Pics
  BY DEF Abstract!Playing, Abstract!None, Abstract!Pics, Pics
<1>5. (IF thanks = << >> THEN -1 ELSE thanks[1].obt)' \in {-1, obt_score'}
      /\ ((IF thanks = << >> THEN -1 ELSE thanks[1].obt)' # -1 => end')
  OBVIOUS
<1>6. QED
  BY <1>1, <1>2, <1>3, <1>4, <1>5
     DEF Abstract!Draw, Abstract!None, Abstract!AllDrawn

(* A call of task() that never returns is a stall of the game.             *)
LEMMA LoopIsStall ==
  ASSUME TypeOK, ~hung, TaskLoops(NumImages), thanks = << >>,
         thanks' = thanks, obt_score' \in {obt_score, obt_score + 1}
  PROVE  Abstract!Stall
<1>1. repeat = Pics
  BY DEF TaskLoops, TaskHangs, TypeOK, LogoOK, Pics
<1>2. UNCHANGED <<repeat, end, thanks>> /\ hung' = TRUE
  BY DEF TaskLoops
<1>3. QED
  BY <1>1, <1>2 DEF Abstract!Stall, Abstract!Playing, Abstract!None,
                    Abstract!AllDrawn, Abstract!Pics, Pics

(* A press or a win is one step of the game.                               *)
LEMMA RunIsStep ==
  ASSUME TypeOK, DrawnFirst, ~hung, RunTask(NumImages), thanks = << >>,
         thanks' = thanks, obt_score' \in {obt_score, obt_score + 1},
         obt_score' >= 0
  PROVE  Abstract!Next
<1>1. CASE TaskLoops(NumImages)
  BY <1>1, LoopIsStall DEF Abstract!Next
<1>2. CASE (\E p \in Pics : Task(NumImages, p)) /\ UNCHANGED hung
  <2>1. PICK p \in Pics : Task(NumImages, p)
    BY <1>2
  <2>2. Abstract!Draw(p)
    BY <1>2, <2>1, TaskIsDraw
  <2>3. QED
    BY <2>2 DEF Abstract!Next, Abstract!Pics, Pics
<1>3. QED
  BY <1>1, <1>2 DEF RunTask

(* A step that writes none of what the game sees is a stutter of it.       *)
LEMMA Unseen ==
  ASSUME UNCHANGED <<repeat, obt_score, end, thanks, hung>>
  PROVE  UNCHANGED Abstract!vars
BY DEF Abstract!vars

(* Every step of the Quiz screen is a step of the game or a stutter of it. *)
LEMMA GameStep ==
  TypeOK /\ FlowInv /\ DrawnFirst /\ [Next]_vars
    => [Abstract!Next]_(Abstract!vars)
<1> SUFFICES ASSUME TypeOK, FlowInv, DrawnFirst, [Next]_vars
             PROVE  Abstract!Next \/ UNCHANGED Abstract!vars
  OBVIOUS
<1>1. obt_score \in Int /\ (start = "Next" => obt_score >= 0)
      /\ (start = "Start" => obt_score = -1) /\ start \in {"Start", "Next"}
  BY DEF TypeOK, ScoreOK, FlowInv, Begun, NotBegun
<1>2. CASE PressNext
  <2>1. thanks = << >> /\ nimages = NumImages /\ ~hung
    BY <1>2 DEF PressNext, Idle, FlowInv, HandedOver, Begun
  <2>2. RunTask(NumImages) /\ obt_score' = obt_score + 1 /\ thanks' = thanks
        /\ start = "Next"
    BY <1>2, <2>1 DEF PressNext, StartBody, route
  <2>3. QED
    BY <1>1, <2>1, <2>2, RunIsStep
<1>3. CASE GetImDone
  <2>1. thanks = << >> /\ ~hung
    BY <1>3 DEF GetImDone, FlowInv, HandedOver
  <2>2. RunTask(NumImages) /\ obt_score' = obt_score + 1 /\ thanks' = thanks
    BY <1>3 DEF GetImDone, StartBody, route
  <2>3. obt_score' >= 0
    BY <1>1, <2>2
  <2>4. QED
    BY <2>1, <2>2, <2>3, RunIsStep
<1>4. ASSUME NEW c \in Cell, TapWin(c)
      PROVE  Abstract!Next
  <2>1. rack # NoTiles /\ ~hung
    BY <1>4 DEF TapWin, CanTap, NoTiles, Idle
  <2>2. start = "Next" /\ ~end
    BY <1>1, <2>1 DEF FlowInv, NotBegun, Over
  <2>3. thanks = << >> /\ nimages = NumImages
    BY <2>2 DEF FlowInv, HandedOver, Begun
  <2>4. RunTask(NumImages) /\ obt_score' = obt_score + 1 /\ thanks' = thanks
    BY <1>4, <2>3 DEF TapWin, route
  <2>5. QED
    BY <1>1, <2>1, <2>2, <2>3, <2>4, RunIsStep
<1>5. ASSUME NEW t \in live, CountDown(t)
      PROVE  Abstract!Next \/ UNCHANGED Abstract!vars
  <2>1. thanks = << >> /\ ~hung /\ FinishTick(end)
        /\ UNCHANGED <<repeat, end, obt_score, hung>>
    BY <1>5, TickFlow DEF CountDown, Idle, score
  <2>2. CASE end
    <3>1. thanks' = <<[obt |-> obt_score, tot |-> total_score]>>
      BY <2>1, <2>2 DEF FinishTick
    <3>2. (IF thanks = << >> THEN -1 ELSE thanks[1].obt)' = obt_score
      BY <3>1
    <3>3. Abstract!HandOver
      BY <2>1, <2>2, <3>2
         DEF Abstract!HandOver, Abstract!Playing, Abstract!None
    <3>4. QED
      BY <3>3 DEF Abstract!Next
  <2>3. CASE ~end
    BY <2>1, <2>3, Unseen DEF FinishTick
  <2>4. QED
    BY <2>2, <2>3
<1>6. ASSUME NEW t \in live, TimeOut(t) PROVE Abstract!Next
  <2>1. /\ thanks = << >> /\ ~hung /\ hung' = hung /\ FinishTick(end')
        /\ obt_score' = obt_score /\ nimages = NumImages /\ start = "Next"
    BY <1>6, TickFlow DEF TimeOut, Idle, score
  <2>2. PICK p \in Pics : Task(NumImages, p)
    BY <1>6, <2>1 DEF TimeOut
  <2>3. \/ thanks' = << >>
        \/ end' /\ thanks' = <<[obt |-> obt_score', tot |-> total_score]>>
    BY <2>1 DEF FinishTick
  <2>4. Abstract!Draw(p)
    BY <1>1, <2>1, <2>2, <2>3, TaskIsDraw
  <2>5. QED
    BY <2>4 DEF Abstract!Next, Abstract!Pics, Pics
<1>7. ASSUME NEW t \in live, TimeOutThrows(t) \/ TimeOutHangs(t)
      PROVE  Abstract!Next
  <2>1. /\ thanks = << >> /\ ~hung /\ UNCHANGED <<obt_score, thanks>>
        /\ nimages = NumImages /\ start = "Next"
    BY <1>7, TickFlow DEF TimeOutThrows, TimeOutHangs, Idle, score, route
  <2>2. RunTask(NumImages)
    BY <1>7, <2>1 DEF TimeOutThrows, TimeOutHangs, RunTask
  <2>3. QED
    BY <1>1, <2>1, <2>2, RunIsStep
<1>8. CASE \/ PressStart \/ PrefsArrive \/ GetImAfterDispose \/ GetImFails
           \/ Build \/ Leave \/ Dispose \/ HelpLands \/ Uncover
           \/ UNCHANGED vars
  BY <1>8, Unseen DEF PressStart, PrefsArrive, GetImAfterDispose, GetImFails,
       Build, Leave, Dispose, HelpLands, Uncover, vars, logo, score, route
<1>9. ASSUME NEW c \in Cell, TapLetter(c) PROVE UNCHANGED Abstract!vars
  BY <1>9, Unseen DEF TapLetter, score, route
<1>10. ASSUME NEW t \in live, TickAfterDispose(t)
       PROVE  UNCHANGED Abstract!vars
  BY <1>10, Unseen DEF TickAfterDispose, logo, score, route
<1>11. QED
  BY <1>2, <1>3, <1>4, <1>5, <1>6, <1>7, <1>8, <1>9, <1>10 DEF Next, Tick

(* The Quiz screen implements the game of module Game, for every list of   *)
(* images, malformed names included, and every order of callbacks: each    *)
(* step maps to a draw, the handing over of the score, a stall, or nothing *)
(* (Quiz.dart:111-212, 317-338, 389-552).                                  *)
THEOREM ImplementsGame == Spec => PlaysTheGame
<1>1. Init => TypeOK /\ FlowInv /\ DrawnFirst
  <2>1. Init => DrawnFirst
    BY FS_EmptySet DEF Init, DrawnFirst
  <2>2. QED
    BY <2>1, TypeInit, FlowInit
<1>2. TypeOK /\ FlowInv /\ DrawnFirst /\ [Next]_vars
        => (TypeOK /\ FlowInv /\ DrawnFirst)'
  BY TypeStep, FlowStep, DrawnStep
<1>3. Init => Abstract!Init
  BY DEF Init, ScoreAtFirst, Abstract!Init, Abstract!None
<1>4. QED
  BY <1>1, <1>2, <1>3, GameStep, PTL DEF Spec, PlaysTheGame, Abstract!Spec

=============================================================================
