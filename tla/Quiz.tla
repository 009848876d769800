------------------------------- MODULE Quiz -------------------------------
(***************************************************************************)
(* One Quiz screen: the State object of lib/Quiz.dart from the moment its  *)
(* route is pushed until it is disposed, with the callbacks that reach it. *)
(* They all run on the one isolate of the app, so each callback is an      *)
(* atomic action up to its awaits; what interleaves is                     *)
(*   - the player: the Start button, the letter tiles, the way out;        *)
(*   - the one-second periodic Timer, which nothing cancels on dispose;    *)
(*   - the end of `await getIm()`, late while the preferences are loading; *)
(*   - frames: a press acts on the widgets of the LAST BUILT frame, while  *)
(*     its handler reads the current fields;                               *)
(*   - Home's Help handler, whose await may outlast the push of this route.*)
(* The fields `loaded`, `timer_visible`, `sub`, `j` and `r` are written and*)
(* never tested, so they are left out.                                     *)
(***************************************************************************)
EXTENDS Integers, Sequences, FiniteSets

CONSTANTS
  NumImages,   \* images.length once "names" is decoded
  Title,       \* Title[p]: upper-case letters to guess for images[p]
  Malformed,   \* the p on which title.substring(4, id) throws
  Letter,      \* what a tile can carry
  Alpha,       \* the letters randomAlpha draws the filler tiles from
  RowSize,     \* tiles in one row (5 in the code)
  TimeLimit,   \* seconds per logo (30 in the code)
  MaxPresses   \* bound: presses of the Start button in one behaviour

Pics     == 0 .. NumImages - 1
RackSize == 3 * RowSize
Cell     == 1 .. RackSize
Row1     == 1 .. RowSize          \* the tiles of list r1; r2 and r3 follow
Blank    == ""                    \* an unfilled letter, or a tile taken
NoPic    == -1
One      == 1000000               \* percent in millionths

ASSUME ImagesAssumption ==
  /\ NumImages \in Nat \ {0}
  /\ Title \in [Pics -> Seq(Letter)]
  /\ Malformed \subseteq Pics

ASSUME LettersAssumption ==
  /\ Blank \notin Letter
  /\ Alpha \subseteq Letter

ASSUME BoundsAssumption ==
  /\ RowSize \in Nat \ {0}
  /\ TimeLimit \in 1 .. 30
  /\ MaxPresses \in Nat

VARIABLES
  (* assigned by task() *)
  repeat, count, loop_count, end, firstpic, correct, text, rack, visible,
  percent,
  elapsed,       \* history: ticks of the current timer since the last task()
  (* the countdown *)
  timeinmin,
  timer,         \* number of the Timer in `_timer`; 0 is null
  live,          \* the Timers that still fire
  (* the button and the score *)
  start, obt_score,
  presses,       \* history: how often the button was pressed
  (* loading the list of images *)
  nimages,       \* images.length
  total_score, loading, prefsReady, names,
  (* the widget and its route *)
  built,         \* which controls the last built frame offers
  life,          \* where the route is in its life
  helpPending,   \* Home's Help handler is still at its await
  thanks,        \* the Scores handed to "/thanks", in order
  hung           \* the isolate is inside the endless loop of task()

logo  == <<repeat, count, loop_count, end, firstpic, correct, text, rack,
           visible, percent, elapsed>>
clock == <<timeinmin, timer, live>>
score == <<start, obt_score, presses>>
loads == <<nimages, total_score, loading, prefsReady, names>>
route == <<built, life, helpPending, thanks>>
vars  == <<logo, clock, score, loads, route, hung>>

-----------------------------------------------------------------------------
(* task(): the next logo, or the end of the game.                          *)

Copies(f, a) == Cardinality({i \in DOMAIN f : f[i] = a})

(* The title's letters plus random filler up to RackSize, shuffled: every  *)
(* rack with enough copies of each letter can come out, and only filler    *)
(* from Alpha can be in excess.                                            *)
Racks(t) ==
  {rk \in [Cell -> Letter] :
     \A a \in Letter : /\ Copies(t, a) <= Copies(rk, a)
                       /\ a \in Alpha \/ Copies(t, a) = Copies(rk, a)}

NoTiles == [c \in Cell |-> Blank]

MoreLogosEarly(n) == loop_count < n - 2
MoreLogosLate(n) == loop_count < n
MoreLogos(n) == loop_count < n - 1

ButtonLeftVisible == TRUE
HideButton == FALSE

WellFormed(p) == p \notin Malformed /\ Len(Title[p]) <= RackSize

(* task() ends in an exception, half done: substring got a range the path  *)
(* does not have, or randomAlpha a negative length.                        *)
TaskThrows(n, p) == MoreLogos(n) /\ ~WellFormed(p)

(* task() with p the first index drawn that `repeat` does not contain.     *)
Task(n, p) ==
  /\ p \in (0 .. n - 1) \ repeat
  /\ repeat' = repeat \cup {p}
  /\ visible' = HideButton
  /\ percent' = One
  /\ elapsed' = 0
  /\ \/ /\ MoreLogos(n)
        /\ count' = count + 1
        /\ firstpic' = p
        /\ \/ /\ p \in Malformed
              /\ correct' = << >>
              /\ text' = << >>
           \/ /\ p \notin Malformed
              /\ correct' = Title[p]
              /\ text' = [x \in 1 .. Len(Title[p]) |-> Blank]
        /\ \/ /\ WellFormed(p)
              /\ rack' \in Racks(Title[p])
              /\ loop_count' = loop_count + 1
           \/ /\ ~WellFormed(p)
              /\ rack' = NoTiles
              /\ UNCHANGED loop_count
        /\ UNCHANGED end
     \/ /\ ~MoreLogos(n)
        /\ end' = TRUE
        /\ correct' = << >>
        /\ text' = << >>
        /\ rack' = NoTiles
        /\ UNCHANGED <<count, loop_count, firstpic>>

(* `while (repeat.contains(pic_count))` has no index left to find.         *)
TaskHangs(n) == 0 .. n - 1 \subseteq repeat

(* task() then never returns; it has cleared the old logo by now.          *)
TaskLoops(n) ==
  /\ TaskHangs(n)
  /\ hung' = TRUE
  /\ visible' = HideButton
  /\ percent' = One
  /\ correct' = << >> /\ text' = << >> /\ rack' = NoTiles
  /\ UNCHANGED <<repeat, count, loop_count, end, firstpic, elapsed>>

(* A call of task() after which its caller does nothing more.              *)
RunTask(n) ==
  \/ (\E p \in Pics : Task(n, p)) /\ UNCHANGED hung
  \/ TaskLoops(n)

-----------------------------------------------------------------------------
(* Timers.                                                                 *)

CancelNothing == live
CancelTimer == live \ {timer}         \* _timer.cancel()

KeepTime == timeinmin
FullTime == TimeLimit

(* getstart() of a mounted widget, `running` being the Timers still alive. *)
GetStart(running) ==
  /\ timeinmin' = FullTime
  /\ timer' = timer + 1
  /\ live' = running \cup {timer + 1}

-----------------------------------------------------------------------------
(* Microtasks run before the next event: while a loaded getIm() waits to   *)
(* resume, no other callback runs.                                         *)
Idle == ~hung /\ ~(prefsReady /\ loading > 0)

Mounted == life # "gone"

StartButton == visible /\ (start = "Start" \/ count <= nimages - 1)
DoneButton  == visible /\ count = nimages /\ nimages # 0

Frame == IF StartButton THEN "Start" ELSE "game"

ScoreFromZero == 0
ScoreAtFirst == -1

Init ==
  /\ repeat = {} /\ count = 0 /\ loop_count = 0 /\ end = FALSE
  /\ firstpic = NoPic /\ correct = << >> /\ text = << >> /\ rack = NoTiles
  /\ visible = TRUE /\ percent = One /\ elapsed = 0
  /\ timeinmin = TimeLimit /\ timer = 0 /\ live = {}
  /\ start = "Start" /\ obt_score = ScoreAtFirst /\ presses = 0
  /\ nimages = 0 /\ total_score = 0 /\ loading = 0
  /\ prefsReady \in BOOLEAN /\ names \in {"list", "none"}
  /\ built = "Start" /\ life = "current" /\ helpPending \in BOOLEAN
  /\ thanks = << >> /\ hung = FALSE

(* The setState of the button's handler.                                   *)
StartBody(n) ==
  /\ start' = "Next"
  /\ obt_score' = obt_score + 1
  /\ GetStart(IF start = "Next" THEN CancelTimer ELSE live)
  /\ RunTask(n)

(* onPressed while `start` is "Start": empties `images` and awaits getIm().*)
PressStart ==
  /\ Idle /\ life = "current" /\ built = "Start" /\ start = "Start"
  /\ presses < MaxPresses
  /\ presses' = presses + 1
  /\ nimages' = 0
  /\ loading' = loading + 1
  /\ UNCHANGED <<logo, clock, start, obt_score, total_score, prefsReady,
                 names, route, hung>>

(* onPressed once `start` is "Next": the button of an outdated frame.      *)
PressNext ==
  /\ Idle /\ life = "current" /\ built = "Start" /\ start = "Next"
  /\ presses < MaxPresses
  /\ presses' = presses + 1
  /\ StartBody(nimages)
  /\ UNCHANGED <<loads, route>>

(* SharedPreferences.getInstance() completes.                              *)
PrefsArrive ==
  /\ Idle /\ ~prefsReady
  /\ prefsReady' = TRUE
  /\ UNCHANGED <<logo, clock, score, nimages, total_score, loading, names,
                 route, hung>>

(* getIm() decodes the list, and its caller goes on.                       *)
GetImDone ==
  /\ ~hung /\ prefsReady /\ loading > 0 /\ names = "list" /\ Mounted
  /\ nimages' = NumImages
  /\ total_score' = NumImages
  /\ loading' = loading - 1
  /\ StartBody(NumImages)
  /\ UNCHANGED <<presses, prefsReady, names, route>>

(* The same after dispose: the setState that follows getIm() throws. (In a *)
(* release build it throws after its callback changed fields of the State, *)
(* which nobody reads any more.)                                           *)
GetImAfterDispose ==
  /\ ~hung /\ prefsReady /\ loading > 0 /\ names = "list" /\ ~Mounted
  /\ nimages' = NumImages
  /\ total_score' = NumImages
  /\ loading' = loading - 1
  /\ UNCHANGED <<logo, clock, score, prefsReady, names, route, hung>>

(* json.decode throws on a missing or wiped list; the press is lost.       *)
GetImFails ==
  /\ ~hung /\ prefsReady /\ loading > 0 /\ names = "none"
  /\ loading' = loading - 1
  /\ UNCHANGED <<logo, clock, score, nimages, total_score, prefsReady,
                 names, route, hung>>

(* A frame is built and shows the controls of the current fields.          *)
Build ==
  /\ Idle /\ life = "current" /\ built # Frame
  /\ built' = Frame
  /\ UNCHANGED <<logo, clock, score, loads, life, helpPending, thanks, hung>>

-----------------------------------------------------------------------------
(* The tiles: onTap of r1, r2 and r3. A list is kept as the set of its     *)
(* tiles still there, so taking a tile leaves its cell Blank.              *)

Hits(a) == \E x \in DOMAIN correct : correct[x] = a

RevealFirst(a) ==
  [x \in DOMAIN text |->
     IF correct[x] = a /\ \A y \in 1 .. x - 1 : correct[y] # a
       THEN a ELSE text[x]]
Reveal(a) == [x \in DOMAIN text |-> IF correct[x] = a THEN a ELSE text[x]]

TextAfter(a) == IF Hits(a) THEN Reveal(a) ELSE text

(* r1 compares after every tap, r2 and r3 only after a hit.                *)
WinsOnOldText(c) == text = correct /\ (c \in Row1 \/ Hits(rack[c]))
Wins(c) == TextAfter(rack[c]) = correct /\ (c \in Row1 \/ Hits(rack[c]))

CanTap(c) ==
  Idle /\ life = "current" /\ built = "game" /\ rack[c] # Blank

TapLetter(c) ==
  /\ CanTap(c) /\ ~Wins(c)
  /\ text' = TextAfter(rack[c])
  /\ rack' = IF Hits(rack[c]) THEN [rack EXCEPT ![c] = Blank] ELSE rack
  /\ UNCHANGED <<repeat, count, loop_count, end, firstpic, correct, visible,
                 percent, elapsed, clock, score, loads, route, hung>>

TapWin(c) ==
  /\ CanTap(c) /\ Wins(c)
  /\ start' = "Next"
  /\ obt_score' = obt_score + 1
  /\ GetStart(CancelTimer)
  /\ RunTask(nimages)
  /\ UNCHANGED <<presses, loads, route>>

-----------------------------------------------------------------------------
(* The Timer's callback.                                                   *)

TimeLeftOrZero == timeinmin >= 0
TimeLeft == timeinmin > 0

(* percent = ((timeinmin - 1) * 3.3333) / 100                              *)
Percent(k) == k * 33333

CancelNoneOnEnd == live
CancelOnEnd == live \ {timer}

(* The second setState of the callback, `over` being the value of `end`.   *)
(* pushReplacementNamed replaces the top route, whichever that is.         *)
FinishTick(over) ==
  \/ /\ over
     /\ live' = CancelOnEnd
     /\ thanks' = Append(thanks, [obt |-> obt_score, tot |-> total_score])
     /\ life' = IF life = "current" THEN "leaving" ELSE life
  \/ /\ ~over
     /\ UNCHANGED <<live, thanks, life>>

CountDown(t) ==
  /\ Idle /\ Mounted /\ t \in live /\ TimeLeft
  /\ percent' = Percent(timeinmin - 1)
  /\ timeinmin' = timeinmin - 1
  /\ elapsed' = IF t = timer THEN elapsed + 1 ELSE elapsed
  /\ FinishTick(end)
  /\ UNCHANGED <<repeat, count, loop_count, end, firstpic, correct, text,
                 rack, visible, timer, score, loads, built, helpPending,
                 hung>>

(* task() returns: a new logo, or the end of the game.                     *)
TimeOut(t) ==
  /\ Idle /\ Mounted /\ t \in live /\ ~TimeLeft
  /\ \E p \in Pics : ~TaskThrows(nimages, p) /\ Task(nimages, p)
  /\ timeinmin' = FullTime
  /\ FinishTick(end')
  /\ UNCHANGED <<timer, score, loads, built, helpPending, hung>>

(* task() throws or never returns: the rest of the callback is skipped.    *)
TimeOutThrows(t) ==
  /\ Idle /\ Mounted /\ t \in live /\ ~TimeLeft
  /\ \E p \in Pics : TaskThrows(nimages, p) /\ Task(nimages, p)
  /\ UNCHANGED <<clock, score, loads, route, hung>>

TimeOutHangs(t) ==
  /\ Idle /\ Mounted /\ t \in live /\ ~TimeLeft
  /\ TaskLoops(nimages)
  /\ UNCHANGED <<clock, score, loads, route>>

(* After dispose the unguarded second setState throws: at its assertion in *)
(* a debug build, else after its callback, which may cancel but fails to   *)
(* navigate without a context.                                             *)
TickAfterDispose(t) ==
  /\ Idle /\ ~Mounted /\ t \in live
  /\ \/ UNCHANGED live
     \/ end /\ live' = CancelOnEnd
  /\ UNCHANGED <<logo, timeinmin, timer, score, loads, route, hung>>

Tick(t) ==
  \/ CountDown(t)
  \/ TimeOut(t)
  \/ TimeOutThrows(t)
  \/ TimeOutHangs(t)
  \/ TickAfterDispose(t)

-----------------------------------------------------------------------------
(* The route.                                                              *)

(* Back, or Home, Help or About of the drawer: the route starts to leave;  *)
(* its widget stays mounted until the transition is over.                  *)
Leave ==
  /\ Idle /\ life = "current"
  /\ life' = "leaving"
  /\ UNCHANGED <<logo, clock, score, loads, built, helpPending, thanks, hung>>

Dispose ==
  /\ Idle /\ life = "leaving"
  /\ life' = "gone"
  /\ UNCHANGED <<logo, clock, score, loads, built, helpPending, thanks, hung>>

(* Home's Help handler, tapped before Play, resumes: it wipes "names" and  *)
(* pushes Help on top of this route.                                       *)
HelpLands ==
  /\ Idle /\ prefsReady /\ helpPending
  /\ helpPending' = FALSE
  /\ names' = "none"
  /\ life' = IF life = "current" THEN "covered" ELSE life
  /\ UNCHANGED <<logo, clock, score, nimages, total_score, loading,
                 prefsReady, built, thanks, hung>>

(* The route on top is popped; this one is built again.                    *)
Uncover ==
  /\ Idle /\ life = "covered"
  /\ life' = "current"
  /\ built' = Frame
  /\ UNCHANGED <<logo, clock, score, loads, helpPending, thanks, hung>>

GetIm == GetImDone \/ GetImAfterDispose \/ GetImFails

Next ==
  \/ PressStart \/ PressNext \/ PrefsArrive
  \/ GetImDone \/ GetImAfterDispose \/ GetImFails
  \/ Build
  \/ \E c \in Cell : TapLetter(c) \/ TapWin(c)
  \/ \E t \in live : Tick(t)
  \/ Leave \/ Dispose \/ HelpLands \/ Uncover

Spec == Init /\ [][Next]_vars

(* The event loop serves timers, resumed awaits and route transitions; the *)
(* player owes nothing. The branches of the Timer's callback exclude each  *)
(* other, so each is given its own fairness.                               *)
FairSpec ==
  /\ Spec
  /\ WF_vars(\E t \in live : CountDown(t))
  /\ WF_vars(\E t \in live : TimeOut(t))
  /\ WF_vars(\E t \in live : TimeOutThrows(t))
  /\ WF_vars(\E t \in live : TimeOutHangs(t))
  /\ WF_vars(GetIm)
  /\ WF_vars(Dispose)

-----------------------------------------------------------------------------
(* Properties.                                                             *)

Scores == [obt : Int, tot : Nat]

LogoOK ==
  /\ repeat \subseteq Pics
  /\ count \in Nat /\ loop_count \in Nat /\ end \in BOOLEAN
  /\ firstpic \in Pics \cup {NoPic}
  /\ correct \in Seq(Letter) /\ text \in Seq(Letter \cup {Blank})
  /\ rack \in [Cell -> Letter \cup {Blank}]
  /\ visible \in BOOLEAN /\ percent \in Int /\ elapsed \in Nat

ClockOK ==
  timeinmin \in 0 .. TimeLimit /\ timer \in Nat /\ live \subseteq 1 .. timer

ScoreOK ==
  start \in {"Start", "Next"} /\ obt_score \in Int /\ presses \in Nat

LoadsOK ==
  /\ nimages \in {0, NumImages} /\ total_score \in {0, NumImages}
  /\ loading \in Nat /\ prefsReady \in BOOLEAN /\ names \in {"list", "none"}

RouteOK ==
  /\ built \in {"Start", "game"}
  /\ life \in {"current", "covered", "leaving", "gone"}
  /\ helpPending \in BOOLEAN /\ thanks \in Seq(Scores)

(* The fields hold values of their types; the countdown stays between 0    *)
(* and the limit, and only images of the list are recorded as drawn.       *)
TypeOK ==
  LogoOK /\ ClockOK /\ ScoreOK /\ LoadsOK /\ RouteOK /\ hung \in BOOLEAN

(* The periodic timers never pile up: every path that starts one cancels   *)
(* the one before (Quiz.dart:325, 408, 472, 537), so the field `_timer`    *)
(* always names the only Timer that still fires.                           *)
OneTimer == live \subseteq {timer}

(* A game hands its score to "/thanks" at most once, whatever the player   *)
(* and the route do between `end = true` and the tick that sees it         *)
(* (Quiz.dart:131-138).                                                    *)
AtMostOneThanks == Len(thanks) <= 1

(* Every score handed over is a count of at least 0 and below the number   *)
(* of images: the last image is drawn only to end the game, so "all" is    *)
(* never reached and obt/tot - 1 (ThankYou.dart:50) is always negative.    *)
ScoreBelowTotal ==
  \A i \in DOMAIN thanks : 0 <= thanks[i].obt /\ thanks[i].obt < thanks[i].tot

(* Points are only earned by calls of task(): at every moment the score is *)
(* below the number of images drawn.                                       *)
ScoreWithinDraws == hung \/ obt_score < Cardinality(repeat)

(* While a logo with at most RackSize letters is shown, every letter still *)
(* missing is on some tile: no order of taps makes it unsolvable.          *)
Solvable ==
  (firstpic # NoPic /\ WellFormed(firstpic) /\ ~end /\ ~hung) =>
    \A x \in DOMAIN correct :
      \/ text[x] = correct[x]
      \/ text[x] = Blank /\ \E c \in Cell : rack[c] = correct[x]

(* A logo whose letters are all filled in is replaced in the same tap: the *)
(* comparison r1 makes even after a miss (Quiz.dart:406) can never find a  *)
(* finished logo and score it twice.                                       *)
SolvedNeverLingers == text = correct => correct = << >>

(* A logo nobody solves is taken away on tick TimeLimit + 1 of its timer,  *)
(* never sooner and never later, whatever presses, wins and timeouts went  *)
(* before: the ring reaches 0 on tick TimeLimit and the logo stays for one *)
(* second more (Quiz.dart:118-128), 31 where help.dart:42 says 30.         *)
LogoTime ==
  [][(start = "Next" /\ ~hung' /\ timer' = timer
        /\ \A p \in Pics : WellFormed(p)) =>
       \/ repeat' = repeat /\ elapsed' = elapsed
       \/ repeat' = repeat /\ elapsed < TimeLimit /\ elapsed' = elapsed + 1
       \/ repeat' # repeat /\ elapsed = TimeLimit /\ elapsed' = 0]_vars

(* The percent given to CircularPercentIndicator (Quiz.dart:581), which    *)
(* throws outside 0.0 .. 1.0.                                              *)
PercentInRange == percent \in 0 .. One

(* Once a game has begun no frame offers Start, Next or Done again: task() *)
(* hides the button in the very call that a win makes it visible.          *)
NoButtonInGame == start = "Next" => ~StartButton /\ ~DoneButton

(* How many presses of Start a game stands.                                *)
PressLimit == IF NumImages = 1 THEN 1 ELSE 2

(* With well-formed titles and a double press of Start at most (a single   *)
(* one where there is one image only), task() is never called with every   *)
(* image already drawn, where its loop would not end (Quiz.dart:160).      *)
NoHang ==
  (\A p \in Pics : WellFormed(p)) /\ presses <= PressLimit => ~hung

(* A game once begun comes to its end by itself, or the player leaves it,  *)
(* unless Start was pressed three times in one frame (see NoHang).         *)
GameEnds ==
  start = "Next" ~> (thanks # << >> \/ life = "gone" \/ presses > 2)

(* help.dart:42, "For each logo, time limit is 30 seconds after that a new *)
(* logo will appear": a logo in play is followed by another one, or by the *)
(* end of the game.                                                        *)
NewLogoAppears ==
  \A p \in Pics : (firstpic = p /\ life = "current") ~>
                    (firstpic # p \/ end \/ life # "current")

(* The abstract game this screen plays.                                    *)
Abstract == INSTANCE Game WITH
              drawn <- repeat, points <- obt_score, over <- end,
              result <- IF thanks = << >> THEN -1 ELSE thanks[1].obt,
              stalled <- hung

(* The Quiz screen implements the game: no order of presses, taps, ticks,  *)
(* awaits and departures draws a logo twice, gives a point without a draw, *)
(* or changes anything after the score was handed over (Quiz.dart:111-212, *)
(* 317-338, 389-552).                                                      *)
PlaysTheGame == Abstract!Spec

-----------------------------------------------------------------------------
(* The inductive invariant behind the properties.                          *)

(* Before the first task() nothing runs, is shown or has been scored.      *)
NotBegun ==
  start = "Start" =>
    /\ timer = 0 /\ live = {} /\ repeat = {} /\ loop_count = 0 /\ ~end
    /\ obt_score = -1 /\ thanks = << >>
    /\ correct = << >> /\ text = << >> /\ rack = NoTiles

(* From then on the list is loaded and the button hidden.                  *)
Begun ==
  start = "Next" =>
    /\ prefsReady /\ ~visible /\ obt_score >= 0
    /\ nimages = NumImages /\ total_score = NumImages

(* After the last logo there is no tile to tap and none will come.         *)
Over == end => rack = NoTiles /\ loop_count >= NumImages - 1

(* Once the score is handed over nothing can start a timer again.          *)
HandedOver ==
  thanks # << >> =>
    /\ start = "Next" /\ end /\ live = {} /\ loading = 0
    /\ life = "current" => built = "game"

(* Every letter has its place in the answer.                               *)
SameLength == DOMAIN text = DOMAIN correct

(* Where the game is: the timer, the button, the tiles and the route agree.*)
FlowInv ==
  OneTimer /\ NotBegun /\ Begun /\ Over /\ HandedOver /\ AtMostOneThanks

(* The number in the ring is the limit less the ticks the logo has had.    *)
RingCountsTicks ==
  (start = "Next" /\ ~hung /\ \A p \in Pics : WellFormed(p)) =>
    timeinmin + elapsed = TimeLimit

(* What is on the screen: the letters, the tiles and the ring agree.       *)
AnswerInv == SameLength /\ SolvedNeverLingers /\ Solvable
RingInv   == RingCountsTicks /\ PercentInRange

(* The conjunction that every step preserves, and that implies the safety  *)
(* properties above (all but NoHang): no handler can rely on one of them   *)
(* alone (Quiz.dart:111-212, 317-338, 389-552).                            *)
IInv ==
  /\ TypeOK /\ FlowInv /\ ScoreWithinDraws /\ ScoreBelowTotal
  /\ AnswerInv /\ RingInv

(* What NoHang needs besides. The getIm() under way, and the game once     *)
(* begun, took a press of the button each.                                 *)
PressesPaid ==
  IF start = "Next" THEN loading < presses ELSE loading <= presses

(* Each logo shown was drawn, and the last draw only ends the game.        *)
DrawsCounted ==
  /\ loop_count <= NumImages - 1
  /\ end => loop_count = NumImages - 1
  /\ Cardinality(repeat) = loop_count + (IF end THEN 1 ELSE 0)

(* Once every image is drawn no callback that calls task() is left: no     *)
(* resumed await, no timeout, and no button unless the presses are used up.*)
NothingLeftToCall ==
  end =>
    /\ loading = 0 /\ (live = {} \/ timeinmin > 0)
    /\ life = "current" => built = "game" \/ presses >= PressLimit

HangInv ==
  /\ PressesPaid
  /\ (\A p \in Pics : WellFormed(p)) /\ presses <= PressLimit
       => ~hung /\ DrawsCounted /\ NothingLeftToCall

(* What PlaysTheGame needs besides: a logo shown was drawn before, so the  *)
(* game is over only when every image is drawn, malformed ones included.   *)
DrawnFirst == IF end THEN repeat = Pics ELSE loop_count <= Cardinality(repeat)

=============================================================================
