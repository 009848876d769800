-------------------------------- MODULE App --------------------------------
(***************************************************************************)
(* The stack of routes. Home pushes Quiz (lib/home.dart) and, after its    *)
(* awaits, Help; the set-up pushes Home after its awaits                   *)
(* (lib/imagedownload.dart). Nothing keeps a player from pressing again    *)
(* while a press is at its await, or from going elsewhere. The drawer, the *)
(* end of a game (lib/Quiz.dart) and the result screen (lib/ThankYou.dart) *)
(* replace the route on top, whichever that is. A route popped or replaced *)
(* stays mounted until its transition is over, and so do its timer and its *)
(* context.                                                                *)
(* A Quiz is abstracted to whether its game is on; module Quiz shows the   *)
(* rest, and that a game hands one score over.                             *)
(***************************************************************************)
EXTENDS Integers, Sequences, FiniteSets, SequencesExt

CONSTANTS
  MaxRoutes,   \* bound: routes made in one behaviour
  MaxCalls     \* bound: presses of one route at their await at a time

ASSUME RoutesAssumption == MaxRoutes \in Nat \ {0} /\ MaxCalls \in Nat

Kinds  == {"setup", "home", "quiz", "help", "about", "thanks"}
Drawers == Kinds \ {"setup"}       \* screens with a drawer

VARIABLES
  stack,     \* the routes of the Navigator, the top one last
  leaving,   \* routes off the stack, still mounted with work to do
  made,      \* how many routes were made; also the name of the last one
  game,      \* game[i]: "ready", "on" or "over" if route i is a Quiz
  nexts,     \* presses of the set-up's Next that are at their await
  helps,     \* helps[i]: presses of Help, of the Home i, at their await
  results,   \* history: the scores handed over, and the route each replaced
  covered    \* history: the routes on which a press made elsewhere landed

vars == <<stack, leaving, made, game, nexts, helps, results, covered>>

Top     == Last(stack)
Mounted == Range(stack) \cup leaving
Running == stack # << >>

(* Off the stack, a Quiz may still tick, a Home or the set-up still wait.  *)
Outgoing ==
  {r \in {Top} : \/ r.kind = "quiz" \/ helps[r.id] > 0
                 \/ r.kind = "setup" /\ nexts > 0}

Route(kind) == [kind |-> kind, id |-> made + 1]

NotPopped == stack
Popped == Front(stack)

(* Navigator.push and Navigator.pushReplacementNamed.                      *)
Push(r) ==
  /\ made < MaxRoutes
  /\ made' = made + 1
  /\ stack' = Append(stack, r)
  /\ UNCHANGED leaving

Replace(r) ==
  /\ made < MaxRoutes
  /\ made' = made + 1
  /\ stack' = Append(Popped, r)
  /\ leaving' = leaving \cup Outgoing

Init ==
  /\ \E k \in {"setup", "home"} : stack = <<[kind |-> k, id |-> 1]>>
  /\ leaving = {} /\ made = 1 /\ game = [i \in 1 .. MaxRoutes |-> "none"]
  /\ nexts = 0 /\ helps = [i \in 1 .. MaxRoutes |-> 0]
  /\ results = << >> /\ covered = {}

(* A press comes back from its await: what it pushes lands on the route    *)
(* that is on top by then.                                                 *)
Lands(caller, kind) ==
  /\ Push(Route(kind))
  /\ covered' = covered \cup {r \in {Top} : r.id # caller}

(* Next of the set-up, before its awaits and after them. The set-up, route *)
(* 1, stays below Home.                                                    *)
NextTap ==
  /\ Running /\ Top.kind = "setup" /\ nexts < MaxCalls
  /\ nexts' = nexts + 1
  /\ UNCHANGED <<stack, leaving, made, game, helps, results, covered>>

NextLands ==
  /\ Running /\ nexts > 0
  /\ Lands(1, "home")
  /\ nexts' = nexts - 1
  /\ UNCHANGED <<game, helps, results>>

(* A context that is not mounted any more may not find the Navigator.      *)
NextLost ==
  /\ Running /\ nexts > 0 /\ \A r \in Mounted : r.id # 1
  /\ nexts' = nexts - 1
  /\ UNCHANGED <<stack, leaving, made, game, helps, results, covered>>

ReplaceByGame(r) == Replace(r)
OpenGame(r) == Push(r)

(* Home's Play.                                                            *)
Play ==
  /\ Running /\ Top.kind = "home"
  /\ OpenGame(Route("quiz"))
  /\ game' = [game EXCEPT ![made + 1] = "ready"]
  /\ UNCHANGED <<nexts, helps, results, covered>>

(* Home's Help, before its awaits and after them.                          *)
HelpTap ==
  /\ Running /\ Top.kind = "home" /\ helps[Top.id] < MaxCalls
  /\ helps' = [helps EXCEPT ![Top.id] = @ + 1]
  /\ UNCHANGED <<stack, leaving, made, game, nexts, results, covered>>

HelpLands(h) ==
  /\ Running /\ helps[h] > 0
  /\ Lands(h, "help")
  /\ helps' = [helps EXCEPT ![h] = @ - 1]
  /\ UNCHANGED <<game, nexts, results>>

HelpLost(h) ==
  /\ Running /\ helps[h] > 0 /\ \A r \in Mounted : r.id # h
  /\ helps' = [helps EXCEPT ![h] = @ - 1]
  /\ UNCHANGED <<stack, leaving, made, game, nexts, results, covered>>

GoByPush(r) == Push(r)
Go(r) == Replace(r)

(* Home, Help and About of the drawer.                                     *)
Drawer(kind) ==
  /\ Running /\ Top.kind \in Drawers
  /\ Go(Route(kind))
  /\ UNCHANGED <<game, nexts, helps, results, covered>>

(* Continue of the result screen.                                          *)
Continue ==
  /\ Running /\ Top.kind = "thanks"
  /\ Go(Route("home"))
  /\ UNCHANGED <<game, nexts, helps, results, covered>>

(* The system's Back; on the last route it leaves the app.                 *)
Back ==
  /\ Running
  /\ leaving' = IF Len(stack) > 1 THEN leaving \cup Outgoing ELSE {}
  /\ stack' = Popped
  /\ UNCHANGED <<made, game, nexts, helps, results, covered>>

(* Quit of Home and of the drawer: exit(0).                                *)
Quit ==
  /\ Running /\ Top.kind \in Drawers
  /\ stack' = << >> /\ leaving' = {}
  /\ UNCHANGED <<made, game, nexts, helps, results, covered>>

(* A transition ends; the widget is disposed.                              *)
Dispose(r) ==
  /\ r \in leaving
  /\ leaving' = leaving \ {r}
  /\ UNCHANGED <<stack, made, game, nexts, helps, results, covered>>

(* Start of a Quiz.                                                        *)
Begin ==
  /\ Running /\ Top.kind = "quiz" /\ game[Top.id] = "ready"
  /\ game' = [game EXCEPT ![Top.id] = "on"]
  /\ UNCHANGED <<stack, leaving, made, nexts, helps, results, covered>>

Ticking == Mounted              \* whose Timers still see a mounted State

(* The tick that sees the end of the game hands the score over.            *)
GameOver(q) ==
  /\ Running /\ q.kind = "quiz" /\ game[q.id] = "on"
  /\ Replace(Route("thanks"))
  /\ game' = [game EXCEPT ![q.id] = "over"]
  /\ results' = Append(results, [of |-> q, took |-> Top])
  /\ UNCHANGED <<nexts, helps, covered>>

Next ==
  \/ NextTap \/ NextLands \/ NextLost
  \/ Play \/ HelpTap \/ Continue \/ Back \/ Quit \/ Begin
  \/ \E h \in 1 .. MaxRoutes : HelpLands(h) \/ HelpLost(h)
  \/ \E k \in {"home", "help", "about"} : Drawer(k)
  \/ \E r \in leaving : Dispose(r)
  \/ \E q \in Ticking : GameOver(q)

Spec == Init /\ [][Next]_vars
-----------------------------------------------------------------------------
(* Properties.                                                             *)

Routes == [kind : Kinds, id : 1 .. made]

(* The stack holds routes that were made, none of them twice and none that *)
(* is also on its way out.                                                 *)
TypeOK ==
  /\ stack \in Seq(Routes) /\ leaving \subseteq Routes
  /\ IsInjective(stack) /\ Range(stack) \cap leaving = {}
  /\ made \in 1 .. MaxRoutes
  /\ game \in [1 .. MaxRoutes -> {"none", "ready", "on", "over"}]
  /\ nexts \in 0 .. MaxCalls
  /\ helps \in [1 .. MaxRoutes -> 0 .. MaxCalls]

(* Below a Quiz there is always the Home that pushed it, whatever is       *)
(* replaced above and however games are left (home.dart:93): Back from a   *)
(* game leads Home.                                                        *)
QuizOnHome ==
  \A i \in DOMAIN stack :
    stack[i].kind = "quiz" => i > 1 /\ stack[i - 1].kind = "home"

(* What piles up below the top, game after game (ThankYou.dart:80), is     *)
(* Homes on the set-up: no Quiz, result, Help or About is ever left behind *)
(* another screen, except the one on which a press of Help or of Next made *)
(* elsewhere landed after its awaits (home.dart:118, imagedownload.dart:   *)
(* 186).                                                                   *)
HomesPileUp ==
  \A i \in DOMAIN stack :
    \/ i = Len(stack) \/ stack[i].kind = "home"
    \/ i = 1 /\ stack[i].kind = "setup"
    \/ stack[i] \in covered

(* A result takes the place of its own Quiz, or that Quiz has been left,   *)
(* or a press of Help or of Next has landed on it late: only these races   *)
(* let a game take another screen away (Quiz.dart:134, home.dart:121,      *)
(* imagedownload.dart:188).                                                *)
StraysOnlyByRace ==
  \A i \in DOMAIN results :
    LET r == results[i] IN
      r.took = r.of \/ r.of \in covered \/ r.of \notin Range(stack)

-----------------------------------------------------------------------------
(* The inductive invariant behind the safety properties.                   *)

(* Every score came from a route that was made, and every covered route    *)
(* was made too.                                                           *)
HistoryOK ==
  results \in Seq([of : Routes, took : Routes]) /\ covered \subseteq Routes

(* Only a Home waits for Help and only the set-up, at the bottom, for Next *)
(* to land; the number of a route tells it from every other one.           *)
CallersOK ==
  /\ \A i, j \in DOMAIN stack : stack[i].id = stack[j].id => i = j
  /\ \A i \in DOMAIN stack :
       /\ helps[stack[i].id] > 0 => stack[i].kind = "home"
       /\ nexts > 0 /\ stack[i].id = 1 => stack[i].kind = "setup"
       /\ stack[i].kind = "setup" => i = 1 /\ stack[i].id = 1
  /\ \A i \in 1 .. MaxRoutes : i > made => helps[i] = 0

AppInv ==
  /\ TypeOK /\ HistoryOK /\ CallersOK
  /\ QuizOnHome /\ HomesPileUp /\ StraysOnlyByRace

=============================================================================
