------------------------------- MODULE Game -------------------------------
(***************************************************************************)
(* What a game of the quiz promises, without its timers, tiles, frames and *)
(* routes: logos are drawn from the list one at a time and none twice; a   *)
(* point is only given together with a draw; when the last one is drawn    *)
(* the game is over; one score is handed over, and nothing changes after   *)
(* that. Module Quiz implements it (lib/Quiz.dart).                        *)
(* A game may also stall: a draw is asked for when none is left.           *)
(***************************************************************************)
EXTENDS Integers

CONSTANT NumImages

Pics == 0 .. NumImages - 1
None == -1

VARIABLES drawn,     \* the logos drawn so far
          points,
          over,      \* the last one was drawn
          result,    \* the score handed over, None before
          stalled

vars == <<drawn, points, over, result, stalled>>

Init ==
  /\ drawn = {} /\ points = None /\ over = FALSE /\ result = None
  /\ stalled = FALSE

Playing == result = None /\ ~stalled

AllDrawn(d) == d = Pics

(* The next logo, with a point for the one before it or without.           *)
Draw(p) ==
  /\ Playing /\ ~over
  /\ p \in Pics \ drawn
  /\ drawn' = drawn \cup {p}
  /\ points' \in {points, points + 1} /\ points' >= 0
  /\ over' \in BOOLEAN /\ (over' => AllDrawn(drawn'))
  /\ result' \in {None, points'} /\ (result' # None => over')
  /\ UNCHANGED stalled

HandOver ==
  /\ Playing /\ over
  /\ result' = points
  /\ UNCHANGED <<drawn, points, over, stalled>>

Stall ==
  /\ Playing /\ AllDrawn(drawn)
  /\ stalled' = TRUE
  /\ points' \in {points, points + 1}
  /\ UNCHANGED <<drawn, over, result>>

Next == (\E p \in Pics : Draw(p)) \/ HandOver \/ Stall

Spec == Init /\ [][Next]_vars

=============================================================================
