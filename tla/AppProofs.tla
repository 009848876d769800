----------------------------- MODULE AppProofs -----------------------------
(***************************************************************************)
(* Proofs about the stack of routes, for every number of routes made.      *)
(***************************************************************************)
EXTENDS App, TLAPS, SequenceTheorems

-----------------------------------------------------------------------------
(* Sequences.                                                              *)

(* A list of members of A is one of members of a larger set.               *)
LEMMA SeqGrows ==
  ASSUME NEW A, NEW B, A \subseteq B, NEW s \in Seq(A)
  PROVE  s \in Seq(B)
<1>1. Len(s) \in Nat /\ s \in [1 .. Len(s) -> A]
  BY LenProperties
<1>2. s \in [1 .. Len(s) -> B]
  BY <1>1
<1>3. QED
  BY <1>1, <1>2, SeqDef

(* The length SubSeqProperties gives.                                      *)
LEMMA OneShorter ==
  ASSUME NEW n \in Nat \ {0}, NEW m,
         m = IF 1 <= n - 1 THEN n - 1 - 1 + 1 ELSE 0
  PROVE  m = n - 1
<1>1. CASE n = 1
  BY <1>1
<1>2. CASE n > 1
  BY <1>2
<1>3. QED
  BY <1>1, <1>2

(* What pop leaves of a stack.                                             *)
LEMMA FrontKeeps ==
  ASSUME NEW S, NEW s \in Seq(S), s # << >>
  PROVE  /\ Front(s) \in Seq(S) /\ Len(Front(s)) = Len(s) - 1
         /\ Len(s) \in Nat \ {0}
         /\ \A i \in 1 .. Len(s) - 1 : Front(s)[i] = s[i]
<1>1. Len(s) \in Nat \ {0} /\ \A i \in 1 .. Len(s) : s[i] \in S
  BY EmptySeq, LenProperties
<1>2. 1 \in Int /\ Len(s) - 1 \in Int
      /\ \A i \in 1 .. Len(s) - 1 : s[i] \in S
  BY <1>1
<1>3. /\ SubSeq(s, 1, Len(s) - 1) \in Seq(S)
      /\ Len(SubSeq(s, 1, Len(s) - 1))
           = IF 1 <= Len(s) - 1 THEN Len(s) - 1 - 1 + 1 ELSE 0
      /\ \A i \in 1 .. Len(s) - 1 - 1 + 1 :
           SubSeq(s, 1, Len(s) - 1)[i] = s[1 + i - 1]
  BY <1>2, SubSeqProperties
<1>4. Len(SubSeq(s, 1, Len(s) - 1)) = Len(s) - 1
  BY <1>1, <1>3, OneShorter
<1>5. \A i \in 1 .. Len(s) - 1 : SubSeq(s, 1, Len(s) - 1)[i] = s[i]
  BY <1>1, <1>3
<1>6. QED
  BY <1>1, <1>3, <1>4, <1>5 DEF Front

-----------------------------------------------------------------------------
(* What one step does to the stack.                                        *)

(* A step keeps the first n routes and puts at most one new route on them, *)
(* never the set-up: a Quiz on a Home only, and otherwise on a Home, on    *)
(* the set-up or on a route that is covered by then. What it takes off may *)
(* be on its way out.                                                      *)
Moves(n) ==
  /\ stack' \in Seq(Routes')
  /\ made' \in Nat /\ made <= made' /\ made' <= MaxRoutes
  /\ \A i \in 1 .. n : stack'[i] = stack[i]
  /\ leaving' \subseteq leaving \cup {stack[i] : i \in n + 1 .. Len(stack)}
  /\ \/ Len(stack') = n
     \/ /\ Len(stack') = n + 1
        /\ stack'[n + 1].id = made + 1 /\ made' = made + 1
        /\ stack'[n + 1].kind # "setup"
        /\ stack'[n + 1].kind = "quiz" => n > 0 /\ stack[n].kind = "home"
        /\ n > 0 => \/ stack[n].kind = "home"
                    \/ n = 1 /\ stack[n].kind = "setup"
                    \/ stack[n] \in covered'
  /\ covered \subseteq covered'
  /\ covered' \subseteq covered \cup Range(stack)

(* The route of a new screen.                                              *)
LEMMA NewRoute ==
  ASSUME TypeOK, NEW k \in Kinds, made < MaxRoutes, made' = made + 1
  PROVE  /\ Route(k) \in Routes' /\ Route(k).id = made + 1 /\ Route(k).kind = k
         /\ Routes \subseteq Routes'
         /\ made' \in Nat /\ made <= made' /\ made' <= MaxRoutes
<1>1. made \in Nat /\ made >= 1 /\ MaxRoutes \in Nat
  BY RoutesAssumption DEF TypeOK
<1>2. QED
  BY <1>1 DEF Route, Routes

(* Navigator.push.                                                         *)
LEMMA PushMoves ==
  ASSUME AppInv, NEW k \in Kinds \ {"setup"}, Push(Route(k)), Running,
         covered \subseteq covered', covered' \subseteq covered \cup {Top},
         k = "quiz" => Top.kind = "home",
         \/ Top.kind = "home" \/ Top.kind = "setup" \/ Top \in covered'
  PROVE  Moves(Len(stack))
<1>1. /\ stack \in Seq(Routes) /\ made < MaxRoutes /\ made' = made + 1
      /\ stack' = Append(stack, Route(k)) /\ leaving' = leaving
  BY DEF AppInv, TypeOK, Push
<1>2. /\ Route(k) \in Routes' /\ Route(k).id = made + 1 /\ Route(k).kind = k
      /\ Routes \subseteq Routes'
      /\ made' \in Nat /\ made <= made' /\ made' <= MaxRoutes
  BY <1>1, NewRoute DEF AppInv
<1>3. stack \in Seq(Routes') /\ Len(stack) \in Nat \ {0}
  BY <1>1, <1>2, SeqGrows, EmptySeq DEF Running
<1>4. /\ stack' \in Seq(Routes') /\ Len(stack') = Len(stack) + 1
      /\ \A i \in 1 .. Len(stack) : stack'[i] = stack[i]
      /\ stack'[Len(stack) + 1] = Route(k)
  BY <1>1, <1>2, <1>3, AppendProperties
<1>5. Top = stack[Len(stack)] /\ Len(stack) \in DOMAIN stack
  BY <1>1, <1>3, LenProperties DEF Top, Last
<1>6. \/ stack[Len(stack)].kind = "home"
      \/ Len(stack) = 1 /\ stack[Len(stack)].kind = "setup"
      \/ stack[Len(stack)] \in covered'
  BY <1>5 DEF AppInv, CallersOK
<1>7. k = "quiz" => Len(stack) > 0 /\ stack[Len(stack)].kind = "home"
  BY <1>3, <1>5
<1>8. covered' \subseteq covered \cup Range(stack)
  BY <1>5 DEF Range
<1>9. QED
  BY <1>1, <1>2, <1>4, <1>6, <1>7, <1>8 DEF Moves

(* Navigator.pushReplacementNamed.                                         *)
LEMMA ReplaceMoves ==
  ASSUME AppInv, NEW k \in Kinds \ {"quiz", "setup"}, Replace(Route(k)),
         Running, covered' = covered
  PROVE  Moves(Len(stack) - 1)
<1>1. /\ stack \in Seq(Routes) /\ made < MaxRoutes /\ made' = made + 1
      /\ stack' = Append(Front(stack), Route(k))
      /\ leaving' = leaving \cup Outgoing
  BY DEF AppInv, TypeOK, Replace, Popped
<1>2. /\ Route(k) \in Routes' /\ Route(k).id = made + 1 /\ Route(k).kind = k
      /\ Routes \subseteq Routes'
      /\ made' \in Nat /\ made <= made' /\ made' <= MaxRoutes
  BY <1>1, NewRoute DEF AppInv
<1>3. /\ Front(stack) \in Seq(Routes) /\ Len(Front(stack)) = Len(stack) - 1
      /\ Len(stack) \in Nat \ {0}
      /\ \A i \in 1 .. Len(stack) - 1 : Front(stack)[i] = stack[i]
  BY <1>1, FrontKeeps DEF Running
<1>4. Front(stack) \in Seq(Routes')
  BY <1>2, <1>3, SeqGrows
<1>5. /\ stack' \in Seq(Routes') /\ Len(stack') = Len(Front(stack)) + 1
      /\ \A i \in 1 .. Len(Front(stack)) : stack'[i] = Front(stack)[i]
      /\ stack'[Len(Front(stack)) + 1] = Route(k)
  BY <1>1, <1>2, <1>4, AppendProperties
<1>6. /\ Len(stack') = Len(stack) - 1 + 1 /\ Len(stack') = Len(stack)
      /\ \A i \in 1 .. Len(stack) - 1 : stack'[i] = stack[i]
      /\ stack'[Len(stack) - 1 + 1] = Route(k)
  BY <1>3, <1>5
<1>7. leaving' \subseteq
        leaving \cup {stack[i] : i \in Len(stack) - 1 + 1 .. Len(stack)}
  <2>1. Outgoing \subseteq {stack[Len(stack)]}
    BY DEF Outgoing, Top, Last
  <2>2. Len(stack) \in Len(stack) - 1 + 1 .. Len(stack)
    BY <1>3
  <2>3. QED
    BY <1>1, <2>1, <2>2
<1>8. Len(stack) - 1 > 0 =>
        \/ stack[Len(stack) - 1].kind = "home"
        \/ Len(stack) - 1 = 1 /\ stack[Len(stack) - 1].kind = "setup"
        \/ stack[Len(stack) - 1] \in covered'
  <2>1. DOMAIN stack = 1 .. Len(stack)
    BY <1>1, LenProperties
  <2>2. Len(stack) - 1 > 0 =>
          Len(stack) - 1 \in 1 .. Len(stack) /\ Len(stack) - 1 # Len(stack)
    BY <1>3
  <2>3. QED
    BY <2>1, <2>2 DEF AppInv, HomesPileUp
<1>9. QED
  BY <1>1, <1>2, <1>3, <1>5, <1>6, <1>7, <1>8 DEF Moves

(* A step that only takes routes off, or none.                             *)
LEMMA PopMoves ==
  ASSUME AppInv, NEW n \in 0 .. Len(stack),
         stack' \in Seq(Routes), Len(stack') = n,
         \A i \in 1 .. n : stack'[i] = stack[i],
         leaving' \subseteq
           leaving \cup {stack[i] : i \in n + 1 .. Len(stack)},
         UNCHANGED <<made, covered>>
  PROVE  Moves(n)
<1>1. Routes' = Routes
  BY DEF Routes
<1>2. made' \in Nat /\ made <= made' /\ made' <= MaxRoutes
  BY RoutesAssumption DEF AppInv, TypeOK
<1>3. Len(stack) \in Nat
  BY LenProperties DEF AppInv, TypeOK
<1>4. QED
  BY <1>1, <1>2, <1>3 DEF Moves

(* Every step moves the stack in one of these ways.                        *)
LEMMA EveryStepMoves ==
  ASSUME AppInv, [Next]_vars
  PROVE  \E n \in 0 .. Len(stack) : Moves(n)
<1>1. stack \in Seq(Routes) /\ Len(stack) \in Nat
  BY LenProperties DEF AppInv, TypeOK
<1>2. Len(stack) \in 0 .. Len(stack)
  BY <1>1
<1>3. Running => Len(stack) - 1 \in 0 .. Len(stack)
  BY <1>1, FrontKeeps DEF Running
<1>4. Top = stack[Len(stack)]
  BY DEF Top, Last
<1>5. CASE NextLands
  <2>1. /\ Running /\ nexts > 0 /\ Push(Route("home"))
        /\ covered' = covered \cup {r \in {Top} : r.id # 1}
    BY <1>5 DEF NextLands, Lands
  <2>2. Len(stack) \in DOMAIN stack
    BY <1>1, <2>1, EmptySeq, LenProperties DEF Running
  <2>3. Top.kind = "setup" \/ Top \in covered'
    BY <1>4, <2>1, <2>2 DEF AppInv, CallersOK
  <2>4. QED
    BY <1>2, <2>1, <2>3, PushMoves DEF Kinds
<1>6. CASE Play
  BY <1>2, <1>6, PushMoves DEF Play, OpenGame, Kinds
<1>7. ASSUME NEW h \in 1 .. MaxRoutes, HelpLands(h)
      PROVE  \E n \in 0 .. Len(stack) : Moves(n)
  <2>1. /\ Running /\ helps[h] > 0 /\ Push(Route("help"))
        /\ covered' = covered \cup {r \in {Top} : r.id # h}
    BY <1>7 DEF HelpLands, Lands
  <2>2. Len(stack) \in DOMAIN stack
    BY <1>1, <2>1, EmptySeq, LenProperties DEF Running
  <2>3. Top.kind = "home" \/ Top \in covered'
    BY <1>4, <2>1, <2>2 DEF AppInv, CallersOK
  <2>4. QED
    BY <1>2, <2>1, <2>3, PushMoves DEF Kinds
<1>8. ASSUME NEW k \in {"home", "help", "about"}, Drawer(k)
      PROVE  \E n \in 0 .. Len(stack) : Moves(n)
  <2>1. k \in Kinds \ {"quiz", "setup"}
    BY DEF Kinds
  <2>2. QED
    BY <1>3, <1>8, <2>1, ReplaceMoves DEF Drawer, Go
<1>9. CASE Continue
  BY <1>3, <1>9, ReplaceMoves DEF Continue, Go, Kinds
<1>10. ASSUME NEW q, GameOver(q)
       PROVE  \E n \in 0 .. Len(stack) : Moves(n)
  BY <1>3, <1>10, ReplaceMoves DEF GameOver, Kinds
<1>11. CASE Back
  <2>1. /\ stack' = Front(stack) /\ stack' \in Seq(Routes)
        /\ Len(stack') = Len(stack) - 1 /\ Len(stack) \in Nat \ {0}
        /\ \A i \in 1 .. Len(stack) - 1 : stack'[i] = stack[i]
    BY <1>1, <1>11, FrontKeeps DEF Back, Popped, Running
  <2>2. leaving' \subseteq leaving \cup {stack[Len(stack)]}
    BY <1>4, <1>11 DEF Back, Outgoing
  <2>3. Len(stack) \in Len(stack) - 1 + 1 .. Len(stack)
    BY <2>1
  <2>4. Moves(Len(stack) - 1)
    BY <1>3, <1>11, <2>1, <2>2, <2>3, PopMoves DEF Back
  <2>5. QED
    BY <1>3, <1>11, <2>4 DEF Back
<1>12. CASE Quit
  <2>1. 0 \in 0 .. Len(stack) /\ stack' \in Seq(Routes) /\ Len(stack') = 0
        /\ \A i \in 1 .. 0 : stack'[i] = stack[i]
    BY <1>1, <1>12, EmptySeq DEF Quit
  <2>2. Moves(0)
    BY <1>12, <2>1, PopMoves DEF Quit
  <2>3. QED
    BY <2>1, <2>2
<1>13. CASE /\ UNCHANGED <<stack, made, covered>> /\ leaving' \subseteq leaving
  BY <1>1, <1>2, <1>13, PopMoves
<1>14. QED
  BY <1>5, <1>6, <1>7, <1>8, <1>9, <1>10, <1>11, <1>12, <1>13
     DEF Next, NextTap, NextLost, HelpTap, HelpLost, Dispose, Begin, vars

-----------------------------------------------------------------------------
(* The parts of the invariant.                                             *)

(* Moves, position by position.                                            *)
LEMMA MovesByPlace ==
  ASSUME AppInv, NEW n \in 0 .. Len(stack), Moves(n)
  PROVE  /\ stack \in Seq(Routes) /\ stack' \in Seq(Routes')
         /\ n \in Nat /\ Len(stack) \in Nat /\ Len(stack') \in Nat
         /\ n <= Len(stack)
         /\ DOMAIN stack = 1 .. Len(stack) /\ DOMAIN stack' = 1 .. Len(stack')
         /\ Len(stack') = n \/ Len(stack') = n + 1
         /\ \A i \in 1 .. n : i \in 1 .. Len(stack) /\ stack'[i] = stack[i]
         /\ \A i \in 1 .. Len(stack') :
              \/ i \in 1 .. n
              \/ /\ i = n + 1 /\ Len(stack') = n + 1
                 /\ stack'[n + 1].id = made + 1
<1>1. stack \in Seq(Routes) /\ stack' \in Seq(Routes')
  BY DEF AppInv, TypeOK, Moves
<1>2. /\ DOMAIN stack = 1 .. Len(stack) /\ Len(stack) \in Nat
      /\ DOMAIN stack' = 1 .. Len(stack') /\ Len(stack') \in Nat
  BY <1>1, LenProperties
<1>3. n \in Nat /\ n <= Len(stack)
  BY <1>2
<1>4. \/ Len(stack') = n
      \/ Len(stack') = n + 1 /\ stack'[n + 1].id = made + 1
  BY DEF Moves
<1>5. \A i \in 1 .. n : i \in 1 .. Len(stack)
  BY <1>2, <1>3
<1>6. \A i \in 1 .. n : stack'[i] = stack[i]
  BY DEF Moves
<1>7. \A i \in 1 .. Len(stack') :
        \/ i \in 1 .. n
        \/ /\ i = n + 1 /\ Len(stack') = n + 1
           /\ stack'[n + 1].id = made + 1
  BY <1>2, <1>3, <1>4
<1>8. QED
  BY <1>1, <1>2, <1>3, <1>4, <1>5, <1>6, <1>7

(* A route that is not on the stack does not come back to it.              *)
LEMMA GoneIsGone ==
  ASSUME AppInv, NEW n \in 0 .. Len(stack), Moves(n),
         NEW r \in Routes, r \notin Range(stack)
  PROVE  r \notin Range(stack')
<1>1. /\ stack \in Seq(Routes) /\ stack' \in Seq(Routes')
      /\ made \in Nat /\ r.id \in Nat /\ r.id <= made
  BY DEF AppInv, TypeOK, Moves, Routes
<1>2. DOMAIN stack = 1 .. Len(stack) /\ DOMAIN stack' = 1 .. Len(stack')
  BY MovesByPlace
<1>3. SUFFICES ASSUME NEW i \in 1 .. Len(stack') PROVE stack'[i] # r
  BY <1>2 DEF Range
<1>4. CASE i \in 1 .. n
  <2>1. i \in 1 .. Len(stack) /\ stack'[i] = stack[i]
    BY <1>4, MovesByPlace
  <2>2. QED
    BY <1>2, <2>1 DEF Range
<1>5. CASE i = n + 1 /\ stack'[n + 1].id = made + 1
  BY <1>1, <1>5
<1>6. QED
  BY <1>4, <1>5, MovesByPlace

(* No route is on the stack twice, or on it and on its way out.            *)
LEMMA StackStep ==
  ASSUME AppInv, NEW n \in 0 .. Len(stack), Moves(n)
  PROVE  /\ stack' \in Seq(Routes') /\ leaving' \subseteq Routes'
         /\ Routes \subseteq Routes' /\ made' \in 1 .. MaxRoutes
         /\ IsInjective(stack') /\ Range(stack') \cap leaving' = {}
<1>1. /\ stack \in Seq(Routes) /\ stack' \in Seq(Routes')
      /\ made \in Nat /\ made >= 1 /\ made' \in Nat /\ made <= made'
      /\ made' <= MaxRoutes /\ MaxRoutes \in Nat
      /\ leaving \subseteq Routes
      /\ IsInjective(stack) /\ Range(stack) \cap leaving = {}
  BY RoutesAssumption DEF AppInv, TypeOK, Moves
<1>2. /\ DOMAIN stack = 1 .. Len(stack) /\ Len(stack) \in Nat
      /\ stack \in [1 .. Len(stack) -> Routes]
      /\ DOMAIN stack' = 1 .. Len(stack') /\ Len(stack') \in Nat
  BY <1>1, LenProperties
<1>3. Routes \subseteq Routes' /\ made' \in 1 .. MaxRoutes
  BY <1>1 DEF Routes
<1>4. leaving' \subseteq Routes'
  <2>1. \A i \in n + 1 .. Len(stack) : stack[i] \in Routes
    <3>1. n \in Nat /\ n + 1 >= 1
      BY MovesByPlace
    <3>2. QED
      BY <1>2, <3>1
  <2>2. leaving' \subseteq leaving \cup {stack[i] : i \in n + 1 .. Len(stack)}
    BY DEF Moves
  <2>3. QED
    BY <1>1, <1>3, <2>1, <2>2
<1>5. \A i \in 1 .. n : i \in 1 .. Len(stack) /\ stack'[i] = stack[i]
  BY MovesByPlace
<1>6. \A i \in 1 .. Len(stack) : stack[i].id \in Nat /\ stack[i].id <= made
  <2>1. \A r \in Routes : r.id \in Nat /\ r.id <= made
    BY <1>1 DEF Routes
  <2>2. QED
    BY <1>2, <2>1
<1>7. \A r \in leaving : r.id \in Nat /\ r.id <= made
  BY <1>1 DEF Routes
<1>8. \A i \in 1 .. Len(stack') :
        \/ i \in 1 .. n
        \/ i = n + 1 /\ stack'[i].id = made + 1
  BY MovesByPlace
<1>9. IsInjective(stack')
  <2>1. SUFFICES ASSUME NEW i \in 1 .. Len(stack'), NEW j \in 1 .. Len(stack'),
                        stack'[i] = stack'[j]
                 PROVE  i = j
    BY <1>2 DEF IsInjective
  <2>2. CASE i \in 1 .. n /\ j \in 1 .. n
    BY <1>1, <1>2, <1>5, <2>1, <2>2 DEF IsInjective
  <2>3. CASE i = n + 1 /\ j = n + 1
    BY <2>3
  <2>4. \A a \in 1 .. n : stack'[a].id # made + 1
    BY <1>1, <1>5, <1>6
  <2>5. QED
    BY <1>8, <2>1, <2>2, <2>3, <2>4
<1>10. Range(stack') \cap leaving' = {}
  <2>1. SUFFICES ASSUME NEW i \in 1 .. Len(stack'), stack'[i] \in leaving'
                 PROVE  FALSE
    BY <1>2 DEF Range
  <2>2. CASE i \in 1 .. n
    <3>1. stack[i] \notin leaving
      BY <1>1, <1>2, <1>5, <2>2 DEF Range
    <3>2. PICK j \in n + 1 .. Len(stack) : stack[i] = stack[j]
      BY <1>5, <2>1, <2>2, <3>1 DEF Moves
    <3>3. i = j
      BY <1>1, <1>2, <1>5, <2>2, <3>2 DEF IsInjective
    <3>4. QED
      BY <1>2, <2>2, <3>2, <3>3
  <2>3. CASE stack'[i].id = made + 1
    <3>1. stack'[i] \notin leaving
      BY <1>1, <1>7, <2>3
    <3>2. PICK j \in n + 1 .. Len(stack) : stack'[i] = stack[j]
      BY <2>1, <3>1 DEF Moves
    <3>3. j \in 1 .. Len(stack)
      BY <1>2, <3>2
    <3>4. QED
      BY <1>1, <1>6, <2>3, <3>2, <3>3
  <2>4. QED
    BY <1>8, <2>2, <2>3
<1>11. QED
  BY <1>1, <1>3, <1>4, <1>9, <1>10

(* Every step keeps the types.                                             *)
LEMMA TypeStep ==
  ASSUME AppInv, [Next]_vars
  PROVE  TypeOK' /\ covered' \subseteq Routes'
<1>1. PICK n \in 0 .. Len(stack) : Moves(n)
  BY EveryStepMoves
<1>2. /\ stack' \in Seq(Routes') /\ leaving' \subseteq Routes'
      /\ Routes \subseteq Routes' /\ made' \in 1 .. MaxRoutes
      /\ IsInjective(stack') /\ Range(stack') \cap leaving' = {}
  BY <1>1, StackStep
<1>3. nexts' \in 0 .. MaxCalls
  <2>1. nexts \in 0 .. MaxCalls /\ MaxCalls \in Nat
    BY RoutesAssumption DEF AppInv, TypeOK
  <2>2. CASE nexts' = nexts + 1 /\ nexts < MaxCalls
    BY <2>1, <2>2
  <2>3. CASE nexts' = nexts - 1 /\ nexts > 0
    BY <2>1, <2>3
  <2>4. CASE UNCHANGED nexts
    BY <2>1, <2>4
  <2>5. QED
    BY <2>2, <2>3, <2>4
       DEF Next, NextTap, NextLands, NextLost, Play, HelpTap, Continue, Back,
       Quit, Begin, HelpLands, HelpLost, Drawer, Dispose, GameOver, vars
<1>4. helps' \in [1 .. MaxRoutes -> 0 .. MaxCalls]
  <2>1. helps \in [1 .. MaxRoutes -> 0 .. MaxCalls] /\ MaxCalls \in Nat
    BY RoutesAssumption DEF AppInv, TypeOK
  <2>2. CASE HelpTap
    <3>1. \A c \in 0 .. MaxCalls : c < MaxCalls => c + 1 \in 0 .. MaxCalls
      BY <2>1
    <3>2. Top.id \in 1 .. MaxRoutes => helps[Top.id] + 1 \in 0 .. MaxCalls
      BY <2>1, <2>2, <3>1 DEF HelpTap
    <3>3. QED
      BY <2>1, <2>2, <3>2 DEF HelpTap
  <2>3. ASSUME NEW h \in 1 .. MaxRoutes, helps[h] > 0,
               helps' = [helps EXCEPT ![h] = @ - 1]
        PROVE  helps' \in [1 .. MaxRoutes -> 0 .. MaxCalls]
    <3>1. \A c \in 0 .. MaxCalls : c > 0 => c - 1 \in 0 .. MaxCalls
      BY <2>1
    <3>2. helps[h] - 1 \in 0 .. MaxCalls
      BY <2>1, <2>3, <3>1
    <3>3. QED
      BY <2>1, <2>3, <3>2
  <2>4. CASE UNCHANGED helps
    BY <2>1, <2>4
  <2>5. QED
    BY <2>2, <2>3, <2>4
       DEF Next, NextTap, NextLands, NextLost, Play, Continue, Back, Quit,
       Begin, HelpLands, HelpLost, Drawer, Dispose, GameOver, vars
<1>5. game' \in [1 .. MaxRoutes -> {"none", "ready", "on", "over"}]
  BY DEF AppInv, TypeOK, Next, NextTap, NextLands, NextLost, Play, HelpTap,
     Continue, Back, Quit, Begin, HelpLands, HelpLost, Drawer, Dispose,
     GameOver, vars
<1>6. covered' \subseteq Routes'
  <2>1. Range(stack) \subseteq Routes
    BY LenProperties DEF AppInv, TypeOK, Range
  <2>2. QED
    BY <1>1, <1>2, <2>1 DEF Moves, AppInv, HistoryOK
<1>7. QED
  BY <1>2, <1>3, <1>4, <1>5, <1>6 DEF TypeOK

(* Every step leaves each press to the screen it was made on.              *)
LEMMA CallersStep ==
  ASSUME AppInv, [Next]_vars
  PROVE  CallersOK'
<1>1. PICK n \in 0 .. Len(stack) : Moves(n)
  BY EveryStepMoves
<1>2. /\ stack \in Seq(Routes) /\ made \in Nat /\ made >= 1
      /\ MaxRoutes \in Nat /\ made <= MaxRoutes
      /\ made' \in Nat /\ made <= made'
      /\ helps \in [1 .. MaxRoutes -> 0 .. MaxCalls]
      /\ nexts \in Nat /\ MaxCalls \in Nat
  BY <1>1, RoutesAssumption DEF AppInv, TypeOK, Moves
<1>3. /\ DOMAIN stack = 1 .. Len(stack) /\ Len(stack) \in Nat
      /\ DOMAIN stack' = 1 .. Len(stack') /\ Len(stack') \in Nat
      /\ n \in Nat /\ n <= Len(stack)
      /\ \A i \in 1 .. n : i \in 1 .. Len(stack) /\ stack'[i] = stack[i]
      /\ \A i \in 1 .. Len(stack') :
           \/ i \in 1 .. n
           \/ i = n + 1 /\ Len(stack') = n + 1 /\ stack'[i].id = made + 1
  BY <1>1, MovesByPlace
<1>4. \A i \in 1 .. Len(stack) :
        stack[i].id \in 1 .. MaxRoutes /\ stack[i].id <= made
  <2>1. \A r \in Routes : r.id \in 1 .. MaxRoutes /\ r.id <= made
    BY <1>2 DEF Routes
  <2>2. QED
    BY <1>2, <1>3, <2>1, LenProperties
<1>a. \A i, j \in 1 .. Len(stack) : stack[i].id = stack[j].id => i = j
  <2>1. \A i, j \in DOMAIN stack : stack[i].id = stack[j].id => i = j
    BY DEF AppInv, CallersOK
  <2>2. QED
    BY <1>3, <2>1
<1>5. \A i, j \in DOMAIN stack' : stack'[i].id = stack'[j].id => i = j
  <2>1. SUFFICES ASSUME NEW i \in 1 .. Len(stack'), NEW j \in 1 .. Len(stack'),
                        stack'[i].id = stack'[j].id
                 PROVE  i = j
    BY <1>3
  <2>2. ASSUME NEW a \in 1 .. n PROVE stack'[a].id # made + 1
    <3>1. a \in 1 .. Len(stack) /\ stack'[a] = stack[a]
      BY <1>3
    <3>2. stack'[a].id \in 1 .. MaxRoutes /\ stack'[a].id <= made
      BY <1>4, <3>1
    <3>3. QED
      BY <1>2, <3>2
  <2>3. CASE i \in 1 .. n /\ j \in 1 .. n
    <3>1. i \in 1 .. Len(stack) /\ stack'[i] = stack[i]
      BY <1>3, <2>3
    <3>2. j \in 1 .. Len(stack) /\ stack'[j] = stack[j]
      BY <1>3, <2>3
    <3>3. QED
      BY <1>a, <2>1, <3>1, <3>2
  <2>4. QED
    BY <1>3, <2>1, <2>2, <2>3
<1>6. Running => /\ Len(stack) \in DOMAIN stack /\ Top = stack[Len(stack)]
                 /\ Top.id \in 1 .. MaxRoutes /\ Top.id <= made
  <2>1. Top = stack[Len(stack)]
    BY DEF Top, Last
  <2>2. Running => Len(stack) \in 1 .. Len(stack)
    <3>1. Running => Len(stack) \in Nat \ {0}
      BY <1>2, FrontKeeps DEF Running
    <3>2. QED
      BY <3>1
  <2>3. Running => stack[Len(stack)].id \in 1 .. MaxRoutes
                   /\ stack[Len(stack)].id <= made
    BY <1>4, <2>2
  <2>4. Running => Len(stack) \in DOMAIN stack
    BY <1>3, <2>2
  <2>5. QED
    BY <2>1, <2>3, <2>4
<1>7. \A i \in 1 .. Len(stack) :
        helps'[stack[i].id] > 0 => stack[i].kind = "home"
  <2>1. CASE HelpTap
    <3>1. SUFFICES ASSUME NEW i \in 1 .. Len(stack), helps'[stack[i].id] > 0
                   PROVE  stack[i].kind = "home"
      OBVIOUS
    <3>2. CASE stack[i].id = Top.id
      <4>1. Running /\ Top.kind = "home"
        BY <2>1 DEF HelpTap
      <4>2. i = Len(stack)
        <5>1. Len(stack) \in 1 .. Len(stack)
          BY <1>3, <1>6, <4>1
        <5>2. QED
          BY <1>a, <1>6, <3>2, <4>1, <5>1
      <4>3. QED
        BY <1>6, <4>1, <4>2
    <3>3. CASE stack[i].id # Top.id
      BY <1>2, <1>3, <1>4, <1>6, <2>1, <3>1, <3>3
         DEF HelpTap, AppInv, CallersOK
    <3>4. QED
      BY <3>2, <3>3
  <2>2. ASSUME NEW h \in 1 .. MaxRoutes, helps[h] > 0,
               helps' = [helps EXCEPT ![h] = @ - 1]
        PROVE  \A i \in 1 .. Len(stack) :
                 helps'[stack[i].id] > 0 => stack[i].kind = "home"
    <3>1. \A c \in 1 .. MaxRoutes : helps'[c] > 0 => helps[c] > 0
      BY <1>2, <2>2
    <3>2. QED
      BY <1>3, <1>4, <3>1 DEF AppInv, CallersOK
  <2>3. CASE UNCHANGED helps
    BY <1>3, <2>3 DEF AppInv, CallersOK
  <2>4. QED
    BY <2>1, <2>2, <2>3
       DEF Next, NextTap, NextLands, NextLost, Play, Continue, Back, Quit,
       Begin, HelpLands, HelpLost, Drawer, Dispose, GameOver, vars
<1>8. \A i \in 1 .. MaxRoutes : i > made => helps'[i] = 0
  <2>1. CASE HelpTap
    BY <1>2, <1>6, <2>1 DEF HelpTap, AppInv, CallersOK
  <2>2. ASSUME NEW h \in 1 .. MaxRoutes, helps[h] > 0,
               helps' = [helps EXCEPT ![h] = @ - 1]
        PROVE  \A i \in 1 .. MaxRoutes : i > made => helps'[i] = 0
    BY <1>2, <2>2 DEF AppInv, CallersOK
  <2>3. CASE UNCHANGED helps
    BY <2>3 DEF AppInv, CallersOK
  <2>4. QED
    BY <2>1, <2>2, <2>3
       DEF Next, NextTap, NextLands, NextLost, Play, Continue, Back, Quit,
       Begin, HelpLands, HelpLost, Drawer, Dispose, GameOver, vars
<1>9. \A i \in 1 .. Len(stack) :
        nexts' > 0 /\ stack[i].id = 1 => stack[i].kind = "setup"
  <2>1. CASE NextTap
    <3>1. Len(stack) = 1 /\ stack[1].kind = "setup"
      BY <1>6, <2>1 DEF NextTap, AppInv, CallersOK
    <3>2. \A i \in 1 .. Len(stack) : i = 1
      BY <3>1
    <3>3. QED
      BY <3>1, <3>2
  <2>2. CASE nexts' = nexts - 1 /\ nexts > 0
    BY <1>3, <2>2 DEF AppInv, CallersOK
  <2>3. CASE UNCHANGED nexts
    BY <1>3, <2>3 DEF AppInv, CallersOK
  <2>4. QED
    BY <2>1, <2>2, <2>3
       DEF Next, NextLands, NextLost, Play, HelpTap, Continue, Back, Quit,
       Begin, HelpLands, HelpLost, Drawer, Dispose, GameOver, vars
<1>10. \A i \in 1 .. Len(stack') :
         /\ helps'[stack'[i].id] > 0 => stack'[i].kind = "home"
         /\ nexts' > 0 /\ stack'[i].id = 1 => stack'[i].kind = "setup"
         /\ stack'[i].kind = "setup" => i = 1 /\ stack'[i].id = 1
  <2>1. SUFFICES ASSUME NEW i \in 1 .. Len(stack')
                 PROVE  /\ helps'[stack'[i].id] > 0 => stack'[i].kind = "home"
                        /\ nexts' > 0 /\ stack'[i].id = 1
                             => stack'[i].kind = "setup"
                        /\ stack'[i].kind = "setup" => i = 1 /\ stack'[i].id = 1
    OBVIOUS
  <2>2. CASE i \in 1 .. n
    <3>1. i \in 1 .. Len(stack) /\ stack'[i] = stack[i]
      BY <1>3, <2>2
    <3>2. stack[i].kind = "setup" => i = 1 /\ stack[i].id = 1
      BY <1>3, <3>1 DEF AppInv, CallersOK
    <3>3. QED
      BY <1>7, <1>9, <3>1, <3>2
  <2>3. CASE i = n + 1 /\ Len(stack') = n + 1 /\ stack'[i].id = made + 1
    <3>1. stack'[i].id # 1
      BY <1>2, <2>3
    <3>2. helps'[stack'[i].id] = 0
      <4>1. Len(stack') # n
        BY <1>3, <2>3
      <4>2. made' = made + 1 /\ made' <= MaxRoutes
        BY <1>1, <4>1 DEF Moves
      <4>3. made + 1 \in 1 .. MaxRoutes /\ made + 1 > made
        BY <1>2, <4>2
      <4>4. QED
        BY <1>8, <2>3, <4>3
    <3>3. stack'[i].kind # "setup"
      <4>1. Len(stack') # n
        BY <1>3, <2>3
      <4>2. QED
        BY <1>1, <2>3, <4>1 DEF Moves
    <3>4. QED
      BY <3>1, <3>2, <3>3
  <2>4. QED
    BY <1>3, <2>2, <2>3
<1>11. \A i \in 1 .. MaxRoutes : i > made' => helps'[i] = 0
  BY <1>2, <1>8
<1>12. QED
  BY <1>3, <1>5, <1>10, <1>11 DEF CallersOK

(* Every step keeps a Quiz on its Home, and Homes below the top.           *)
LEMMA PlacesStep ==
  ASSUME AppInv, [Next]_vars
  PROVE  QuizOnHome' /\ HomesPileUp'
<1>1. PICK n \in 0 .. Len(stack) : Moves(n)
  BY EveryStepMoves
<1>2. stack \in Seq(Routes) /\ stack' \in Seq(Routes')
  BY <1>1 DEF AppInv, TypeOK, Moves
<1>3. /\ DOMAIN stack = 1 .. Len(stack) /\ Len(stack) \in Nat
      /\ DOMAIN stack' = 1 .. Len(stack') /\ Len(stack') \in Nat
  BY <1>2, LenProperties
<1>4. \A i \in 1 .. n : i \in 1 .. Len(stack) /\ stack'[i] = stack[i]
  BY <1>1, MovesByPlace
<1>5. /\ n \in Nat /\ n <= Len(stack)
      /\ Len(stack') = n \/ Len(stack') = n + 1
      /\ \A i \in 1 .. Len(stack') :
           i \in 1 .. n \/ (i = n + 1 /\ Len(stack') = n + 1)
  BY <1>1, MovesByPlace
<1>6. QuizOnHome'
  <2>1. SUFFICES ASSUME NEW i \in 1 .. Len(stack'), stack'[i].kind = "quiz"
                 PROVE  i > 1 /\ stack'[i - 1].kind = "home"
    BY <1>3 DEF QuizOnHome
  <2>2. CASE i \in 1 .. n
    <3>1. i > 1 /\ stack[i - 1].kind = "home"
      BY <1>3, <1>4, <2>1, <2>2 DEF AppInv, QuizOnHome
    <3>2. i - 1 \in 1 .. n
      BY <1>3, <2>2, <3>1
    <3>3. QED
      BY <1>4, <3>1, <3>2
  <2>3. CASE i = n + 1 /\ Len(stack') = n + 1
    <3>1. n > 0 /\ stack[n].kind = "home"
      BY <1>1, <1>3, <2>1, <2>3 DEF Moves
    <3>2. n \in 1 .. n /\ i - 1 = n /\ i > 1
      BY <1>3, <2>3, <3>1
    <3>3. QED
      BY <1>4, <3>1, <3>2
  <2>4. QED
    BY <1>5, <2>2, <2>3
<1>7. HomesPileUp'
  <2>1. SUFFICES ASSUME NEW i \in 1 .. Len(stack'), i # Len(stack')
                 PROVE  \/ stack'[i].kind = "home"
                        \/ i = 1 /\ stack'[i].kind = "setup"
                        \/ stack'[i] \in covered'
    BY <1>3 DEF HomesPileUp
  <2>2. i \in 1 .. n /\ i \in 1 .. Len(stack) /\ stack'[i] = stack[i]
    BY <1>4, <1>5, <2>1
  <2>3. CASE i # Len(stack)
    <3>1. covered \subseteq covered'
      BY <1>1 DEF Moves
    <3>2. QED
      BY <1>3, <2>2, <2>3, <3>1 DEF AppInv, HomesPileUp
  <2>4. CASE i = Len(stack)
    <3>1. n = Len(stack) /\ i = n /\ n > 0
      <4>1. n \in Nat /\ n <= Len(stack) /\ Len(stack) \in Nat
        BY <1>3, <1>5
      <4>2. i \in Nat /\ 1 <= i /\ i <= n
        BY <2>2, <4>1
      <4>3. QED
        BY <2>4, <4>1, <4>2
    <3>2. Len(stack') = n + 1 /\ Len(stack') # n
      BY <1>5, <2>1, <3>1
    <3>3. QED
      BY <1>1, <2>2, <3>1, <3>2 DEF Moves
  <2>5. QED
    BY <2>3, <2>4
<1>8. QED
  BY <1>6, <1>7

(* Every step keeps what is known of the results.                          *)
LEMMA ResultsStep ==
  ASSUME AppInv, [Next]_vars
  PROVE  HistoryOK' /\ StraysOnlyByRace'
<1>1. PICK n \in 0 .. Len(stack) : Moves(n)
  BY EveryStepMoves
<1>2. /\ Routes \subseteq Routes' /\ stack \in Seq(Routes)
      /\ leaving \subseteq Routes /\ covered \subseteq covered'
      /\ covered' \subseteq Routes'
  BY <1>1, StackStep, TypeStep DEF AppInv, TypeOK, Moves
<1> DEFINE Result == [of : Routes, took : Routes]
<1>3. results \in Seq(Result) /\ Result \subseteq Result'
  BY <1>2 DEF AppInv, HistoryOK
<1>4. results \in Seq(Result') /\ DOMAIN results = 1 .. Len(results)
      /\ Len(results) \in Nat
      /\ \A i \in 1 .. Len(results) : results[i] \in Result
  BY <1>3, SeqGrows, LenProperties
<1>5. \A i \in 1 .. Len(results) :
        \/ results[i].took = results[i].of \/ results[i].of \in covered'
        \/ results[i].of \notin Range(stack')
  <2>1. \A i \in 1 .. Len(results) : results[i].of \in Routes
    BY <1>4
  <2>2. QED
    BY <1>1, <1>2, <1>4, <2>1, GoneIsGone DEF AppInv, StraysOnlyByRace
<1>6. CASE UNCHANGED results
  BY <1>2, <1>4, <1>5, <1>6 DEF HistoryOK, StraysOnlyByRace
<1>7. ASSUME NEW q \in Mounted, GameOver(q)
      PROVE  HistoryOK' /\ StraysOnlyByRace'
  <2> DEFINE new == [of |-> q, took |-> Top]
  <2>1. q.kind = "quiz" /\ Running /\ results' = Append(results, new)
    BY <1>7 DEF GameOver
  <2>2. /\ DOMAIN stack = 1 .. Len(stack) /\ Len(stack) \in Nat \ {0}
        /\ stack \in [1 .. Len(stack) -> Routes]
    BY <1>2, <2>1, EmptySeq, LenProperties DEF Running
  <2>3. Top = stack[Len(stack)] /\ Top \in Routes
    BY <2>2 DEF Top, Last
  <2>4. q \in Routes
    BY <1>2, <2>2, <1>7 DEF Mounted, Range
  <2>5. new \in Result /\ new \in Result'
    BY <1>3, <2>3, <2>4
  <2>6. /\ results' \in Seq(Result') /\ Len(results') = Len(results) + 1
        /\ \A i \in 1 .. Len(results) : results'[i] = results[i]
        /\ results'[Len(results) + 1] = new
    BY <1>4, <2>1, <2>5, AppendProperties
  <2>7. DOMAIN results' = 1 .. Len(results) + 1
    BY <2>6, LenProperties
  <2>8. \A i \in 1 .. Len(results) + 1 :
          i \in 1 .. Len(results) \/ i = Len(results) + 1
    BY <1>4
  <2>9. HistoryOK'
    BY <1>2, <2>6 DEF HistoryOK
  <2>10. StraysOnlyByRace'
    <3>1. q = Top \/ q \in covered' \/ q \notin Range(stack')
      <4>1. CASE q \in leaving
        <5>1. q \notin Range(stack)
          BY <4>1 DEF AppInv, TypeOK
        <5>2. QED
          BY <1>1, <2>4, <5>1, GoneIsGone
      <4>2. CASE q \in Range(stack)
        <5>1. PICK i \in 1 .. Len(stack) : q = stack[i]
          BY <2>2, <4>2 DEF Range
        <5>2. i = Len(stack) \/ q \in covered
          BY <2>1, <2>2, <5>1 DEF AppInv, HomesPileUp
        <5>3. QED
          BY <1>2, <2>3, <5>1, <5>2
      <4>3. QED
        BY <1>7, <4>1, <4>2 DEF Mounted
    <3>2. \A i \in 1 .. Len(results) + 1 :
            \/ results'[i].took = results'[i].of \/ results'[i].of \in covered'
            \/ results'[i].of \notin Range(stack')
      BY <1>5, <2>6, <2>8, <3>1
    <3>3. QED
      BY <2>7, <3>2 DEF StraysOnlyByRace
  <2>11. QED
    BY <2>9, <2>10
<1>8. QED
  BY <1>6, <1>7
     DEF Next, NextTap, NextLands, NextLost, Play, HelpTap, Begin, Continue,
     Back, Quit, HelpLands, HelpLost, Drawer, Dispose, Ticking, vars

(* The app starts with one route, the set-up or Home.                      *)
LEMMA InitOK == Init => AppInv
<1> SUFFICES ASSUME Init PROVE AppInv
  OBVIOUS
<1>1. PICK k \in {"setup", "home"} : stack = <<[kind |-> k, id |-> 1]>>
  BY DEF Init
<1>2. /\ made = 1 /\ leaving = {} /\ results = << >> /\ covered = {}
      /\ nexts = 0 /\ helps = [i \in 1 .. MaxRoutes |-> 0]
      /\ game = [i \in 1 .. MaxRoutes |-> "none"]
      /\ MaxRoutes \in Nat \ {0} /\ MaxCalls \in Nat
  BY RoutesAssumption DEF Init
<1>3. [kind |-> k, id |-> 1] \in Routes
  BY <1>2 DEF Routes, Kinds
<1>4. /\ stack \in Seq(Routes) /\ Len(stack) = 1 /\ DOMAIN stack = 1 .. 1
      /\ stack[1] = [kind |-> k, id |-> 1]
  BY <1>1, <1>3
<1>5. \A i \in DOMAIN stack :
        i = 1 /\ i = Len(stack) /\ stack[i].kind # "quiz" /\ stack[i].id = 1
  BY <1>4
<1>6. TypeOK
  <2>1. IsInjective(stack) /\ Range(stack) \cap leaving = {}
    BY <1>2, <1>5 DEF IsInjective
  <2>2. QED
    BY <1>2, <1>4, <2>1 DEF TypeOK
<1>7. QuizOnHome /\ HomesPileUp
  BY <1>5 DEF QuizOnHome, HomesPileUp
<1>8. CallersOK
  <2>1. helps[1] = 0 /\ ~(nexts > 0)
    BY <1>2
  <2>2. \A i \in 1 .. MaxRoutes : helps[i] = 0
    BY <1>2
  <2>3. QED
    BY <1>5, <2>1, <2>2 DEF CallersOK
<1>9. DOMAIN results = {} /\ results \in Seq([of : Routes, took : Routes])
  BY <1>2, EmptySeq, LenProperties
<1>10. HistoryOK /\ StraysOnlyByRace
  BY <1>2, <1>9 DEF HistoryOK, StraysOnlyByRace
<1>11. QED
  BY <1>6, <1>7, <1>8, <1>10 DEF AppInv

-----------------------------------------------------------------------------
(* The theorems.                                                           *)

(* Whatever is pushed, replaced, popped or late, AppInv holds.             *)
THEOREM Invariant == Spec => []AppInv
<1>1. AppInv /\ [Next]_vars => AppInv'
  BY TypeStep, CallersStep, PlacesStep, ResultsStep DEF AppInv
<1>2. QED
  BY <1>1, InitOK, PTL DEF Spec

(* The stack holds routes that were made, none of them twice and none that *)
(* is also on its way out (drawer.dart, Quiz.dart:134, ThankYou.dart:80).  *)
THEOREM Types == Spec => []TypeOK
<1>1. AppInv => TypeOK
  BY DEF AppInv
<1>2. QED
  BY <1>1, Invariant, PTL

(* Below a Quiz there is always the Home that pushed it (home.dart:93).    *)
THEOREM BackLeadsHome == Spec => []QuizOnHome
<1>1. AppInv => QuizOnHome
  BY DEF AppInv
<1>2. QED
  BY <1>1, Invariant, PTL

(* Homes and the set-up are all that is left behind other screens, but for *)
(* a screen on which a press made elsewhere landed (ThankYou.dart:80,      *)
(* home.dart:118, imagedownload.dart:186).                                 *)
THEOREM OnlyHomesPileUp == Spec => []HomesPileUp
<1>1. AppInv => HomesPileUp
  BY DEF AppInv
<1>2. QED
  BY <1>1, Invariant, PTL

(* A result takes the place of its own Quiz unless that one was left, or a *)
(* press of Help or of Next had landed on it late (Quiz.dart:134,          *)
(* home.dart:121, imagedownload.dart:188).                                 *)
THEOREM StraysByRace == Spec => []StraysOnlyByRace
<1>1. AppInv => StraysOnlyByRace
  BY DEF AppInv
<1>2. QED
  BY <1>1, Invariant, PTL

=============================================================================
