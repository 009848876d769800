------------------------------ MODULE Launch ------------------------------
(***************************************************************************)
(* Which screen a launch of the app shows (lib/main.dart), from the        *)
(* preferences "number", "check" and "names" that earlier launches left.   *)
(* increment_counttimes() counts the launch while a splash screen runs for *)
(* four seconds; when that ends, nextScreen is the set-up on a first       *)
(* launch or while the set-up is unfinished, and Home otherwise. Home's    *)
(* Help button (lib/home.dart) forgets the count and wipes the list of     *)
(* images. The process may be killed at any point: what the platform has   *)
(* not stored by then is lost, everything in memory with it.               *)
(* The set-up screen itself is abstracted to what it stores: it rewrites   *)
(* "names" entry by entry and offers Next when the list is complete        *)
(* (module Download shows that part).                                      *)
(***************************************************************************)
EXTENDS Integers, Sequences

CONSTANT MaxLaunches       \* bound: launches in one behaviour

Null == -1                 \* an int that is null, or a key with no value

VARIABLES
  disk,      \* the preferences as stored
  pending,   \* set* calls on their way to the platform, in order
  cache,     \* the SharedPreferences instance
  loaded,    \* getInstance() has completed in this process
  screen,    \* "off", "splash", "setup" or "home"
  pc,        \* where increment_counttimes() is
  currentnumber, count, check,
  nextPc,    \* where the Next handler of the set-up screen is
  fresh,     \* the set-up of this process has listed every image
  helpPc,    \* where the Help handler of Home is
  launches,  \* history: processes started
  torn,      \* history: a first launch died between its two writes
  raced,     \* history: the splash ended before increment_counttimes()
  helped     \* history: Help was used in this process

prefs == <<disk, pending, cache, loaded>>
incr  == <<pc, currentnumber, count, check>>
hist  == <<launches, torn, raced, helped>>
vars  == <<prefs, incr, screen, nextPc, fresh, helpPc, hist>>

On == screen # "off"

(* prefs.setInt / setString: the instance changes at once, the platform    *)
(* later; `by` names the handler that awaits the answer.                   *)
Set(k, v, by) ==
  /\ cache' = [cache EXCEPT ![k] = v]
  /\ pending' = Append(pending, [key |-> k, val |-> v, by |-> by])

Answered(by) == \A i \in DOMAIN pending : pending[i].by # by

(* get_counttimes(): a count that was never stored is 0.                   *)
LastNumber == IF cache.number = Null THEN 0 ELSE cache.number

FirstNever == FALSE
FirstLaunch == currentnumber = 1

Init ==
  /\ disk = [number |-> Null, check |-> Null, names |-> "none"]
  /\ pending = << >> /\ cache = disk /\ loaded = FALSE
  /\ screen = "off" /\ pc = "done"
  /\ currentnumber = 0 /\ count = Null /\ check = Null
  /\ nextPc = "idle" /\ fresh = FALSE /\ helpPc = "idle"
  /\ launches = 0 /\ torn = FALSE /\ raced = FALSE /\ helped = FALSE

(* main() and initState(): increment_counttimes() runs up to its first     *)
(* await.                                                                  *)
Boot ==
  /\ ~On /\ launches < MaxLaunches
  /\ launches' = launches + 1
  /\ screen' = "splash" /\ pc' = "getInstance" /\ loaded' = FALSE
  /\ currentnumber' = 0 /\ count' = Null /\ check' = Null
  /\ nextPc' = "idle" /\ fresh' = FALSE /\ helpPc' = "idle"
  /\ raced' = FALSE /\ helped' = FALSE
  /\ UNCHANGED <<disk, pending, cache, torn>>

(* SharedPreferences.getInstance() reads the stored values.                *)
GetInstance ==
  /\ On /\ ~loaded
  /\ loaded' = TRUE
  /\ cache' = disk
  /\ UNCHANGED <<disk, pending, incr, screen, nextPc, fresh, helpPc, hist>>

(* The platform stores the oldest value it was sent.                       *)
Commit ==
  /\ On /\ pending # << >>
  /\ disk' = [disk EXCEPT ![Head(pending).key] = Head(pending).val]
  /\ pending' = Tail(pending)
  /\ UNCHANGED <<cache, loaded, incr, screen, nextPc, fresh, helpPc, hist>>

(* The process dies: swiped away, killed by the system, or exit(0).        *)
Kill ==
  /\ On
  /\ screen' = "off"
  /\ pending' = << >>
  /\ torn' = (torn \/ (/\ pc \in {"number", "check"} /\ FirstLaunch
                       /\ disk.number = 1 /\ disk.check # 0))
  /\ UNCHANGED <<disk, cache, loaded, incr, nextPc, fresh, helpPc, launches,
                 raced, helped>>

-----------------------------------------------------------------------------
(* increment_counttimes()                                                  *)

(* get_counttimes(), then setInt("number", lastnumber + 1).                *)
IncrNumber ==
  /\ On /\ pc = "getInstance" /\ loaded
  /\ currentnumber' = LastNumber + 1
  /\ Set("number", LastNumber + 1, "incr")
  /\ pc' = "number"
  /\ UNCHANGED <<disk, loaded, count, check, screen, nextPc, fresh, helpPc,
                 hist>>

(* The first setState; a first launch also resets "check", any other reads *)
(* it at once.                                                             *)
IncrCount ==
  /\ On /\ pc = "number" /\ Answered("incr")
  /\ count' = currentnumber
  /\ \/ /\ FirstLaunch
        /\ Set("check", 0, "incr")
        /\ pc' = "check"
        /\ UNCHANGED check
     \/ /\ ~FirstLaunch
        /\ check' = cache.check
        /\ pc' = "done"
        /\ UNCHANGED <<cache, pending>>
  /\ UNCHANGED <<disk, loaded, currentnumber, screen, nextPc, fresh, helpPc,
                 hist>>

(* The second setState of a first launch.                                  *)
IncrCheck ==
  /\ On /\ pc = "check" /\ Answered("incr")
  /\ check' = cache.check
  /\ pc' = "done"
  /\ torn' = FALSE
  /\ UNCHANGED <<prefs, currentnumber, count, screen, nextPc, fresh, helpPc,
                 launches, raced, helped>>

(* nextScreen as last built; null == 0 and null == 1 are false.            *)
NextScreenIgnoringCheck == IF count = 1 THEN "setup" ELSE "home"
NextScreen == IF check = 0 \/ count = 1 THEN "setup" ELSE "home"

(* The splash screen is over, whether increment_counttimes() is or not.    *)
Splash ==
  /\ screen = "splash"
  /\ screen' = NextScreen
  /\ raced' = (pc # "done" /\ count # 1)
  /\ UNCHANGED <<prefs, incr, nextPc, fresh, helpPc, launches, torn, helped>>

-----------------------------------------------------------------------------
(* The set-up screen.                                                      *)

(* One more entry of the archive is listed in "names"; the last one makes  *)
(* the list complete.                                                      *)
SetupList ==
  /\ screen = "setup" /\ loaded /\ Answered("setup") /\ ~fresh
  /\ \E last \in BOOLEAN :
       /\ Set("names", IF last THEN "list" ELSE "part", "setup")
       /\ fresh' = last
  /\ UNCHANGED <<disk, loaded, incr, screen, nextPc, helpPc, hist>>

(* Next, shown when the download is over: setInt("check", 1), awaited.     *)
NextTap ==
  /\ screen = "setup" /\ fresh /\ Answered("setup") /\ nextPc = "idle"
  /\ Set("check", 1, "next")
  /\ nextPc' = "check"
  /\ UNCHANGED <<disk, loaded, incr, screen, fresh, helpPc, hist>>

NextDone ==
  /\ screen = "setup" /\ nextPc = "check" /\ Answered("next")
  /\ nextPc' = "idle"
  /\ screen' = "home"
  /\ UNCHANGED <<prefs, incr, fresh, helpPc, hist>>

(* Home was pushed over the set-up screen: Back returns to its Next.       *)
BackToSetup ==
  /\ screen = "home" /\ fresh
  /\ screen' = "setup"
  /\ UNCHANGED <<prefs, incr, nextPc, fresh, helpPc, hist>>

-----------------------------------------------------------------------------
(* Home's Help button.                                                     *)

HelpTap ==
  /\ screen = "home" /\ helpPc = "idle"
  /\ helpPc' = "getInstance"
  /\ UNCHANGED <<prefs, incr, screen, nextPc, fresh, hist>>

HelpNumber ==
  /\ On /\ helpPc = "getInstance" /\ loaded
  /\ Set("number", 0, "help")
  /\ helpPc' = "number"
  /\ helped' = TRUE
  /\ UNCHANGED <<disk, loaded, incr, screen, nextPc, fresh, launches, torn,
                 raced>>

(* "names" is emptied without waiting for the answer.                      *)
HelpNames ==
  /\ On /\ helpPc = "number" /\ Answered("help")
  /\ Set("names", "none", "none")
  /\ helpPc' = "idle"
  /\ UNCHANGED <<disk, loaded, incr, screen, nextPc, fresh, hist>>

Next ==
  \/ Boot \/ GetInstance \/ Commit \/ Kill
  \/ IncrNumber \/ IncrCount \/ IncrCheck \/ Splash
  \/ SetupList \/ NextTap \/ NextDone \/ BackToSetup
  \/ HelpTap \/ HelpNumber \/ HelpNames

Spec == Init /\ [][Next]_vars

-----------------------------------------------------------------------------
(* Properties.                                                             *)

(* What main.dart:133 relies on: stored preferences that send the next     *)
(* launch to Home come with a complete list of images, whenever the        *)
(* process dies, unless it died between the two writes of a first launch   *)
(* (main.dart:52 and 62).                                                  *)
StoredHomeHasImages ==
  (disk.number >= 1 /\ disk.check # 0 /\ ~On) =>
    (disk.names = "list" \/ torn)

(* Home is shown without a complete list of images only after a torn first *)
(* launch, where the splash outran the preferences, or after Help.         *)
HomeHasImages ==
  (screen = "home" /\ loaded) =>
    (cache.names = "list" \/ torn \/ raced \/ helped)

-----------------------------------------------------------------------------
(* The inductive invariant behind the properties.                          *)

Names == {"none", "part", "list"}
Number == Nat \cup {Null}
Prefs == [number : Number, check : Number, names : Names]
Write == [key : {"number", "check", "names"}, val : Number \cup Names,
          by : {"incr", "setup", "next", "help", "none"}]

(* Each variable has its type, and each write the type of its key.         *)
TypeOK ==
  /\ disk \in Prefs /\ cache \in Prefs /\ pending \in Seq(Write)
  /\ \A i \in DOMAIN pending :
       IF pending[i].key = "names" THEN pending[i].val \in Names
                                   ELSE pending[i].val \in Number
  /\ screen \in {"off", "splash", "setup", "home"}
  /\ pc \in {"getInstance", "number", "check", "done"}
  /\ currentnumber \in Int /\ count \in Int /\ check \in Int
  /\ nextPc \in {"idle", "check"}
  /\ helpPc \in {"idle", "getInstance", "number"}
  /\ launches \in Nat
  /\ loaded \in BOOLEAN /\ fresh \in BOOLEAN
  /\ torn \in BOOLEAN /\ raced \in BOOLEAN /\ helped \in BOOLEAN

(* Where increment_counttimes() is, and what the fields it sets hold.      *)
Counting ==
  On =>
    /\ ~loaded => pc = "getInstance" /\ pending = << >> /\ helpPc # "number"
    /\ pc \in {"getInstance", "number"} => count = Null /\ check = Null
    /\ pc \in {"check", "done"} => count = currentnumber
    /\ pc = "check" => FirstLaunch
    /\ pc # "getInstance" => currentnumber >= 1
    /\ pc # "getInstance" /\ ~helped => cache.number = currentnumber

(* How a screen was come by: the set-up with "check" at 0 until its list   *)
(* is complete, Home from a complete set-up or from the splash screen.     *)
Screens ==
  On =>
    /\ screen = "setup" \/ fresh => count = 1 \/ check = 0
    /\ ~fresh /\ (count = 1 \/ check = 0) => cache.check = 0
    /\ ~fresh /\ pc = "done" => cache.check = check
    /\ fresh => cache.names = "list" \/ (helped /\ cache.number = 0)
    /\ fresh => screen # "splash"
    /\ nextPc = "check" => fresh
    /\ ~fresh /\ screen # "home" => helpPc = "idle" /\ ~helped
    /\ screen = "home" => fresh \/ raced \/ (pc = "done" /\ check # 0)

(* Help has wiped the count before it wipes the list; increment_counttimes *)
(* may have counted a first launch in between.                             *)
HelpWipes ==
  On /\ helpPc = "number" =>
    /\ helped
    /\ \/ cache.number = 0
       \/ /\ FirstLaunch /\ cache.number = 1 /\ ~fresh
          /\ pc = "number" \/ (pc # "getInstance" /\ cache.check = 0)

(* S[i] is what is stored once i of the writes under way have arrived.     *)
StoredAfter(S) ==
  /\ S \in [0 .. Len(pending) -> Prefs]
  /\ S[0] = disk
  /\ \A i \in 1 .. Len(pending) :
       S[i] = [S[i - 1] EXCEPT ![pending[i].key] = pending[i].val]
  /\ On /\ loaded => S[Len(pending)] = cache

(* Preferences that do not send the next launch to Home without a list.    *)
Complete(p) == p.number >= 1 /\ p.check # 0 => p.names = "list"

(* A first launch was torn, or would be if it died now.                    *)
Excused(p) ==
  torn \/ (On /\ pc \in {"number", "check"} /\ FirstLaunch /\ p.number = 1)

(* Wherever the process dies, what is stored is complete or excused; and   *)
(* complete once "check" of a first launch has arrived.                    *)
Durable(S) ==
  \A i \in 0 .. Len(pending) :
    /\ Complete(S[i]) \/ Excused(S[i])
    /\ (/\ On /\ pc = "check"
        /\ \A j \in i + 1 .. Len(pending) : pending[j].by # "incr")
         => Complete(S[i])

LaunchInv ==
  /\ TypeOK /\ Counting /\ Screens /\ HelpWipes
  /\ ~On => pending = << >>
  /\ \E S : StoredAfter(S) /\ Durable(S)

=============================================================================
