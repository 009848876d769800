# Verification of the logo quiz app

TLA+ models of the Flutter app in `src/lib/` and of the vendored C and C++
libraries its iOS build keeps data with, TLC configurations that check them on
small instances, and TLAPS proofs about most of what they promise.

## 1. The system

The app shows logos one after another; the player taps letter tiles until the
name is complete or the time is up. The program's own code is about 1600 lines
of Dart. The rest of the repository is the Flutter template for Android and
iOS, build output, and third-party pods under `ios/Pods`. Of the pods two
carry logic in source form that the app depends on and that is hard to test:
LevelDB, the store under Firebase's database, and nanopb, which decodes what
Google's upload server answers. **They are vendored code, not the project's
own**; they are modelled as the copies at this commit are written, and the
findings about them concern those copies.

The Dart code runs on one isolate. A handler is atomic between its `await`s;
what makes the app hard to test is what comes in between.

| Component | State | Operations | Meets the others by |
|---|---|---|---|
| Quiz screen (`Quiz.dart`) | drawn indices `repeat`, `loop_count`, `count`, `end`, the answer `correct`, the letters found `text`, the tiles `r1 r2 r3`, `timeinmin`, `percent`, `_timer`, `start`, `_visible`, `obt_score`, `total_score`, `images` | Start/Next button, tiles of three rows, `getIm()`, `getstart()`, `task()`, the Timer's callback, Done button | pushed by Home, left by Back or the drawer, replaced by `/thanks`; reads `"names"` |
| Names of the logos (`Quiz.dart:168-185`) | none | from the path of an image to the letters of its name | paths are what the set-up listed |
| Launch (`main.dart`) | `count`, `check`; the preferences `"number"`, `"check"` | `increment_counttimes()`, the splash screen, `nextScreen` | chooses set-up or Home |
| Set-up (`imagedownload.dart`) | `data`, `_zipPath`, `_dir`, `clicked`, `c_vis`, `_downloading`, `images`; the preference `"names"`, the files | Continue, `retrieveurl()`, `_downloadZip()`, `unarchiveAndSave()`, Next | writes `"names"` and `"check"`, pushes Home |
| Navigation (`Navigator`) | the stack of routes | push, `pushReplacementNamed`, Back, Quit | every screen |
| Home (`home.dart`) | none | Play, Help, Quit | Help resets `"number"` and wipes `"names"` |
| Drawer (`drawer.dart`) | none | Home, Help, About, Share, Quit | `pushReplacementNamed` |
| Result (`ThankYou.dart`, `Score.dart`) | the `Score` it was given | verdict, ring, button back to Home | `/thanks` |
| Help, About, app bar | none | static text | |
| LevelDB, writes and recovery (`db_impl.cc`) | memtables, log, queue of writers, pending outputs, background state | `Write`, `MakeRoomForWrite`, flush, compaction, `Open`, close | one mutex, one background thread, the files |
| LevelDB, levels (`version_set.cc`) | tables of each level, compaction pointers, snapshots | `Get`, picking, running and installing compactions, `CompactRange` | runs on the background thread |
| LevelDB, log and table formats | none of their own | writing and reading records, blocks, index and filter | files |
| LevelDB, iterators, skip list, cache | position and direction; links; entries with counts | seeks and moves; insert beside readers; insert, look up, release, erase | memtable and tables |
| LevelDB, environment and repair (`env_posix.cc`, `repair.cc`) | limits, lock, work queue, file buffer; the files found | opening, locking, scheduling, appending; converting and rebuilding | files, other processes |
| nanopb (`pb_decode.c`) | the struct and the blocks it owns | decoding fields, releasing | bytes from the network |

### What is hard here

- *Stale frames.* A press acts on the widgets of the last built frame while the
  handler reads the current fields, so Start may be pressed twice.
- *State used after an await.* `getIm()` empties `images`, waits, and resumes
  into a game that another press may have begun, or on a disposed screen.
- *Timers nobody cancels on dispose.* There is no `dispose()`; a tick arrives
  while the route is leaving, covered, or gone.
- *A handler that stops half way.* `task()` throws on a path without a file
  name of four characters, and on a name longer than the rack, after some of
  its assignments.
- *A loop without an end.* `while (repeat.contains(pic_count))` does not end
  once every index is drawn; the game relies on a count to stop before that.
- *Requests that do not wait for each other.* Continue asks for the address of
  the archive and for the archive at the same time.
- *A process killed between two writes.* Launch and set-up store several
  preferences one after another.
- *A deadline that races the loading.* The splash lasts four seconds; the
  preferences may need longer.
- *Replacing whatever is on top.* `pushReplacementNamed` in a tick or in the
  drawer names no route, and Next and Help push after two awaits; the one on top
  may be another by then.
- *Work on an old version.* A LevelDB compaction picks its inputs under the
  mutex, works without it, and installs its outputs on what is current then.
- *Crashes between any two changes of the disk*, in recovery and repair too,
  and calls of the file system that fail half way.
- *Readers without a lock*, counters that are changed in two steps, a signal
  that comes before the wait, a lock that the kernel gives per process.
- *Answers in any order and cut anywhere* (nanopb).

`PROJECT.json` lists these at their lines with the properties aimed at them.

## 2. The modules

| Module | Models | Uses |
|---|---|---|
| `Quiz` | one Quiz screen from push to dispose, and its refinement of `Game` | `Game` |
| `Game` | what a game promises: the abstract specification | |
| `LogoName` | the conversion from a path to a title | |
| `LogoPaths` | that conversion over every path of some characters and length | `LogoName` |
| `MCQuiz` | instances of `Quiz`, their titles made from paths by `LogoName` | `Quiz`, `LogoName` |
| `Launch` | launches of the process, the preferences, which screen is shown | |
| `Download` | the set-up screen | |
| `App` | the stack of routes, with the ends of games | |
| `VersionSet` | LevelDB's levels, compactions, reads | |
| `DBImpl` | LevelDB's writes, files, crashes and recovery | |
| `LogFormat` | LevelDB's logs and descriptors | |
| `Table` | LevelDB's table files | |
| `DBIter` | LevelDB's iterators, three layers of them | |
| `SkipList` | LevelDB's memtable under concurrent readers | |
| `LRUCache` | LevelDB's cache | |
| `PosixEnv` | what LevelDB's threads share in its environment | |
| `Repair` | `RepairDB` | |
| `Nanopb` | decoding of a `LogResponse` | |
| `MCParts` | instances of the parts that share no state | all of those but `Quiz`, `Download`, `App`, `VersionSet`, `DBImpl` |
| `QuizProofs`, `LaunchProofs`, `DownloadProofs`, `AppProofs`, `VersionSetProofs` | theorems about one module each | that module |
| `PartsProofs` | theorems about `SkipList`, `Repair`, `Nanopb`, `LogoPaths`, `PosixEnv` and `LRUCache`, one section each | those |
| `DBImplProofs` | theorems about `DBImpl`: the writers and the background thread; tables, descriptors, opening again | `DBImpl` |
| `DBDurableProofs` | theorems about `DBImpl`: log files, that no write is lost, and that no sequence number is used twice | `DBImplProofs` |

### Quiz

The variables keep the names of the fields. Those grouped in `logo` are
assigned by `task()`, `clock` by `getstart()`, `score` by the button and the
tiles, `loads` by `getIm()`. `route` and `hung` stand for what is around the
State object: the frame last built, where the route is in its life, whether
Home's Help handler is still waiting, the scores handed to `/thanks`, and
whether the isolate is inside the endless loop. `elapsed` and `presses` are
history variables.

- `Task(n, p)` is `task()` when the loop finds the unused index `p`. Its
  disjuncts are a new logo, a logo on which it throws, and the end of the game.
  `TaskLoops(n)` is the call that does not return. Filler letters and the
  shuffle are one choice from `Racks`: every rack with the title's letters in
  it and nothing else in excess but filler.
- `PressStart`, `PressNext`: the button's handler before its await, and
  without one. `GetImDone`, `GetImAfterDispose`, `GetImFails`: what follows the
  await. `Idle` says that a resumed await runs before any other callback.
- `TapLetter(c)`, `TapWin(c)`: `onTap` of the tile in cell `c`. The first row
  compares `correct` and `text` after every tap, the other two after a hit
  only (`Wins`).
- `CountDown`, `TimeOut`, `TimeOutThrows`, `TimeOutHangs`, `TickAfterDispose`:
  the Timer's callback. The second `setState`, with the hand-over of the score,
  is `FinishTick`, part of the same step.
- `Leave`, `Dispose`, `HelpLands`, `Uncover`: the route.

The Done button has no action: it needs `_visible`, which is false from the
first `task()` on (`NoButtonInGame`, proved).

`Game` says the same in five variables: logos are drawn one by one without
repetition, a point costs a draw, one score is handed over, and only when all
are drawn; it may stall, which `NoHang` then excludes. `Abstract` maps `repeat`,
`obt_score`, `end`, `thanks` and `hung` to them.

Paths are abstracted to `Title` and `Malformed`, which `MCQuiz` computes from
actual paths. `percent` is kept in millionths; `3.3333/100` of a second's share
is exact there.

### LogoName

A path is a sequence of characters. The operators follow the code: reverse,
`indexOf`, `substring` with its range check, reverse, stop at `-`, upper-case.
`LogoPaths` enumerates paths; its property compares the result with a
definition that does not reverse anything.

### Launch

`cache` is the `SharedPreferences` instance, `disk` what the platform has
stored, and `pending` what is on its way, in order. `pc`, `nextPc` and `helpPc`
say at which await `increment_counttimes()`, the Next handler and the Help
handler are. `Kill` may happen in every state and loses all but `disk`. The
set-up screen is abstracted to what it stores.

### Download

`pc[d]` says at which await the `_downloadZip()` of the `d`-th press is and
`at[d]` which entry it has reached. `images` is shared by all of them, as in
the code. `Restart` is a kill followed by a launch that shows the set-up again.
With `Faults` true each request, decoding and write may fail.

### App

A route has a kind and a number. `stack` is the Navigator's, `leaving` the
routes that are off it and still mounted, `game` how far each Quiz is. `nexts`
and `helps` count the presses of the set-up's Next (`imagedownload.dart:185`)
and of each Home's Help (`home.dart:114`) that are at their awaits: nothing
keeps a player from pressing again or going elsewhere meanwhile, so `NextTap`
and `HelpTap` are steps of their own and `NextLands` and `HelpLands` push on
whatever is on top by then (`Lands`). A press whose screen is gone may be lost
(`NextLost`, `HelpLost`) or land all the same. Two history variables: a result
records the route it belongs to and the one it took the place of, and `covered`
the routes on which a press made elsewhere landed. What a Quiz does in between,
and that its timer hands one score over, is left to `Quiz`; that a game ever
ends is not assumed.

### VersionSet and DBImpl

Two views of the same database. `VersionSet` has the contents: entries with
their sequence numbers, the tables of each level, which of them a compaction
takes (size, seeks, manual range, the expansion of inputs, boundary files,
trivial moves, splitting of outputs at grandparents), what it drops, and what
`Get` then finds. `Pick` runs under the mutex and `Finish` installs; writes,
switches of the memtable, snapshots and `Flush` come between, as in
`DoCompactionWork`. `DBImpl` has the files: each change of the disk is a step,
`Crash` may come between any two and, for a crash of the machine, loses what
is not synced; each call may fail. Which tables a compaction takes is open
there. In both a value is named by the write that made it. `VersionSet` has two
history variables for what the code does wrong: `below`, a memtable that went
below level 0 beside a compaction, and `revived`, a deletion that was dropped
while an older entry of its key stayed on the level of the outputs; the two
findings of section 5 are about them.

Taken as given in `DBImpl`: names in the directory reach the disk in order, a
synced file keeps its name, a write is one entry, a recovered log becomes one
table, `reuse_logs` and `paranoid_checks` are off, and the level of a table is
0 or below.

An append that fails leaves part of a record or nothing. Either way the
log writer has counted it (`log_writer.cc:106`) while the file has dropped its
buffer (`env_posix.cc:319`), and is from then on `ahead` of the file: any later
record may cross a block of the reader's and be lost with all that follows
(`Astray`), written and synced though it is. `torn` is set by every failed append
to a log, `spoilt` by every record written to a descriptor behind a failed one.
A reader that finds its way again behind the damage is not modelled; the
properties say nothing of what is read there.

### LogFormat, Table, DBIter, SkipList, LRUCache

`LogFormat`: the fragment headers, the zero trailer of a block, and the reader
with resynchronisation and initial offset; the checksum tells every damaged
fragment. The status of the append of a trailer is ignored, as in the code.
With an initial offset above 0 the reader may report a fragment without a
start; the property says nothing of reports then. `Table`: prefix compression
with restart points, separators, filter stretches, both searches; a filter is
taken to match exactly its keys; compression of bytes, checksums, write errors,
`Abandon` and `ChangeOptions` are left out. `DBIter`: the two-level, merging
and user iterators with their directions, one turn of a loop per step.
`SkipList`: a step is a load or a store of a link; relaxed loads of the height
see any value it has had. `LRUCache`: one shard with its table of buckets, each
the set of its entries (their order in a chain only tells how long the search
takes). An operation is one step, except that `Insert` and `Prune` keep the
mutex over the turns of their loops (`evicting`), each of which is a step.

### PosixEnv, Repair, Nanopb

`PosixEnv` holds four objects that share nothing; a behaviour takes one. The
kernel's part of a lock is external: closing any descriptor of the file gives
up the lock of the process. Reads, directory operations and `fsync` (which
`DBImpl` has) are left out. `Repair`: a file is its number and the entries
readable from it; a kill of the process may come between any two changes of the
directory, and the repair is run again; unsynced copies are not modelled. That
the copy of a damaged table is finished after the source was moved to `lost`
loses what a kill leaves of the copy (`excused`). `Nanopb` decodes field by
field; the message, a submessage or an allocation may end or fail anywhere.

## 3. What the runs check

| Run | Instance | Shows |
|---|---|---|
| `quiz_play` | 4 well-formed images, one listed twice, 2 letters, 3 tiles, limit 2, up to 3 presses, fairness | seven invariants and `LogoTime`, below; `GameEnds`: a game begun hands its score over, or the player has left; `PlaysTheGame`: `Quiz` implements `Game` |
| `quiz_odd` | a good name, an empty one, a directory, one too long; limit 2, 2 presses | `IInv`, the inductive invariant, also when `task()` throws half way |
| `download` | 2 entries, one a directory; 4 presses, 1 restart, failures, fairness | Next is only offered on a complete set of files; an entry is listed twice only by two downloads; `SpinnerStops`, unless an exception ended the download |
| `app` | 5 routes, 2 presses of Next and of each Help at their awaits | `QuizOnHome`: a Quiz stands on the Home that pushed it; `HomesPileUp`: nothing but Homes is left below the top, unless something landed on it late; `StraysOnlyByRace`: a result takes another screen's place only if its Quiz was left or a late Help or Next landed on it |
| `versions` | 2 keys, 3 levels, 4 writes or deletions, 1 snapshot, 1 `CompactRange`, fairness | `TreeOrdered`, `ReadsAreHistory`, `CompactionSettles` |
| `database` | 2 writes, memtable of 1, 2 crashes, 2 faults, 1 iterator | `Durable`, `TablesThere`, `OpensAgain`, `FreshSequence`, `WaitersAreWoken` |
| `parts` | the instances in `MCParts` | one property per part, two for `Launch` |
| `quiz_hang` | a directory and an image, fairness | *violated*: section 5 |
| `download_stuck` | no failures, fairness | *violated*: section 5 |
| `versions_overlap` | 3 keys, 4 levels, 5 writes, 1 `CompactRange` | *violated*: section 5 |
| `versions_revive` | 2 keys, 3 levels, tables of two entries, 4 writes or deletions, 1 snapshot | *violated*: section 5 |
| `env_lock` | 2 processes of 2 threads | *violated*: section 5 |

The invariants of `quiz_play`: `OneTimer` (timers never pile up),
`AtMostOneThanks`, `ScoreBelowTotal`, `Solvable` (no order of taps takes the
last tile of a missing letter), `SolvedNeverLingers`, `NoHang`, `TypeOK`.
`LogoTime` is about steps: a logo nobody solves is taken away on the tick after
the one that brings the ring to 0, so on tick `TimeLimit + 1`, never sooner and
never later. That is a second more than `help.dart:42` says (section 5).

The properties of `parts`: `NamesSound` (the title is the file name without its
last four characters, up to the first `-`, and exactly the short names throw),
`StoredHomeHasImages` and `HomeHasImages`, `LogReadsBack` (whole records, in
order, never parts, whatever was cut or damaged), `TableReadsBack`,
`IteratorAgrees` (an iterator is where a reference definition says, or reports
an unreadable block), `ReadersSeeInserted`, `CacheSound`, `EnvSound`,
`RepairSound`, `DecodeSound`.

Several properties name the ways in which the code does not keep its promise,
and say that there is no other. `HomeHasImages`: a first launch that died
between its two writes (`main.dart:52` and `62`), a splash that outran the
preferences, and Help. `NoHang` and `NextMeansFiles`: three presses of Start on
one frame, or two downloads at once. `OpensAgain`: a first descriptor that was
never synced (`db_impl.cc:201`), and a compaction that goes on after the flush
inside it failed (`db_impl.cc:912`). `Durable`: once an append to a log has
failed, with or without a trace in the file, later writes to that log return OK
and may not be read back (`db_impl.cc:1215`). `StraysOnlyByRace` and
`HomesPileUp`: presses of Help and Next that land after their awaits.
`TreeOrdered`: the overlap
of section 5. `ReadsAreHistory`: that and the revival, also there.

### Bounds

- *Images.* Four let a game have a first logo, two in the middle and the
  ending draw, after a double press too. A duplicate title shows that indices,
  not names, are counted.
- *Letters and tiles.* `RowSize` is 1, so each of the three handlers has one
  tile; titles with a repeated letter and with letters on different rows occur.
  The proofs hold for every `RowSize`.
- *Time limit.* 2 suffices to tell the first, a middle and the last tick apart;
  the proofs hold for the real 30.
- *Presses.* Three presses of Start exceed the two `NoHang` allows; four of
  Continue let two downloads run at once (the first two only fill `data`).
- *Launches.* Four: one torn, one that skips the set-up, one after Help, one
  more.
- *Routes.* Five: a Home, a Quiz left and another played, its result, and a
  late Help; or the set-up, a Home, a Quiz, a second Home that lands on it and
  the result that takes that Home's place. Two presses at their awaits
  (`MaxCalls`) are what it takes for the second one to be late. That each game
  leaves one Home more on the stack (`ThankYou.dart:80`) is what the code does;
  `HomesPileUp` says that it leaves nothing else.
- *Levels.* Three levels with tables of one entry let a compaction have
  inputs on both of its levels and grandparents below, split its outputs, be
  moved without merging, and cut one key's versions across two tables; four
  writes on two keys fill two level-0 tables while a snapshot holds an old one.
- *Database.* Two crashes let the second hit the recovery from the first; two
  faults let a second call fail after the first was survived; two writes make
  a group, a full memtable and a wait.
- *Formats.* Blocks of five bytes with headers of two give records of one, two
  and three blocks and trailers of none and one byte; block sizes of 5 and 11
  against filter stretches of 8 put several blocks in one stretch and one
  block over several; keys include one that is the beginning of another and
  one of the greatest letter only.
- *Iterators, list, cache.* Two keys with three versions between a memtable and
  blocks of one or two entries; three keys on two levels; two keys in one
  bucket, before and after the table grows, and the capacity 0 that turns caching
  off.
- *Environment, repair, decoding.* Three threads for one mapping and one
  descriptor; four items of work; data smaller than, beyond, and twice the
  buffer. Two files, one failure, one kill, two repairs. Five fields, enough
  for a submessage that comes twice with an item each time.

`CHECK_DEADLOCK FALSE` is set where the system really may stop: a quiz that
was left, an isolate inside the endless loop, a set-up without buttons, an app
that was quit, a database that is closed or does not open, a bound that is
used up.

### Fairness

`Quiz!FairSpec`: a live periodic timer keeps firing, a completed await is
resumed, a route transition ends. These are served by the event loop, which
nothing in the code blocks except the endless loop, and that disables them.
`PrefsArrive` has no fairness: a game begun has its preferences.
`Download!FairSpec`: requests are answered, awaits resume, frames are built.
In neither does the player owe a press, a tap or a departure. `App` has no
fairness: whether a game ends is a matter of `Quiz`, where `quiz_hang` shows one
that does not.
`VersionSet!FairSpec`: the background thread, or the caller that waits for it
in `CompactRange`, moves while it has work; the condition variable and
`MaybeScheduleCompaction` see to that (`WaitersAreWoken` in `DBImpl`, `EnvSound`
in `PosixEnv`). Nobody owes a write or a flush of a memtable that is not full.

## 4. What is proved

Each theorem holds for every value of the constants that the assumptions named
with it allow: any number of images, presses, launches, routes, threads, writes,
files, fields, crashes and failing calls, and any limit.

| Module | Theorem | Property |
|---|---|---|
| `QuizProofs` | `TypeCorrect` | `TypeOK` |
| | `TimersNeverPileUp` | `OneTimer` |
| | `OneScoreHandedOver` | `AtMostOneThanks` |
| | `ButtonsStayHidden` | `NoButtonInGame` |
| | `PointsCostDraws`, `ScoreNeverFull` | `ScoreWithinDraws`, `ScoreBelowTotal` |
| | `AlwaysSolvable`, `SolvedIsReplaced` | `Solvable`, `SolvedNeverLingers` |
| | `LogoHasItsTime`, `RingNeverThrows` | `LogoTime`, `PercentInRange` |
| | `Invariant` | `IInv`, their conjunction with the strengthening |
| | `TaskReturns` | `NoHang` |
| | `ImplementsGame` | `PlaysTheGame`: `Quiz` implements `Game` |
| `LaunchProofs` | `StoredIsComplete`, `HomeIsComplete` | `StoredHomeHasImages`, `HomeHasImages` |
| `DownloadProofs` | `Types`, `NextIsReady`, `ListedOnce` | `TypeOK`, `NextMeansFiles`, `TwiceOnlyByTwo` |
| `AppProofs` | `Types`, `BackLeadsHome` | `TypeOK`, `QuizOnHome` |
| | `OnlyHomesPileUp`, `StraysByRace` | `HomesPileUp`, `StraysOnlyByRace` |
| `DBImplProofs` | `Invariant`, `WritersGoOn` | `WriteInv`, `WaitersAreWoken` |
| | `TablesInvariant` | `TableInv` |
| | `TablesStay`, `OpensEveryTime` | `TablesThere`, `OpensAgain` |
| `DBDurableProofs` | `DurableInvariant` | `FilesInv` and `DurableInv` |
| | `NothingIsLost` | `Durable` |
| | `SequenceInvariant`, `NumbersAreFresh` | `FreshInv`, `FreshSequence` |
| `PartsProofs` | `ListSound`, `ReadersMissNothing` | `ListInv`, `ReadersSeeInserted` |
| | `RepairInvariant`, `RepairLosesNothing` | `RepairInv`, `RepairSound` |
| | `DecodeInvariant`, `DecodingIsSound` | `PbInv`, `DecodeSound` |
| | `EnvInvariant`, `SharedSafely` | `EnvInv`, `EnvSound` |
| | `NamesAreRight` | `NamesSound` |
| | `CacheInvariant`, `CacheIsSound` | `CacheInv`, `CacheSound` |
| `VersionSetProofs` | `TreeInvariant`, `LevelsStayOrdered` | `TreeInv`, `TreeOrdered` |
| | `HistoryInvariant`, `ReadsSeeHistory` | `HistoryInv`, `ReadsAreHistory` |

`ScoreWithinDraws` and `PercentInRange` are parts of `IInv` and checked with it
by `quiz_odd`; `NoButtonInGame` follows from it. The inductive invariants of the
other modules are too large to be evaluated on every state of a run; each was
model-checked on the run's instance before it was proved.

The assumptions. `Quiz`: the list is not empty and has a title for each index
(`ImagesAssumption`; an archive without entries never stores a list), a blank
is no letter (`LettersAssumption`), and the limit is between 1 and 30
(`BoundsAssumption`; beyond 30 the percent would leave its range). `Download`:
the archive is not empty and the bounds are natural (`ArchiveAssumption`,
`RequestsAssumption`). `App`: there may be at least one
route, and the bound on presses is natural (`RoutesAssumption`). `PosixEnv`: finitely many threads, natural
limits and sizes, and a buffer (`EnvConstants`). `DBImpl`: limits above 0, and compactions
begin no later than writes stop (`LimitsAssumption`; 4 and 12 in
`db/dbformat.h`). `SkipList`: a height of at least 1 (`ListAssumption`).
`Repair`: the bounds on entries and first file numbers are natural
(`RepairAssumption`). `LogoPaths`: a slash, a dash and a dot are among the
characters, whatever else is, and the bound on paths is natural
(`CharAssumption`, `PathAssumption`). `VersionSet`: finitely many keys, at least
two levels, sizes above 0, and a level for memtables that exists
(`KeysAssumption`, `SizesAssumption`). `LRUCache`: keys (which stand for their
hashes), charges and capacities are natural and a table is not empty
(`CacheConstants`; 4 in the code). `Launch` and `Nanopb` have none.

### Quiz

`OneTimer` alone is not inductive: a press with `start = "Start"`
starts a timer and cancels none, so one must know that no timer runs before
the first game (`NotBegun`). `AtMostOneThanks` needs that after the hand-over
nothing can start a timer again: no await is left (`HandedOver`, by `Idle`), no
button is offered (`Begun` says it is hidden), no tile is left (`Over`).
Together they are `FlowInv`. `ScoreWithinDraws` counts: every point comes with
a call of `task()`, which draws an index or loops for ever; as at most
`NumImages` can be drawn, `ScoreBelowTotal` follows at the hand-over.
`AnswerInv` ties `text` to `correct` and the missing letters to the tiles: a
tap fills every place of its letter and takes one tile of that letter only.
`RingInv` ties `timeinmin` to the ticks the logo has had (`RingCountsTicks`); a
timeout, which needs `timeinmin = 0`, then comes after exactly `TimeLimit` of
them, and that is `LogoTime`.

`NoHang` needs counts (`HangInv`): a `getIm()` under way and the game once
begun took a press each; with well-formed titles the indices drawn are the
logos counted, and one more at the end. Once all are drawn, no callback that
would call `task()` again is left. The refinement of `Game` needs besides that
a logo counted was drawn before (`DrawnFirst`), malformed ones included; then
each action is a draw, a hand-over, a stall or a stutter.

### Launch, Download, App

`LaunchProofs`: a kill may leave on the disk what any number of the writes in
`pending` have made of it. The invariant has these states as a sequence `S`,
from `disk` to `cache`, and says of each of them what the property says of
`disk`. For that it knows where `increment_counttimes()` is (`Counting`), how
each screen was come by (`Screens`) and that Help wipes the count before the
list (`HelpWipes`).

`DownloadProofs`: while one download only has listed entries
(`SoleInOrder`) the list is the archive up to its entry, and the files before
it are there; `OfferedByEnd` says that Next is offered by a process with a
finished download. With two downloads neither helps, and the properties say so.

`AppProofs`: a push leaves the former top below it, so for `HomesPileUp` one must
know who pushes: Play from a Home, and the presses at their awaits, which land
on their own Home or set-up or on a route that is then `covered`. That a press
belongs to a Home, or to a set-up at the bottom, and that a number tells a route
from every other one is `CallersOK`. A Quiz on the stack that is neither on top
nor covered would contradict `HomesPileUp`, and so a result can only go astray
by the races `StraysOnlyByRace` names. What each replacement, push and pop does
to the stack is one lemma each.

### PosixEnv

What is left of a limit is what the threads with a file, or on the way to or
from one, have not taken (`Taken`); those about to give back what they could
not use may be beyond the limit for a moment, the others never. The items run
and those in the queue are the items scheduled, in order. Written and
buffered bytes are increasing and never beyond what was appended.

### DBImpl

`WriteInv`. Every writer stands once in the queue and only the first one is at
work; whoever returns wakes the next one. That a front writer waits for room
only while the background thread is scheduled needs three facts: the thread is
scheduled whenever there is work for it (`WakeInv`); a memtable to be flushed
is work, and so is a level 0 at which writes stop, because it is one at which
compactions begin; and the latter compares the cardinality of level 0 with two
limits, so versions must be finite, also those read back from a descriptor
(`DescriptorInv`).

`TableInv`. A crash may come at any moment and a power loss may leave any
part of a file beyond what was synced. So the invariant speaks of every
*reading* of the descriptor CURRENT names: its synced records and some of the
others, up to the first torn one. Each reading names only finished tables
(`OnDisk`). Deleting obsolete files keeps that because it happens only without
an error, where the descriptor is synced and its only reading is the new version.
Building tables keeps it because each has a number of its own: no reading,
version or iterator names it yet (`Unused`), as `nextFile` is above all of them.
And after a crash `nextFile` is again above them, because the records' next
numbers bound the tables of every reading. `ReopenInv` adds that a torn record
is the last one unless `spoilt`, which is what `Recover` needs to accept the
descriptor. A writer ahead of the descriptor could put a torn one before others;
`AheadInv` says that it is ahead only after an error, and that the descriptor
has no torn record as long as it is not.

`FilesInv` and `DurableInv`. A write that has to be there is in the memory (in
`Present`), and that is `Durable`; but a crash takes the memory away, so the
invariant says as well that the next recovery finds it (`FoundAgain`). A process
that dies leaves the whole descriptor and the logs from the number it names on
(`Found`); a power loss leaves some reading of the descriptor and of each log
at least what was synced, so a synced write must be found with *every* reading
and with the synced part of the logs alone (`FoundSynced`). All of it holds as
long as no append to a log has failed (`~torn`), when the log's writer is not
ahead either. Four facts carry that through the steps:

- An entry of the memtable is in the log in use (`InLog`), synced if its write
  asked for it. The group is logged before it is inserted (`GroupLogged`), and
  none that asks for a sync joins a front that does not (`GroupInv`).
- A new log takes no number of a log that is still to be read: numbers of logs
  are below `nextFile` or still to be replayed (`LogInv`).
- The edit of a flush has the entries of the memtable it replaces, names the log
  in use and takes no table away; that of a compaction has the entries of the
  tables it takes away and names no newer log (`EditInv`). So a reading with the
  edit finds what one without it finds; and the outputs of a compaction that a
  flush interrupts are not in any version yet (`OutputInv`).
- Files are deleted only after the descriptor that no longer names them is
  synced and has one reading. A failed append to the descriptor sets `bgError`,
  after which nothing is deleted, not even by a compaction under way that goes
  on to flush. `DescriptorHas` says that a descriptor without torn records has
  all tables of the version and names no older log than `minLog`.

A recovery turns the logs it finds into tables one at a time; until CURRENT names
the new descriptor, the old one and the logs are as they were.

`FreshInv`. A number given twice would make two entries that no read can tell
apart, possibly two crashes later, so the invariant speaks of everything that
any recovery may still read (`World`): the memtables, the tables of every reading
of the descriptor, and the logs that some reading still replays (`MayReplay`).
In all of it no two entries share a number (`Alike`). However much of the
descriptor is read, the last number it records bounds the entries of its tables
and only grows from record to record (`Described`). While the database is open
only the group that is in the log and not yet in the memtable (`Fleeting`) is
above `lastSeq`, and new numbers are taken above both.

### SkipList

`ListInv`. A node is on a level once the store of its predecessor's link there
has been released (`Linked`), which happens from the lowest level up. Each
level is in order and none of its links passes over a node of the level
(`InOrder`); the store of a link keeps that because the new node's own link was
written before and because `prev` is still its predecessor there
(`GoesBehind`). An iterator stands on a node of the level it reads and nodes
never leave a level, so a search that ends on level 0 has passed over nothing
inserted before it began (`ReaderInv`). Seeing an old `max_height_` only makes
it begin on a lower level.

### VersionSet

`TreeInv` is why the levels stay in order. Every level is a list of tables sorted
by smallest key, each table is sorted and not empty, no number is used twice
(`LevelInv`), and below level 0 two tables of a level lie one behind the other
(`ApartInv`). Between `Pick` and `Finish` one more fact is needed (`RunInv`):
each table that a compaction leaves on the level of its outputs is *beside*
everything it may put there. A flush keeps that because it goes to level 0 while
a compaction runs, unless `below`. On the way: each loop of the code has a
result; the binary search finds the first table that may have the key
(`FindFileIs`); the outputs of a merge are in order among themselves
(`MergedIs`).

`HistoryInv` is why a read sees the history. Reading stops at the first source
that has the key, so the sources must be in order of age (`NewerInv`): the
memtable, the one being flushed, the tables of level 0 by number, and each level
before the next. What a reader may ask for is stored, or it is a deletion of
which nothing older is left (`KeptInv`). The steps that could break these:

- A flush to a level below 0 is newer than what it passes, because it has no key
  in common with it.
- A compaction moves entries of one level below others of that level. What it
  leaves must be newer than what it takes (`WorkInv`), and that is what the
  loops choosing its inputs are for: on level 0 all tables that overlap, and
  what overlaps those, and so on; below, every table that continues the last
  user key. The proof shows that both loops reach their fixpoint in as many
  turns as the level has tables (`ClosureTight`, `BoundaryEnds`).
- A merge drops an entry only if a newer one not above the oldest snapshot hides
  it from every reader, or as an obsolete deletion, and then with all that is
  older of its key among the inputs (`MergeDrops`). Above and on its own level
  everything else is newer; from two levels below on there is nothing, on the
  version the compaction looks at and, as nothing changes there meanwhile, on
  the current one. On the level of the outputs the proof did not go through,
  and the reason is the revival of section 5: the theorem holds as long as no
  compaction has done that (`Revives`).

`ReadsSeeHistory` then follows with `NewestIsSearched`: below level 0 the one
table that the binary search returns is the one with the newest entry the reader
may see, even where the versions of one key are spread over several tables.

### Repair, Nanopb, LogoPaths, LRUCache

`RepairInv`: what a repair has in hand and what it will write next lose
no entry (`Kept`), no two files have one number (`OneOfEach`, `NumbersBelow`), and
the lists of what was found are of what is in the directory (`ListsOf`,
`InHand`). Outside a repair this is simply that the entries are in some file.

`PbInv`: after each field the struct has what the fields so far say (`Decoded`),
and owns one block exactly if it counts an item. A field that follows changes the
last value of its name, adds an item, or changes the last item.

`NamesAreRight` turns the path round twice, as the code does: the last slash of
the path is the first of the reversed one, the name is what stands before it
without the first four characters, and the loop over it stops at the first dash.

`CacheInv`: counts, lists and usage agree (`CountsOf`, `ListsOfCache`), and the
table has exactly the entries that are in the cache, one for a key, each in the
bucket of its key (`TableHas`). It is stated of a record of the shared state and
of an entry x (`Consistent`), because between the removal from the table and the
end of `FinishErase`, and between the insertion of an entry and the end of the
one it replaces, x is still counted but no longer found. The usage is the number
of units charged (`Units`), so that an entry more or less changes a cardinality.
That a table which grows keeps its entries needs that the loop of `Resize` ends
at a length above 0 (`LengthGrows`).

### What stays with TLC

- `GameEnds`, `SpinnerStops`, `CompactionSettles`: liveness under fairness is
  beyond this prover.
- `LogReadsBack`, `TableReadsBack`, `IteratorAgrees`: what the readers of a log
  and a table and the three layers of iterators compute for every input needs
  induction over the data, with the claim as a parameter, which the provers
  cannot instantiate; and the formats are built by recursive definitions. (What
  the proofs above use of that kind is only the least element of a set of
  naturals.)

## 5. Where the code and its texts disagree

- `quiz_hang`: directory entries of the archive are listed among the images
  (`imagedownload.dart:98`). `task()` throws on one after it has recorded its
  index and before it counts it, so the game later draws when nothing is left
  and never comes back; `help.dart:42` promises a new logo.
- `download_stuck`: the archive is requested from an address that is not known
  yet, and the first answer is read at an index it does not have
  (`imagedownload.dart:217`, `51`). The spinner stays, without a button;
  the screen says "This will take few seconds..." (`imagedownload.dart:157`).

- `versions_overlap` (vendored LevelDB): `DoCompactionWork` flushes a full
  memtable between two entries (`db_impl.cc:908`). The level of the new table
  is chosen on the current version, which does not have the outputs of the
  running compaction: a memtable whose keys lie between two level-1 inputs goes
  to level 2, and the output covers it there. `version_set.cc:724` and `747`
  say that tables above level 0 must not overlap. Here the inputs come from
  `CompactRange`, which takes both tables of the level at once.
- `versions_revive` (vendored LevelDB): the inputs of the lower level of a
  compaction are not extended by the table that continues their last user key
  (`version_set.cc:1410`; the upper level's are, `1407`). A deletion at the end
  of the inputs is dropped as obsolete while the older value of its key stays in
  that table, and the deleted key is found again. `db_impl.cc:955` argues that
  the data in the layers being compacted will be dropped as well. Later LevelDB
  extends both levels.
- `env_lock` (vendored LevelDB): a second `LockFile` of the process that has the
  lock closes its descriptor (`env_posix.cc:627`), and with it the kernel's lock
  of the process goes; another process then gets it. `UnlockFile` leaves the
  table before it closes (`647`), which does the same to a thread that locks in
  between. `env.h:151` promises a failure while somebody else has the lock.

Three remarks without a run of their own. The callback of the timer shows 0 for
one more second before it calls `task()` (`Quiz.dart:119`), so a logo has 31
seconds, which is what `LogoTime` states and `LogoHasItsTime` proves;
`help.dart:42` says 30. `repair.cc:169` wants the log reader to verify
checksums and passes `false` (`173`). `FindFiles` (`repair.cc:98`) does not look
into `lost`, so that after a failed call a number may be used again and a file
set aside earlier replaced.

## 6. Not modelled

- The verdict and the ring of the result screen (`ThankYou.dart:39-51`): one
  expression each. The ring is given `obt/tot - 1`, which is negative for every
  score `ScoreNeverFull` allows.
- Help, About, the app bar: static text and layout. Share hands a text to the
  platform.
- `retrieveurl()` of `home.dart`, `buildList()` of `imagedownload.dart`,
  `reset_counttimes()`: never called.
- `generated_plugin_registrant.dart`, the Android and iOS runners: generated.
  `test/widget_test.dart` is the template's test of a counter this app does not
  have.
- LevelDB: byte encodings, hashes, checksums, the arena, the C interface,
  the dump tool, statistics, printing: sequential code whose effect the modules
  take as given. Read sampling by iterators (`RecordReadSample`), which sets
  what a read by `Get` sets too. Which of two versions a read finds after a
  repair, where the number of a table no longer tells its age.
- nanopb: the encoder, and kinds of fields the one decoded message has not.
- The other pods (Firebase, FMDB, GTMSessionFetcher, GoogleUtilities,
  GoogleDataTransport, PromisesObjC): headers of Objective-C frameworks for the
  most part, met through the Dart packages only.

## 7. Plan

Done: the game first (`Quiz`, `LogoName`, `MCQuiz`, `QuizProofs`), then what
feeds it (`Launch`, `Download`), what it promises (`Game`), what is around it
(`App`), and the vendored store and decoder.

The proofs followed the same order: `Quiz` with its refinement, `Launch`,
`Download`, `App`, the environment, the writers, the tables and the
descriptors of `DBImpl`, the skip list, that `DBImpl` loses no write and uses no
sequence number twice, repair, decoding, names, the levels (that they stay in
order and that every read sees the history), and the cache.

Left:

1. The reader of `LogFormat` as a recursive function, for a first theorem about
   undamaged logs.
2. Models of `RecordReadSample` and of the encoder of nanopb.
