----------------------------- MODULE Download -----------------------------
(***************************************************************************)
(* The set-up screen (lib/imagedownload.dart). Continue starts two things  *)
(* and awaits neither: retrieveurl(), which asks the database for the      *)
(* address of the archive, and _downloadZip(), which fetches the archive   *)
(* from the address known so far, lists each entry in the preference       *)
(* "names" and unpacks it. Both resume at their awaits in any order, and   *)
(* several presses may be under way at once on the same fields. Next       *)
(* stores "check" and opens Home. A killed process starts over with what   *)
(* was stored; the set-up is shown again until "check" is 1 (main.dart).   *)
(* `_images` and `_tempImages` feed buildList(), which is never called,    *)
(* and are left out.                                                       *)
(***************************************************************************)
EXTENDS Integers, Sequences, FiniteSets

CONSTANTS
  NumEntries,     \* entries of the archive
  Directories,    \* those that are directories
  Faults,         \* whether a request or a write may fail
  MaxPresses,     \* bound: presses of Continue in one process
  MaxRestarts     \* bound: times the process is killed

ASSUME ArchiveAssumption ==
  /\ NumEntries \in Nat \ {0}
  /\ Directories \subseteq 1 .. NumEntries
ASSUME RequestsAssumption ==
  /\ Faults \in BOOLEAN
  /\ MaxPresses \in Nat /\ MaxRestarts \in Nat

Entries   == 1 .. NumEntries
Downloads == 1 .. MaxPresses

VARIABLES
  (* fields of the State *)
  data,          \* the number of answers in `data`
  zipPath,       \* whether `_zipPath` holds the address yet
  dir,           \* whether `_dir` is set
  clicked, c_vis, downloading,
  images,        \* the entries listed, in order
  (* calls under way *)
  fetching,      \* calls of retrieveurl()
  pc,            \* pc[d]: where the _downloadZip() of the d-th press is
  at,            \* at[d]: the entry it is at
  presses,
  built,         \* the buttons of the last built frame
  nextPc,        \* where the handler of Next is
  (* stored *)
  names, full,   \* the list, and the files with their content
  check,
  restarts

fields == <<data, zipPath, dir, clicked, c_vis, downloading, images>>
calls  == <<fetching, pc, at, presses, nextPc>>
stored == <<names, full, check>>
vars   == <<fields, calls, built, stored, restarts>>

Frame == CASE c_vis -> "Continue"
           [] ~c_vis /\ ~downloading -> "Next"
           [] ~c_vis /\ downloading -> "none"

Init ==
  /\ data = 0 /\ zipPath = FALSE /\ dir = FALSE
  /\ clicked = FALSE /\ c_vis = TRUE /\ downloading = FALSE /\ images = << >>
  /\ fetching = 0 /\ presses = 0 /\ built = "Continue" /\ nextPc = "idle"
  /\ pc = [d \in Downloads |-> "idle"] /\ at = [d \in Downloads |-> 0]
  /\ names = << >> /\ full = {} /\ check = 0 /\ restarts = 0

(* The process is killed and started again: the same screen, until "check" *)
(* is 1, with its State made anew.                                         *)
Restart ==
  /\ check = 0 /\ restarts < MaxRestarts
  /\ restarts' = restarts + 1
  /\ data' = 0 /\ zipPath' = FALSE /\ dir' = FALSE
  /\ clicked' = FALSE /\ c_vis' = TRUE /\ downloading' = FALSE
  /\ images' = << >>
  /\ fetching' = 0 /\ presses' = 0 /\ built' = "Continue" /\ nextPc' = "idle"
  /\ pc' = [d \in Downloads |-> "idle"] /\ at' = [d \in Downloads |-> 0]
  /\ UNCHANGED stored

(* _initDir() resumes.                                                     *)
DirArrives ==
  /\ ~dir
  /\ dir' = TRUE
  /\ UNCHANGED <<data, zipPath, clicked, c_vis, downloading, images, calls,
                 built, stored, restarts>>

SpinnerForgotten == FALSE
SpinnerShown == TRUE             \* _downloadZip() sets _downloading first

(* onPressed of Continue. http.get throws on an empty address.             *)
Continue ==
  /\ built = "Continue" /\ nextPc # "home" /\ presses < MaxPresses
  /\ presses' = presses + 1
  /\ fetching' = fetching + 1
  /\ pc' = [pc EXCEPT ![presses + 1] = IF zipPath THEN "get" ELSE "failed"]
  /\ downloading' = SpinnerShown
  /\ clicked' = ~clicked
  /\ c_vis' = ~c_vis
  /\ UNCHANGED <<data, zipPath, dir, images, at, nextPc, built, stored,
                 restarts>>

(* retrieveurl() resumes with a value: `data[1]` is out of range until the *)
(* second answer.                                                          *)
UrlArrives ==
  /\ fetching > 0
  /\ fetching' = fetching - 1
  /\ data' = data + 1
  /\ zipPath' = (data' > 1)
  /\ UNCHANGED <<dir, clicked, c_vis, downloading, images, pc, at, presses,
                 nextPc, built, stored, restarts>>

(* It resumes with a null value or an error.                               *)
UrlFails ==
  /\ Faults /\ fetching > 0
  /\ fetching' = fetching - 1
  /\ UNCHANGED <<fields, pc, at, presses, nextPc, built, stored, restarts>>

-----------------------------------------------------------------------------
(* _downloadZip() of press d.                                              *)

Fail(d) ==
  /\ pc' = [pc EXCEPT ![d] = "failed"]
  /\ UNCHANGED <<fields, fetching, at, presses, nextPc, built, stored,
                 restarts>>

(* The archive arrives; it is written below `_dir`, which exists only if   *)
(* `_dir` is set.                                                          *)
GetDone(d) ==
  /\ pc[d] = "get" /\ dir
  /\ pc' = [pc EXCEPT ![d] = "save"]
  /\ UNCHANGED <<fields, fetching, at, presses, nextPc, built, stored,
                 restarts>>

GetFails(d) ==
  /\ pc[d] = "get" /\ (Faults \/ ~dir)
  /\ Fail(d)

(* An entry is added to `images` and the whole list stored.                *)
List(d, e) ==
  /\ images' = Append(images, e)
  /\ names' = images'
  /\ at' = [at EXCEPT ![d] = e]
  /\ pc' = [pc EXCEPT ![d] = "named"]
  /\ UNCHANGED downloading

StillDownloading == downloading
Finished == FALSE

MoreEntriesLate(d) == at[d] <= NumEntries
MoreEntries(d) == at[d] < NumEntries

SameEntry(d) == IF at[d] = 0 THEN 1 ELSE at[d]
NextEntry(d) == at[d] + 1

(* What follows entry at[d]: the next one, or the end of _downloadZip().   *)
Advance(d) ==
  \/ /\ MoreEntries(d)
     /\ List(d, NextEntry(d))
  \/ /\ ~MoreEntries(d)
     /\ pc' = [pc EXCEPT ![d] = "over"]
     /\ downloading' = Finished
     /\ UNCHANGED <<images, names, at>>

(* The archive is on disk; it is decoded and its first entry listed.       *)
SaveDone(d) ==
  /\ pc[d] = "save"
  /\ Advance(d)
  /\ UNCHANGED <<data, zipPath, dir, clicked, c_vis, fetching, presses,
                 nextPc, built, full, check, restarts>>

(* What was fetched is not an archive.                                     *)
DecodeFails(d) ==
  /\ pc[d] = "save" /\ Faults
  /\ Fail(d)

(* setString resumes: a directory is done, a file is created next.         *)
NamedDirectory(d) ==
  /\ pc[d] = "named" /\ at[d] \in Directories
  /\ Advance(d)
  /\ UNCHANGED <<data, zipPath, dir, clicked, c_vis, fetching, presses,
                 nextPc, built, full, check, restarts>>

NamedFile(d) ==
  /\ pc[d] = "named" /\ at[d] \notin Directories
  /\ pc' = [pc EXCEPT ![d] = "create"]
  /\ UNCHANGED <<fields, fetching, at, presses, nextPc, built, stored,
                 restarts>>

(* create() resumes; writeAsBytes truncates the file.                      *)
Created(d) ==
  /\ pc[d] = "create"
  /\ pc' = [pc EXCEPT ![d] = "write"]
  /\ full' = full \ {at[d]}
  /\ UNCHANGED <<fields, fetching, at, presses, nextPc, built, names, check,
                 restarts>>

Written(d) ==
  /\ pc[d] = "write"
  /\ full' = full \cup {at[d]}
  /\ Advance(d)
  /\ UNCHANGED <<data, zipPath, dir, clicked, c_vis, fetching, presses,
                 nextPc, built, check, restarts>>

(* create() or writeAsBytes throws: the entry stays listed.                *)
WriteFails(d) ==
  /\ pc[d] \in {"create", "write"} /\ Faults
  /\ Fail(d)

Resume(d) ==
  \/ GetDone(d) \/ GetFails(d) \/ SaveDone(d) \/ DecodeFails(d)
  \/ NamedDirectory(d) \/ NamedFile(d) \/ Created(d) \/ Written(d)
  \/ WriteFails(d)

-----------------------------------------------------------------------------
Build ==
  /\ built # Frame
  /\ built' = Frame
  /\ UNCHANGED <<fields, calls, stored, restarts>>

(* onPressed of Next: setInt("check", 1), then Home is pushed.             *)
NextTap ==
  /\ built = "Next" /\ nextPc = "idle"
  /\ nextPc' = "check"
  /\ UNCHANGED <<fields, fetching, pc, at, presses, built, stored, restarts>>

NextDone ==
  /\ nextPc = "check"
  /\ check' = 1
  /\ nextPc' = "home"
  /\ UNCHANGED <<fields, fetching, pc, at, presses, built, names, full,
                 restarts>>

Next ==
  \/ Restart \/ DirArrives \/ Continue \/ UrlArrives \/ UrlFails
  \/ \E d \in Downloads : Resume(d)
  \/ Build \/ NextTap \/ NextDone

Spec == Init /\ [][Next]_vars

(* Requests are answered, awaits resume and frames are built; the player   *)
(* owes nothing.                                                           *)
FairSpec ==
  /\ Spec
  /\ WF_vars(DirArrives) /\ WF_vars(UrlArrives) /\ WF_vars(Build)
  /\ \A d \in Downloads : WF_vars(Resume(d))

-----------------------------------------------------------------------------
(* Properties.                                                             *)

(* The fields hold values of their types, and every entry listed is one of *)
(* the archive.                                                            *)
TypeOK ==
  /\ data \in Nat /\ zipPath \in BOOLEAN /\ dir \in BOOLEAN
  /\ clicked \in BOOLEAN /\ c_vis \in BOOLEAN /\ downloading \in BOOLEAN
  /\ images \in Seq(Entries) /\ names \in Seq(Entries)
  /\ fetching \in 0 .. MaxPresses /\ presses \in 0 .. MaxPresses
  /\ pc \in [Downloads -> {"idle", "get", "save", "named", "create", "write",
                           "over", "failed"}]
  /\ at \in [Downloads -> 0 .. NumEntries]
  /\ built \in {"Continue", "Next", "none"}
  /\ nextPc \in {"idle", "check", "home"}
  /\ full \subseteq Entries \ Directories /\ check \in {0, 1}
  /\ restarts \in 0 .. MaxRestarts

(* The downloads of this process that fetch, or have listed an entry.      *)
Started ==
  {d \in Downloads : at[d] > 0 \/ pc[d] \notin {"idle", "failed"}}

Listed(s) == {s[i] : i \in DOMAIN s}

Complete == Listed(names) = Entries /\ Entries \ Directories \subseteq full

(* The Next button is only offered, and "check" only stored, once every    *)
(* entry is listed and every file is there, whatever failed before and     *)
(* wherever the process was killed, as long as no second download of the   *)
(* same process rewrites the files (imagedownload.dart:76-111).            *)
NextMeansFiles ==
  ((built = "Next" \/ check = 1) /\ Cardinality(Started) <= 1) => Complete

(* The stored list names an entry twice only if two downloads ran on the   *)
(* same `images` (imagedownload.dart:30), which nothing clears.            *)
TwiceOnlyByTwo ==
  Cardinality(Started) <= 1 => Len(images) = Cardinality(Listed(images))

(* The spinner stops: a download that was given an address clears          *)
(* _downloading (imagedownload.dart:89) unless an exception ended it,      *)
(* however many others it shares the fields with.                          *)
SpinnerStops ==
  \A d \in Downloads :
    (pc[d] = "get" /\ dir) ~> (~downloading \/ pc[d] = "failed")

(* imagedownload.dart:157, "This will take few seconds...": the text shown *)
(* after Continue; the set-up then comes to its Next button.               *)
SetupEnds == (clicked /\ downloading) ~> ~downloading

-----------------------------------------------------------------------------
(* The inductive invariant behind the safety properties.                   *)

(* The downloads of the presses to come are idle, and where each one is    *)
(* says how far into the archive it is.                                    *)
Progress ==
  /\ fetching <= presses
  /\ \A d \in Downloads :
       /\ d > presses => pc[d] = "idle"
       /\ pc[d] \in {"idle", "get", "save"} => at[d] = 0
       /\ pc[d] \in {"named", "create", "write", "over"} => at[d] > 0
       /\ pc[d] \in {"create", "write"} => at[d] \notin Directories
       /\ pc[d] = "over" => at[d] = NumEntries

(* Next is offered, or was taken, by a process with a finished download.   *)
OfferedByEnd ==
  /\ ~c_vis => presses > 0
  /\ (\/ presses > 0 /\ ~downloading
      \/ built = "Next" \/ nextPc # "idle" \/ check = 1)
       => \E d \in Downloads : pc[d] = "over"

(* The only download of its process that has listed an entry.              *)
Sole(d) == at[d] > 0 /\ \A e \in Downloads : at[e] > 0 => e = d

(* While there is only one, the list is the archive up to its entry, and   *)
(* the files before that entry are there.                                  *)
SoleInOrder ==
  /\ (\A d \in Downloads : at[d] = 0) => images = << >>
  /\ \A d \in Downloads : Sole(d) =>
       /\ images = [i \in 1 .. at[d] |-> i] /\ names = images
       /\ \A e \in Entries \ Directories :
            e < at[d] \/ (e = at[d] /\ pc[d] = "over") => e \in full

DownloadInv == TypeOK /\ Progress /\ OfferedByEnd /\ SoleInOrder

=============================================================================
