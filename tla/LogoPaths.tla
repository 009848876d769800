----------------------------- MODULE LogoPaths -----------------------------
(***************************************************************************)
(* The paths of which Quiz.dart takes the names of logos: any sequence of  *)
(* characters, as the archive and the platform decide what they are.       *)
(***************************************************************************)
EXTENDS LogoName

CONSTANTS Char,      \* characters of a path, "/", "-" and "." included
          MaxPath    \* bound: length of the paths enumerated

ASSUME CharAssumption == {"/", "-", "."} \subseteq Char
ASSUME PathAssumption == MaxPath \in Nat

VARIABLE path

PathInit == path = << >>
PathNext == Len(path) < MaxPath /\ \E ch \in Char : path' = Append(path, ch)
PathSpec == PathInit /\ [][PathNext]_path

(* What follows the last '/' of a path.                                    *)
FileName(p) ==
  LET slashes == Positions(p, "/")
  IN  SubSeq(p, Max(slashes) + 1, Len(p))

(* The letters of an image are those of its file name, without its last    *)
(* four characters and without what follows the first '-' (Quiz.dart:      *)
(* 168-185), however many '/', '-' or '.' the rest of the path contains.   *)
TitleIsFromFileName ==
  (Positions(path, "/") # {} /\ ~TitleThrows(path)) =>
    LET name  == FileName(path)
        title == TitleOf(path)
    IN  /\ Len(title) <= Len(name) - 4
        /\ Len(title) = Len(name) - 4 \/ name[Len(title) + 1] = "-"
        /\ \A x \in DOMAIN title : name[x] # "-" /\ title[x] = Upper(name[x])

(* substring (Quiz.dart:170) throws on exactly the paths whose file name   *)
(* has fewer than four characters; the entry of a directory, which ends in *)
(* '/' and which imagedownload.dart:98 lists like any other, is one.       *)
OnlyShortNamesThrow ==
  Positions(path, "/") # {} =>
    (TitleThrows(path) <=> Len(FileName(path)) < 4)

(* The name of a logo is taken from its path as the player expects, and    *)
(* taking it fails on short file names only (Quiz.dart:168-185).           *)
NamesSound == TitleIsFromFileName /\ OnlyShortNamesThrow

=============================================================================
