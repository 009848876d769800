------------------------------ MODULE MCQuiz ------------------------------
(* Small instances of Quiz. The titles come from paths by the conversion   *)
(* of Quiz.dart (module LogoName).                                         *)
EXTENDS Quiz, LogoName, TLC

Letters == {"A", "B"}

TitleFrom(paths) ==
  [p \in 0 .. Len(paths) - 1 |->
     IF TitleThrows(paths[p + 1]) THEN << >>
     ELSE TitleOf(paths[p + 1])]
MalformedIn(paths) ==
  {p \in 0 .. Len(paths) - 1 : TitleThrows(paths[p + 1])}

Dir == <<"d", "/">>
Png == <<".", "p", "n", "g">>

(* Two letters, a repeated letter, a name with a suffix after '-', and the *)
(* same file once more, as a second run of the set-up lists it.            *)
PlayPaths == << Dir \o <<"a", "b">> \o Png,
                Dir \o <<"a", "a">> \o Png,
                Dir \o <<"b", "-", "2">> \o Png,
                Dir \o <<"a", "b">> \o Png >>

(* Written out, which TLC evaluates once; the ASSUME ties it to the paths. *)
PlayTitle ==
  0 :> <<"A", "B">> @@ 1 :> <<"A", "A">> @@ 2 :> <<"B">> @@ 3 :> <<"A", "B">>
PlayMalformed == {}
ASSUME PlayTitle = TitleFrom(PlayPaths)
ASSUME PlayMalformed = MalformedIn(PlayPaths)

(* A name that starts with '-' and so has no letter at all; a directory,   *)
(* as it stands in a zip; a name of more letters than there are tiles.     *)
OddPaths == << Dir \o <<"a">> \o Png,
               Dir \o <<"-", "2">> \o Png,
               Dir \o <<"l", "/">>,
               Dir \o <<"a", "b", "a", "b">> \o Png >>
OddTitle == TitleFrom(OddPaths)
OddMalformed == MalformedIn(OddPaths)

(* What a zip of one directory with one image in it unpacks to.            *)
ZipPaths == << Dir \o <<"l", "/">>, Dir \o <<"l", "/", "a">> \o Png >>
ZipTitle == TitleFrom(ZipPaths)
ZipMalformed == MalformedIn(ZipPaths)

=============================================================================
