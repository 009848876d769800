----------------------------- MODULE LogoName -----------------------------
(***************************************************************************)
(* The answer to a logo is read off the path of its image: Quiz.dart turns *)
(* the path round, drops four characters, keeps what precedes the first    *)
(* '/', turns it round again, stops at the first '-' and upper-cases.      *)
(* A path is a sequence of characters.                                     *)
(***************************************************************************)
EXTENDS Integers, Sequences, SequencesExt, FiniteSetsExt

UpperCase == [a |-> "A", b |-> "B", c |-> "C", x |-> "X", y |-> "Y"]
Upper(ch) == IF ch \in DOMAIN UpperCase THEN UpperCase[ch] ELSE ch

Positions(s, ch) == {i \in DOMAIN s : s[i] = ch}

(* String.indexOf, counted from 0; -1 where there is none.                 *)
IndexOf(s, ch) ==
  IF Positions(s, ch) = {} THEN -1 ELSE Min(Positions(s, ch)) - 1

(* String.substring(from, to) throws unless 0 <= from <= to <= length.     *)
SubstringThrows(s, from, to) == ~(0 <= from /\ from <= to /\ to <= Len(s))
Substring(s, from, to) == SubSeq(s, from + 1, to)

ExtensionNoDot == 3
Extension == 4                 \* characters taken for the extension

TitleThrows(path) ==
  LET title == Reverse(path)
  IN  SubstringThrows(title, Extension, IndexOf(title, "/"))

BaseName(path) ==
  LET title == Reverse(path)
  IN  Reverse(Substring(title, Extension, IndexOf(title, "/")))

(* The loop over the title: it breaks at the first '-'.                    *)
KeepDash(title) == title
BeforeDash(title) ==
  IF IndexOf(title, "-") = -1 THEN title
  ELSE Substring(title, 0, IndexOf(title, "-"))

TitleOf(path) ==
  LET letters == BeforeDash(BaseName(path))
  IN  [x \in DOMAIN letters |-> Upper(letters[x])]

=============================================================================
