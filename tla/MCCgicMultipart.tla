--------------------------- MODULE MCCgicMultipart ---------------------------
(***************************************************************************)
(* Small instances of CgicMultipart: every body of a few bytes that can     *)
(* imitate the beginning of a boundary, inside the frame that a browser     *)
(* puts around it, behind several headers; two parts; bodies that break off *)
(* anywhere; and short texts that have no such frame at all.                *)
(***************************************************************************)
EXTENDS CgicMultipart

SomeBytes == Blanks \cup {"-", ":", "D", "f", "T", "x", "X", "a", "b"}

NewLine == <<CR, LF>>
Mark(b) == <<"-", "-">> \o b
Disposition == <<"D", ":", "SP", "f">> \o NewLine
ContentType == <<"T", ":", "x", ":", "x">> \o NewLine

(* A browser's header; one that is not form-data; one whose value is blank, *)
(* so that the next line is taken for it; one that a lone CR ends.          *)
Headers == {Disposition \o ContentType \o NewLine,
            ContentType \o NewLine,
            <<"X", ":">> \o NewLine \o Disposition \o NewLine,
            Disposition \o <<CR>>}

Texts == BoundedSeq({CR, LF, "-", "a"}, 4)
Letter == <<"a">>
DashLetter == <<"-", "a">>
TwoLetters == <<"a", "b">>
LetterDashes == <<"a", "-", "-", "b">>

OnePart(b, pre, header, text) ==
  [boundary |-> b,
   body |-> pre \o Mark(b) \o NewLine \o header \o text \o NewLine \o Mark(b) \o <<"-", "-">>]

TwoParts(b, text1, text2) ==
  [boundary |-> b,
   body |-> Mark(b) \o NewLine \o Disposition \o NewLine \o text1 \o NewLine \o Mark(b) \o NewLine
            \o Disposition \o NewLine \o text2 \o NewLine \o Mark(b) \o <<"-", "-">> \o NewLine]

SomeBodies ==
  {OnePart(b, <<>>, h, t) : b \in {Letter, DashLetter}, h \in Headers, t \in Texts}
    \cup {OnePart(b, p, Disposition \o NewLine, <<"-">>) :
            b \in {Letter, DashLetter, TwoLetters, LetterDashes},
            p \in {<<"-">>, <<"-", "-", "-">>, <<"-", "-", "a">>, <<"a", "-", CR, LF>>}}
    \cup {OnePart(b, <<>>, Disposition \o NewLine, f \o t) :
            b \in {TwoLetters, LetterDashes}, f \in {<<>>, <<CR, LF, "-", "-", "a">>},
            t \in BoundedSeq({CR, LF, "-", "a"}, 2)}
    \cup {TwoParts(b, s, t) : b \in {Letter, DashLetter},
            s \in {<<>>, <<CR, LF, "-">>}, t \in {<<>>, <<CR>>, <<"-", "-", "a">>}}
    \cup {[boundary |-> b, body |-> SubSeq(OnePart(b, <<>>, h, <<CR>>).body, 1, n)] :
            b \in {Letter, DashLetter}, h \in Headers, n \in 3 .. 20}
    \cup {[boundary |-> b, body |-> t] : b \in {Letter, DashLetter}, t \in Texts}
===============================================================================
