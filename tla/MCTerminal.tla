----------------------------- MODULE MCTerminal -----------------------------
(* One letter, plain and shifted, and a screen with two rows of text.      *)
EXTENDS Terminal, FiniteSets

CONSTANTS a, one

MCLetter == {a}
MCDigit == {one}

(* Bound: characters on the screen besides the clock.                      *)
MaxInk == 2

FewCharacters ==
  Cardinality({c \in DOMAIN screen : screen[c] \notin Digit \cup {blank}}) <= MaxInk
=============================================================================
