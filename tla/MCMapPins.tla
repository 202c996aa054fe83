----------------------------- MODULE MCMapPins -----------------------------
(* An instance of MapPins for TLC.                                           *)
EXTENDS MapPins

CONSTANTS y1, y2

TwoYaks == {y1, y2}
SomeRadii == {0, 1}

YakSymmetry == Permutations(TwoYaks)

=============================================================================
