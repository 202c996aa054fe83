----------------------------- MODULE MCComments -----------------------------
(* An instance of Comments for TLC.                                          *)
EXTENDS Comments, SequencesExt, TLC

CONSTANTS p1, p2, y1, c1, c2

TwoPhones == {p1, p2}
OneYak == {y1}
TwoTexts == {c1, c2}
ListOnly == {"list"}

\* Bound: arrays of up to two comments.
ShortThreads == BoundedSeq(TwoTexts, 2)

PhoneAndTextSymmetry == Permutations(TwoPhones) \cup Permutations(TwoTexts)

=============================================================================
