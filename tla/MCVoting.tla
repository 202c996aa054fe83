------------------------------ MODULE MCVoting ------------------------------
(* Instances of Voting for TLC: which phones, which yaks, which likes.       *)
EXTENDS Voting

CONSTANTS p1, p2, y1

OnePhone == {p1}
TwoPhones == {p1, p2}
OneYak == {y1}
NoYaks == {}

\* Bounds: likes followed by the model.
NarrowLikes == 0..1
UpLikes == 0..2

ListOnly == {"list"}
ListAndMap == {"list", "map"}

=============================================================================
