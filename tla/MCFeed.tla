------------------------------- MODULE MCFeed -------------------------------
(* An instance of Feed for TLC: two yaks, one at the phone's feet and one two  *)
(* meters away.                                                              *)
EXTENDS Feed

CONSTANTS y1, y2, campus

TwoYaks == {y1, y2}
OnePlace == {campus}
Uneven == [place \in {campus} |-> [yak \in {y1, y2} |-> IF yak = y1 THEN 0 ELSE 2]]

\* A radius of 1 shows one yak, a radius of 0 stands for the unlimited one.
SomeRadii == {0, 1}
SomeLikes == 0..1

=============================================================================
