---------------------------- MODULE VoteDefaults ----------------------------
(***************************************************************************)
(* The two arrays of UserDefaults a phone keeps its votes in, at the grain  *)
(* of their writes.  A tap reads both arrays, computes them anew and sets   *)
(* them one after the other; a set is seen by the app at once and stored a  *)
(* while later, in order, and the app may end before it is.                 *)
(*                                                                         *)
(* Voting keeps the arrays of every tap; this module says what an end of    *)
(* the app, between the two sets or soon after them, can leave of them.     *)
(***************************************************************************)
EXTENDS Naturals, Sequences

CONSTANTS
    Yaks,
    MaxSets     \* bound: sets not yet stored

VARIABLES
    defaults,   \* what the app reads: the arrays upvoted and downvoted, as sets
    stored,     \* what the next launch will read
    sets,       \* sets not yet stored, with the yak whose tap made them
    meant,      \* history: the vote the taps on a yak add up to, or "none"
    cut,        \* history: yaks a tap on which has ever been cut short
    dangling    \* history: yaks not tapped since

defaultsVars == <<defaults, stored, sets, meant, cut, dangling>>

Arrows == {"up", "down"}
Other(arrow) == IF arrow = "up" THEN "down" ELSE "up"
Arrays == [Arrows -> SUBSET Yaks]

DefaultsTypeOK ==
    /\ defaults \in Arrays /\ stored \in Arrays
    /\ sets \in Seq([key : Arrows, value : SUBSET Yaks, by : Yaks])
    /\ meant \in [Yaks -> Arrows \cup {"none"}]
    /\ cut \in SUBSET Yaks
    /\ dangling \in SUBSET cut

DefaultsInit ==
    /\ defaults = [a \in Arrows |-> {}]
    /\ stored = defaults
    /\ sets = <<>>
    /\ meant = [y \in Yaks |-> "none"]
    /\ cut = {}
    /\ dangling = {}

-----------------------------------------------------------------------------
\* The array key of arrays, as it is set by a tap on y.
Set(arrays, key, y) == [key |-> key, value |-> arrays[key], by |-> y]

\* A tap on y leaves arrays, having set those under keys, in their order.
SetArrays(arrays, keys, y) ==
    /\ Len(sets) + Len(keys) <= MaxSets
    /\ defaults' = arrays
    /\ sets' = sets \o [i \in DOMAIN keys |-> Set(arrays, keys[i], y)]
    /\ dangling' = dangling \ {y}
    /\ UNCHANGED <<stored, cut>>

\* Mutant of Withdraw: without the flag unupvoted the vote is cast again.
WithdrawThenCast(arrow, y) ==
    /\ y \in defaults[arrow]
    /\ SetArrays([defaults EXCEPT ![Other(arrow)] = @ \ {y}], <<"up", "down">>, y)

\* A second tap on an arrow sets one array.
Withdraw(arrow, y) ==
    /\ y \in defaults[arrow]
    /\ SetArrays([defaults EXCEPT ![arrow] = @ \ {y}], <<arrow>>, y)

\* Mutant of Cast: the other array is set as it was read.
CastBeside(arrow, y) ==
    /\ y \notin defaults[arrow]
    /\ SetArrays([defaults EXCEPT ![arrow] = @ \cup {y}], <<"up", "down">>, y)

\* A first tap takes the yak out of the other array and sets both, "upvoted"
\* first whatever the arrow.
Cast(arrow, y) ==
    /\ y \notin defaults[arrow]
    /\ SetArrays([defaults EXCEPT ![arrow] = @ \cup {y}, ![Other(arrow)] = @ \ {y}],
                 <<"up", "down">>, y)

\* upVote and downVote, of the list and of the message.
TapSets(arrow, y) ==
    /\ Withdraw(arrow, y) \/ Cast(arrow, y)
    /\ meant' = [meant EXCEPT ![y] = IF @ = arrow THEN "none" ELSE arrow]

\* The oldest set is stored.
Store ==
    /\ sets # <<>>
    /\ stored' = [stored EXCEPT ![Head(sets).key] = Head(sets).value]
    /\ sets' = Tail(sets)
    /\ UNCHANGED <<defaults, meant, cut, dangling>>

\* The app ends, perhaps in the midst of a handler, and is launched again.
End ==
    LET lost == {sets[i].by : i \in DOMAIN sets}
    IN  /\ defaults' = stored
        /\ sets' = <<>>
        /\ cut' = cut \cup lost
        /\ dangling' = dangling \cup lost
        /\ UNCHANGED <<stored, meant>>

DefaultsNext ==
    \/ \E arrow \in Arrows, y \in Yaks : TapSets(arrow, y)
    \/ Store
    \/ End

DefaultsSpec == DefaultsInit /\ [][DefaultsNext]_defaultsVars

-----------------------------------------------------------------------------
(* Properties.                                                               *)

Votes(arrays, y) == {a \in Arrows : y \in arrays[a]}

\* The arrays say of every yak what the taps on it add up to, one vote at most,
\* unless the app once ended before a tap on this very yak was stored: ends
\* among the taps on other yaks leave it alone although every set writes the
\* votes on all of them.
ArraysFollowTaps == \A y \in Yaks \ cut :
    Votes(defaults, y) = {meant[y]} \cap Arrows

\* A yak can stand in both arrays after such an end, and does so only until the
\* next tap on it: whichever arrow is touched, one vote at most is left.
OneVoteAfterNextTap == \A y \in Yaks \ dangling : Votes(defaults, y) # Arrows

\* Once everything is stored the next launch finds the votes on the screen.
StoredIsShown == sets = <<>> => stored = defaults

\* What an end of the app can leave behind: nothing that outlives the next tap on
\* the yak, and nothing that is not on the screen of the next launch.
DefaultsInv ==
    /\ DefaultsTypeOK
    /\ OneVoteAfterNextTap
    /\ StoredIsShown

=============================================================================
