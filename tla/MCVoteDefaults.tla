--------------------------- MODULE MCVoteDefaults ---------------------------
(* Instance of VoteDefaults: two yaks, so that an end of the app among the
   taps on one may touch the other, and room for the sets of three taps. *)
EXTENDS VoteDefaults, TLC

YakSymmetry == Permutations(Yaks)

=============================================================================
