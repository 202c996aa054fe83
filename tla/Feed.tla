-------------------------------- MODULE Feed --------------------------------
(***************************************************************************)
(* The list of nearby yaks on one phone, over one launch: which yaks it     *)
(* shows for the radius of Settings and the place of the phone, in which    *)
(* order, and when its refresh spinner stops.                               *)
(*                                                                         *)
(* A fetch is made with the radius and the place of its start and comes     *)
(* back later; its yaks are sorted by the segment and the place of then.    *)
(***************************************************************************)
EXTENDS Integers, SequencesExt

CONSTANTS
    Yaks,
    Places,     \* where the phone can be
    Nowhere,    \* the phone has no location, yet or any more
    Distance,   \* Distance[place][yak], in meters
    Likes,      \* bound: the likes a row may show
    Radii,      \* bound: what is saved in Settings, 0 included
    Unlimited,  \* what a radius of 0 is replaced by
    MaxCalls    \* bound: fetches not yet called back

ASSUME FeedAssumption ==
    /\ IsFiniteSet(Yaks)
    /\ Nowhere \notin Places
    /\ Distance \in [Places -> [Yaks -> Nat]]
    /\ Likes \subseteq Int
    /\ Radii \subseteq Nat
    /\ Unlimited \in Nat \ {0}
    /\ MaxCalls \in Nat
    /\ Places \cap {"likes", "any"} = {}

VARIABLES
    posted,     \* the documents of the collection
    view,       \* those in the phone's local store
    radius,     \* "radius" of the defaults
    listRadius, \* the list's own radius
    here,       \* locManager.location
    requested,  \* the location requested at launch is still to come
    shown,      \* the list is the tab on the screen
    segment,    \* the segmented control: "near" or "liked"
    messages,   \* the rows
    refreshing, \* the spinner turns
    asked,      \* fetches the SDK has not answered
    answered,   \* fetches with their yaks, callback not yet run
    basis,      \* history: the fetch the rows come from
    order,      \* history: what the rows were last sorted by
    lost,       \* history: a fetch was lost, and none made since
    missed,     \* history: a new radius was read without a location, and no
                \* fetch made since
    stuck       \* history: a fetch was lost since the spinner started

storeVars == <<posted, view>>
placeVars == <<here, requested>>
callVars == <<asked, answered, lost, missed>>
rowVars == <<messages, basis, order>>
vars == <<storeVars, radius, listRadius, placeVars, shown, segment, refreshing,
          callVars, rowVars, stuck>>

Rows == [yak : Yaks, likes : Likes]

\* A fetch; ends tells whether its callback stops the spinner.
Fetches == [place : Places, radius : Nat, ends : BOOLEAN]
NoFetch == [place |-> Nowhere, radius |-> 0, ends |-> FALSE]

TypeOK ==
    /\ posted \subseteq Yaks /\ view \subseteq posted
    /\ radius \in Nat /\ listRadius \in Nat \ {0}
    /\ here \in Places \cup {Nowhere} /\ requested \in BOOLEAN
    /\ shown \in BOOLEAN /\ segment \in {"near", "liked"}
    /\ messages \in Seq(Rows)
    /\ refreshing \in BOOLEAN
    /\ asked \in Seq(Fetches)
    /\ answered \in Seq([fetch : Fetches, yaks : SUBSET Yaks])
    /\ basis \in Fetches \cup {NoFetch}
    /\ order \in Places \cup {"likes", "any"}
    /\ lost \in BOOLEAN /\ missed \in BOOLEAN /\ stuck \in BOOLEAN

\* A radius of 0 means that none was ever saved.
Effective(r) == IF r = 0 THEN Unlimited ELSE r

\* The app has just started: viewDidLoad has read the radius, requested a
\* location and, with one known already, fetched, and so has viewDidAppear.
Init ==
    /\ \E saved \in Radii : radius = Effective(saved)
    /\ posted \in SUBSET Yaks
    /\ view \in SUBSET posted
    /\ listRadius = radius
    /\ here \in Places \cup {Nowhere}
    /\ requested \in BOOLEAN
    /\ shown = TRUE
    /\ segment = "near"
    /\ messages = <<>>
    /\ refreshing = FALSE
    /\ asked = IF here = Nowhere THEN <<>>
               ELSE LET first == [place |-> here, radius |-> radius, ends |-> TRUE]
                    IN  <<first, first>>
    /\ answered = <<>>
    /\ basis = NoFetch
    /\ order = "any"
    /\ lost = FALSE
    /\ missed = FALSE
    /\ stuck = FALSE

-----------------------------------------------------------------------------
(* Fetching.                                                                 *)

FetchYaks(place, r, ends) ==
    /\ Len(asked) + Len(answered) < MaxCalls
    /\ asked' = Append(asked, [place |-> place, radius |-> r, ends |-> ends])
    /\ lost' = FALSE
    /\ missed' = FALSE
    /\ UNCHANGED answered

\* checkForNewYaks with the spinner turning or not: without a location it stops
\* at once and nothing is fetched, though the radius may be a new one.
CheckForNewYaks(r, turning) ==
    \/ /\ here # Nowhere
       /\ FetchYaks(here, r, TRUE)
       /\ refreshing' = turning
    \/ /\ here = Nowhere
       /\ refreshing' = FALSE
       /\ missed' = (missed \/ r # listRadius)
       /\ UNCHANGED <<asked, answered, lost>>

\* Mutant of PullToRefresh: without a location nothing is done at all.
PullAnyway ==
    /\ shown
    /\ ~refreshing
    /\ stuck' = FALSE
    /\ refreshing' = TRUE
    /\ \/ here # Nowhere /\ FetchYaks(here, listRadius, TRUE)
       \/ here = Nowhere /\ UNCHANGED callVars
    /\ UNCHANGED <<storeVars, radius, listRadius, placeVars, shown, segment, rowVars>>

PullToRefresh ==
    /\ shown
    /\ ~refreshing
    /\ stuck' = FALSE
    /\ CheckForNewYaks(listRadius, TRUE)
    /\ UNCHANGED <<storeVars, radius, listRadius, placeVars, shown, segment, rowVars>>

\* Mutant of Appear: the fetch is made before the radius is read.
AppearTooEarly ==
    /\ ~shown
    /\ shown' = TRUE
    /\ radius' = Effective(radius)
    /\ listRadius' = Effective(radius)
    /\ CheckForNewYaks(listRadius, refreshing)
    /\ UNCHANGED <<storeVars, placeVars, segment, rowVars, stuck>>

\* viewDidAppear reads the radius, replaces a 0 by the default, and refreshes.
Appear ==
    /\ ~shown
    /\ shown' = TRUE
    /\ radius' = Effective(radius)
    /\ listRadius' = Effective(radius)
    /\ CheckForNewYaks(Effective(radius), refreshing)
    /\ UNCHANGED <<storeVars, placeVars, segment, rowVars, stuck>>

Leave ==
    /\ shown
    /\ shown' = FALSE
    /\ UNCHANGED <<storeVars, radius, listRadius, placeVars, segment, refreshing,
                   callVars, rowVars, stuck>>

\* didUpdateLocations: the place requested at launch, and a fetch for it whose
\* callback leaves the spinner alone.
LocationArrives == \E place \in Places :
    /\ requested
    /\ requested' = FALSE
    /\ here' = place
    /\ FetchYaks(place, listRadius, FALSE)
    /\ UNCHANGED <<storeVars, radius, listRadius, shown, segment, refreshing, rowVars, stuck>>

LocationFails ==
    /\ requested
    /\ requested' = FALSE
    /\ UNCHANGED <<storeVars, radius, listRadius, here, shown, segment, refreshing,
                   callVars, rowVars, stuck>>

\* The phone moves, and another screen's manager asks where it is; or the
\* permission is taken away, and the location with it.
Move == \E place \in Places \cup {Nowhere} :
    /\ here' = place
    /\ UNCHANGED <<storeVars, radius, listRadius, requested, shown, segment, refreshing,
                   callVars, rowVars, stuck>>

-----------------------------------------------------------------------------
(* The rows.                                                                 *)

Nearer(place, r, s) == Distance[place][r.yak] <= Distance[place][s.yak]
BetterLiked(r, s) == r.likes >= s.likes

NearestFirst(place, s) == IsSorted(s, LAMBDA r, t : Nearer(place, r, t))
MostLikedFirst(s) == IsSorted(s, BetterLiked)

\* Mutant of HandleSort: likes are sorted the wrong way round.
SortLeastLiked(rows, by) ==
    \/ /\ by = "near" /\ here' # Nowhere
       /\ messages' \in {s \in SetToSeqs(Range(rows)) : NearestFirst(here', s)}
       /\ order' = here'
    \/ /\ by = "near" /\ here' = Nowhere
       /\ messages' = rows
       /\ order' = "any"
    \/ /\ by = "liked"
       /\ messages' \in {s \in SetToSeqs(Range(rows)) :
              IsSorted(s, LAMBDA r, t : BetterLiked(t, r))}
       /\ order' = "likes"

\* handleSort: by distance from the present place or by likes; yaks that compare
\* equal may come in any order.  By distance without a place, the rows are left
\* as they are.
HandleSort(rows, by) ==
    \/ /\ by = "near" /\ here' # Nowhere
       /\ messages' \in {s \in SetToSeqs(Range(rows)) : NearestFirst(here', s)}
       /\ order' = here'
    \/ /\ by = "near" /\ here' = Nowhere
       /\ messages' = rows
       /\ order' = "any"
    \/ /\ by = "liked"
       /\ messages' \in {s \in SetToSeqs(Range(rows)) : MostLikedFirst(s)}
       /\ order' = "likes"

\* The segmented control is touched.
ChooseSegment ==
    /\ shown
    /\ segment' \in {"near", "liked"} \ {segment}
    /\ UNCHANGED placeVars
    /\ HandleSort(messages, segment')
    /\ UNCHANGED <<storeVars, radius, listRadius, shown, refreshing, callVars, basis, stuck>>

\* A vote on a row changes its likes in place and moves no row.
VoteOnRow == \E i \in DOMAIN messages, likes \in Likes :
    /\ shown
    /\ likes - messages[i].likes \in {-2, -1, 1, 2}
    /\ messages' = [messages EXCEPT ![i].likes = likes]
    /\ order' = IF order = "likes" THEN "any" ELSE order
    /\ UNCHANGED <<storeVars, radius, listRadius, placeVars, shown, segment, refreshing,
                   callVars, basis, stuck>>

-----------------------------------------------------------------------------
(* The collection and the SDK.                                               *)

\* Somebody posts a yak.
Post == \E y \in Yaks \ posted :
    /\ posted' = posted \cup {y}
    /\ UNCHANGED <<view, radius, listRadius, placeVars, shown, segment, refreshing,
                   callVars, rowVars, stuck>>

\* The oldest fetch is answered, from the backend or from the local store.
Answer ==
    /\ asked # <<>>
    /\ view' \in {view, posted}
    /\ answered' = Append(answered, [fetch |-> Head(asked), yaks |-> view'])
    /\ asked' = Tail(asked)
    /\ UNCHANGED <<posted, radius, listRadius, placeVars, shown, segment, refreshing,
                   rowVars, lost, missed, stuck>>

\* The query fails, and with it every fetch not answered: the error is printed.
FailCalls ==
    /\ asked # <<>>
    /\ asked' = <<>>
    /\ lost' = TRUE
    /\ stuck' = TRUE
    /\ UNCHANGED <<storeVars, radius, listRadius, placeVars, shown, segment, refreshing,
                   answered, missed, rowVars>>

Within(f, y) == Distance[f.place][y] <= f.radius

\* Mutant of DeliverFetch: the newest fetch answered is called back first.
DeliverNewest ==
    /\ answered # <<>>
    /\ answered' = Front(answered)
    /\ UNCHANGED placeVars
    /\ LET f == Last(answered).fetch
           found == {y \in Last(answered).yaks : Within(f, y)}
       IN  /\ \E likes \in [found -> Likes] :
                  \E rows \in SetToSeqs({[yak |-> y, likes |-> likes[y]] : y \in found}) :
                      HandleSort(rows, segment)
           /\ basis' = f
           /\ refreshing' = (refreshing /\ ~f.ends)
    /\ UNCHANGED <<storeVars, radius, listRadius, shown, segment, asked, lost, missed,
                   stuck>>

\* The callback of the oldest fetch answered: the yaks within its radius of its
\* place, with whatever likes they have, become the rows and are sorted.
DeliverFetch ==
    /\ answered # <<>>
    /\ answered' = Tail(answered)
    /\ UNCHANGED placeVars
    /\ LET f == Head(answered).fetch
           found == {y \in Head(answered).yaks : Within(f, y)}
       IN  /\ \E likes \in [found -> Likes] :
                  \E rows \in SetToSeqs({[yak |-> y, likes |-> likes[y]] : y \in found}) :
                      HandleSort(rows, segment)
           /\ basis' = f
           /\ refreshing' = (refreshing /\ ~f.ends)
    /\ UNCHANGED <<storeVars, radius, listRadius, shown, segment, asked, lost, missed,
                   stuck>>

-----------------------------------------------------------------------------
\* Save in Settings, a tab of its own.  (When its view is loaded it replaces a
\* radius of 0 like the list, which has done so already at launch.)
SaveRadius == \E r \in Radii :
    /\ ~shown
    /\ radius' = r
    /\ UNCHANGED <<storeVars, listRadius, placeVars, shown, segment, refreshing,
                   callVars, rowVars, stuck>>

Next ==
    \/ PullToRefresh \/ Appear \/ Leave
    \/ LocationArrives \/ LocationFails \/ Move
    \/ ChooseSegment \/ VoteOnRow
    \/ Post \/ Answer \/ FailCalls \/ DeliverFetch
    \/ SaveRadius

Spec == Init /\ [][Next]_vars

\* Fetches are answered and called back; nobody has to touch the phone.
Fairness == WF_vars(Answer) /\ WF_vars(DeliverFetch)

LiveSpec == Spec /\ Fairness

-----------------------------------------------------------------------------
(* Properties.                                                               *)

\* However saves, appearances, moves and slow fetches interleave, once nothing
\* is under way the rows are filtered by the radius the list last read: no
\* callback of an older fetch gets the last word.  Only a fetch that was lost,
\* or a radius read when there was no location to fetch for, leaves the rows of
\* another radius in the list, until the next fetch.
RowsFollowRadius ==
    asked = <<>> /\ answered = <<>> /\ ~lost /\ ~missed /\ basis # NoFetch
    => \A i \in DOMAIN messages :
           Distance[basis.place][messages[i].yak] <= listRadius

\* The rows stand in the order of the segment: by distance from where the phone
\* was when they were sorted, or by likes unless one was voted on since.  Rows
\* that came without a location are in no order of distance.
RowsInOrder ==
    /\ order \in Places => segment = "near" /\ NearestFirst(order, messages)
    /\ order = "likes" => segment = "liked" /\ MostLikedFirst(messages)

\* The spinner turns only as long as a callback that stops it is to come, or a
\* fetch has failed since it was started.
SpinnerHasCause ==
    refreshing => \/ stuck
                  \/ \E i \in DOMAIN asked : asked[i].ends
                  \/ \E i \in DOMAIN answered : answered[i].fetch.ends

\* A yak in the list does not vanish by a refresh made at the same place with
\* no smaller radius: answers, from the backend or from the local store, are
\* never applied out of order.
YaksStay == [][
    basis # NoFetch /\ basis'.place = basis.place /\ basis'.radius >= basis.radius
    => {r.yak : r \in Range(messages)} \subseteq {r.yak : r \in Range(messages')}]_vars

\* Every refresh ends, unless a fetch fails: the error is printed and the
\* callback that would stop the spinner is not called.
SpinnerEnds == refreshing ~> ~refreshing \/ stuck

=============================================================================
