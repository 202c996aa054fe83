----------------------------- MODULE FeedProofs -----------------------------
(***************************************************************************)
(* Proofs about Feed, for any yaks, places, distances and radii and any     *)
(* number of fetches under way.                                            *)
(***************************************************************************)
EXTENDS Feed, FiniteSetTheorems, TLAPS

-----------------------------------------------------------------------------
(* Sorting.                                                                  *)

\* The sequences of a finite set hold its elements, all of them.
LEMMA SeqsOfSet ==
    ASSUME NEW S, IsFiniteSet(S), NEW s \in SetToSeqs(S)
    PROVE  s \in Seq(S) /\ Range(s) = S
<1> DEFINE n == Cardinality(S)
<1>1. n \in Nat
  BY FS_CardinalityType
<1>2. s \in Injection(1 .. n, S)
  BY DEF SetToSeqs, Injection, IsInjective
<1>3. Cardinality(1 .. n) = n
  BY <1>1, FS_Interval
<1>4. s \in Surjection(1 .. n, S)
  BY <1>2, <1>3, FS_Injection
<1>5. Range(s) = S
  BY <1>4 DEF Surjection, Range
<1>6. s \in [1 .. n -> S]
  BY DEF SetToSeqs
<1> QED
  BY <1>1, <1>5, <1>6

\* The rows of a sequence are finitely many.
LEMMA RowsOfSeq ==
    ASSUME NEW T, NEW s \in Seq(T)
    PROVE  IsFiniteSet(Range(s)) /\ Range(s) \subseteq T
<1>1. s \in [1 .. Len(s) -> T] /\ Len(s) \in Nat
  OBVIOUS
<1>2. s \in Surjection(1 .. Len(s), Range(s))
  BY <1>1 DEF Surjection, Range
<1>3. IsFiniteSet(1 .. Len(s))
  BY <1>1, FS_Interval
<1> QED
  BY <1>1, <1>2, <1>3, FS_Surjection DEF Range

\* What handleSort leaves: the rows it was given, all of them, in the order it
\* says.
LEMMA SortIs ==
    ASSUME NEW T, NEW rows \in Seq(T), NEW by, HandleSort(rows, by)
    PROVE  /\ messages' \in Seq(T) /\ Range(messages') = Range(rows)
           /\ \/ /\ by = "near" /\ order' = here' /\ here' # Nowhere
                 /\ NearestFirst(here', messages')
              \/ order' = "any"
              \/ /\ by = "liked" /\ order' = "likes"
                 /\ MostLikedFirst(messages')
<1>1. IsFiniteSet(Range(rows)) /\ Range(rows) \subseteq T
  BY RowsOfSeq
<1>2. CASE messages' \in SetToSeqs(Range(rows))
  <2>1. messages' \in Seq(Range(rows)) /\ Range(messages') = Range(rows)
    BY <1>1, <1>2, SeqsOfSet
  <2>2. messages' \in Seq(T)
    BY <1>1, <2>1
  <2> QED
    BY <2>1, <2>2 DEF HandleSort
<1>3. CASE messages' = rows
  BY <1>3 DEF HandleSort
<1> QED
  BY <1>2, <1>3 DEF HandleSort

\* The rows made of a set of yaks are finitely many.
LEMMA RowsOfYaks ==
    ASSUME NEW found \in SUBSET Yaks, NEW likes \in [found -> Likes]
    PROVE  LET rows == {[yak |-> y, likes |-> likes[y]] : y \in found}
           IN  IsFiniteSet(rows) /\ rows \subseteq Rows
<1> DEFINE rows == {[yak |-> y, likes |-> likes[y]] : y \in found}
           f == [y \in found |-> [yak |-> y, likes |-> likes[y]]]
<1>1. f \in Surjection(found, rows)
  BY DEF Surjection
<1>2. IsFiniteSet(found)
  BY FeedAssumption, FS_Subset
<1>3. IsFiniteSet(rows)
  BY <1>1, <1>2, FS_Surjection
<1>4. rows \subseteq Rows
  BY DEF Rows
<1> QED
  BY <1>3, <1>4

\* The two ends of a sequence.
LEMMA HeadAndTail ==
    ASSUME NEW T, NEW s \in Seq(T), s # <<>>
    PROVE  Head(s) \in T /\ Tail(s) \in Seq(T)
OBVIOUS

LEMMA LastOfAppend ==
    ASSUME NEW T, NEW s \in Seq(T), NEW e \in T
    PROVE  Append(s, e) # <<>> /\ Append(s, e)[Len(Append(s, e))] = e
<1>1. Len(Append(s, e)) = Len(s) + 1 /\ Len(s) \in Nat
  OBVIOUS
<1> QED
  BY <1>1

LEMMA LastOfTail ==
    ASSUME NEW T, NEW s \in Seq(T), s # <<>>, Len(s) # 1
    PROVE  Tail(s) # <<>> /\ Tail(s)[Len(Tail(s))] = s[Len(s)]
<1>0. Len(s) \in Nat \ {0, 1}
  OBVIOUS
<1>1. Len(Tail(s)) = Len(s) - 1
  BY <1>0
<1>2. \A i \in 1 .. Len(s) - 1 : Tail(s)[i] = s[i + 1]
  OBVIOUS
<1>3. Len(Tail(s)) \in 1 .. Len(s) - 1
  BY <1>0, <1>1
<1>4. Tail(s)[Len(Tail(s))] = s[Len(s)]
  BY <1>0, <1>1, <1>2, <1>3
<1>5. Len(Tail(s)) # 0 /\ Len(<<>>) = 0
  BY <1>0, <1>1
<1> QED
  BY <1>4, <1>5

-----------------------------------------------------------------------------
(* Type correctness.                                                         *)

\* The callback of a fetch, with the rows it brings.
LEMMA DeliveryIs ==
    ASSUME TypeOK, DeliverFetch
    PROVE  \E f \in Fetches, rows \in Seq(Rows) :
              /\ \A r \in Range(rows) : Distance[f.place][r.yak] <= f.radius
              /\ HandleSort(rows, segment)
              /\ f = Head(answered).fetch
              /\ basis' = f
              /\ refreshing' = (refreshing /\ ~f.ends)
              /\ answered # <<>> /\ answered' = Tail(answered)
              /\ UNCHANGED <<storeVars, radius, listRadius, placeVars, shown, segment,
                             asked, lost, missed, stuck>>
<1> DEFINE f == Head(answered).fetch
           found == {y \in Head(answered).yaks : Within(f, y)}
<1>1. Head(answered) \in [fetch : Fetches, yaks : SUBSET Yaks]
  <2>1. answered \in Seq([fetch : Fetches, yaks : SUBSET Yaks]) /\ answered # <<>>
    BY DEF TypeOK, DeliverFetch
  <2> QED
    BY <2>1, HeadAndTail
<1>2. f \in Fetches /\ found \in SUBSET Yaks
  BY <1>1
<1>3. PICK likes \in [found -> Likes] :
        \E rows \in SetToSeqs({[yak |-> y, likes |-> likes[y]] : y \in found}) :
            HandleSort(rows, segment)
  BY DEF DeliverFetch
<1> DEFINE those == {[yak |-> y, likes |-> likes[y]] : y \in found}
<1>4. PICK rows \in SetToSeqs(those) : HandleSort(rows, segment)
  BY <1>3
<1>5. IsFiniteSet(those) /\ those \subseteq Rows
  BY <1>2, RowsOfYaks
<1>6. \A r \in those : Distance[f.place][r.yak] <= f.radius
  BY DEF Within
<1>7. /\ basis' = f
      /\ refreshing' = (refreshing /\ ~f.ends)
      /\ answered # <<>> /\ answered' = Tail(answered)
      /\ UNCHANGED <<storeVars, radius, listRadius, placeVars, shown, segment,
                     asked, lost, missed, stuck>>
  BY DEF DeliverFetch
<1>8. f = Head(answered).fetch
  OBVIOUS
<1> HIDE DEF those, f, found
<1>9. rows \in Seq(those) /\ Range(rows) = those
  BY <1>5, SeqsOfSet
<1>10. rows \in Seq(Rows)
  BY <1>5, <1>9
<1> QED
  BY <1>2, <1>4, <1>6, <1>7, <1>8, <1>9, <1>10

\* A sort keeps the types of the rows and the order.
LEMMA SortType ==
    ASSUME NEW rows \in Seq(Rows), NEW by, HandleSort(rows, by),
           here' \in Places \cup {Nowhere}
    PROVE  messages' \in Seq(Rows) /\ order' \in Places \cup {"likes", "any"}
<1>1. messages' \in Seq(Rows)
  BY SortIs
<1>2. order' \in {"any", "likes"} \/ (order' = here' /\ here' # Nowhere)
  BY SortIs
<1> QED
  BY <1>1, <1>2

LEMMA FetchType ==
    ASSUME TypeOK, NEW place \in Places, NEW r \in Nat, NEW ends \in BOOLEAN,
           FetchYaks(place, r, ends)
    PROVE  /\ asked' \in Seq(Fetches) /\ answered' = answered
           /\ lost' = FALSE /\ missed' = FALSE
<1>1. [place |-> place, radius |-> r, ends |-> ends] \in Fetches
  BY DEF Fetches
<1> QED
  BY <1>1 DEF TypeOK, FetchYaks

LEMMA CheckType ==
    ASSUME TypeOK, NEW r \in Nat, NEW turning \in BOOLEAN, CheckForNewYaks(r, turning)
    PROVE  /\ asked' \in Seq(Fetches) /\ answered' = answered
           /\ refreshing' \in BOOLEAN /\ lost' \in BOOLEAN /\ missed' \in BOOLEAN
<1>1. CASE here # Nowhere /\ FetchYaks(here, r, TRUE) /\ refreshing' = turning
  BY <1>1, FetchType DEF TypeOK
<1>2. CASE /\ refreshing' = FALSE /\ missed' = (missed \/ r # listRadius)
           /\ UNCHANGED <<asked, answered, lost>>
  BY <1>2 DEF TypeOK
<1> QED
  BY <1>1, <1>2 DEF CheckForNewYaks

\* TypeOK is inductive.
LEMMA TypeStep == TypeOK /\ [Next]_vars => TypeOK'
<1> SUFFICES ASSUME TypeOK, [Next]_vars PROVE TypeOK'
  OBVIOUS
<1> USE DEF storeVars, placeVars, callVars, rowVars
<1>0. listRadius \in Nat /\ Effective(radius) \in Nat \ {0}
  BY FeedAssumption DEF TypeOK, Effective
<1>1. CASE UNCHANGED vars
  BY <1>1 DEF TypeOK, vars
<1>2. CASE PullToRefresh
  BY <1>0, <1>2, CheckType DEF PullToRefresh, TypeOK
<1>3. CASE Appear
  <2>1. /\ asked' \in Seq(Fetches) /\ answered' = answered
        /\ refreshing' \in BOOLEAN /\ lost' \in BOOLEAN /\ missed' \in BOOLEAN
    BY <1>0, <1>3, CheckType DEF Appear, TypeOK
  <2> QED
    BY <1>0, <1>3, <2>1 DEF Appear, TypeOK
<1>4. CASE Leave
  BY <1>4 DEF Leave, TypeOK
<1>5. CASE LocationArrives
  <2>1. /\ asked' \in Seq(Fetches) /\ answered' = answered
        /\ lost' = FALSE /\ missed' = FALSE
    BY <1>0, <1>5, FetchType DEF LocationArrives
  <2> QED
    BY <1>5, <2>1 DEF LocationArrives, TypeOK
<1>6. CASE LocationFails
  BY <1>6 DEF LocationFails, TypeOK
<1>7. CASE Move
  BY <1>7 DEF Move, TypeOK
<1>8. CASE ChooseSegment
  <2>1. messages' \in Seq(Rows) /\ order' \in Places \cup {"likes", "any"}
    BY <1>8, SortType DEF ChooseSegment, TypeOK
  <2> QED
    BY <1>8, <2>1 DEF ChooseSegment, TypeOK
<1>9. CASE VoteOnRow
  <2>1. PICK i \in DOMAIN messages, likes \in Likes :
          messages' = [messages EXCEPT ![i].likes = likes]
    BY <1>9 DEF VoteOnRow
  <2>2. messages[i] \in Rows
    BY DEF TypeOK
  <2>3. [messages[i] EXCEPT !.likes = likes] \in Rows
    BY <2>2 DEF Rows
  <2>4. messages' = [messages EXCEPT ![i] = [messages[i] EXCEPT !.likes = likes]]
    BY <2>1
  <2>5. messages' \in Seq(Rows)
    BY <2>3, <2>4 DEF TypeOK
  <2> QED
    BY <1>9, <2>5 DEF VoteOnRow, TypeOK
<1>10. CASE Post
  BY <1>10 DEF Post, TypeOK
<1>11. CASE Answer
  <2>1. asked \in Seq(Fetches) /\ asked # <<>> /\ view' \in SUBSET Yaks
    BY <1>11 DEF Answer, TypeOK
  <2>2. Head(asked) \in Fetches /\ Tail(asked) \in Seq(Fetches)
    BY <2>1, HeadAndTail
  <2>3. [fetch |-> Head(asked), yaks |-> view'] \in [fetch : Fetches, yaks : SUBSET Yaks]
    BY <2>1, <2>2
  <2>4. answered' \in Seq([fetch : Fetches, yaks : SUBSET Yaks])
    BY <1>11, <2>3 DEF Answer, TypeOK
  <2> QED
    BY <1>11, <2>2, <2>4 DEF Answer, TypeOK
<1>12. CASE FailCalls
  <2>1. asked' \in Seq(Fetches)
    BY <1>12 DEF FailCalls
  <2> QED
    BY <1>12, <2>1 DEF FailCalls, TypeOK
<1>13. CASE DeliverFetch
  <2>1. PICK f \in Fetches, rows \in Seq(Rows) :
              /\ HandleSort(rows, segment)
              /\ basis' = f
              /\ refreshing' = (refreshing /\ ~f.ends)
              /\ answered # <<>> /\ answered' = Tail(answered)
              /\ UNCHANGED <<storeVars, radius, listRadius, placeVars, shown, segment,
                             asked, lost, missed, stuck>>
    BY <1>13, DeliveryIs
  <2>2. messages' \in Seq(Rows) /\ order' \in Places \cup {"likes", "any"}
    BY <2>1, SortType DEF TypeOK
  <2>3. answered' \in Seq([fetch : Fetches, yaks : SUBSET Yaks])
    BY <2>1, HeadAndTail DEF TypeOK
  <2>4. refreshing' \in BOOLEAN
    BY <2>1 DEF TypeOK, Fetches
  <2> QED
    BY <2>1, <2>2, <2>3, <2>4 DEF TypeOK
<1>14. CASE SaveRadius
  BY <1>14, FeedAssumption DEF SaveRadius, TypeOK
<1> QED
  BY <1>1, <1>2, <1>3, <1>4, <1>5, <1>6, <1>7, <1>8, <1>9, <1>10, <1>11, <1>12, <1>13,
     <1>14 DEF Next

LEMMA TypeInit == Init => TypeOK
<1> SUFFICES ASSUME Init PROVE TypeOK
  OBVIOUS
<1>1. radius \in Nat \ {0}
  BY FeedAssumption DEF Init, Effective
<1>2. asked \in Seq(Fetches)
  <2>1. CASE here = Nowhere
    <3>1. <<>> \in Seq(Fetches)
      OBVIOUS
    <3> QED
      BY <2>1, <3>1 DEF Init
  <2>2. CASE here # Nowhere
    <3>1. PICK first \in Fetches : asked = <<first, first>>
      BY <1>1, <2>2 DEF Init, Fetches
    <3> QED
      BY <3>1
  <2> QED
    BY <2>1, <2>2
<1>3. messages \in Seq(Rows) /\ answered \in Seq([fetch : Fetches, yaks : SUBSET Yaks])
  BY DEF Init
<1> QED
  BY <1>1, <1>2, <1>3 DEF Init, TypeOK

\* Every variable of the feed stays in its type: the list's radius is never 0,
\* and the rows are yaks with likes.
THEOREM TypeCorrect == Spec => []TypeOK
BY TypeInit, TypeStep, PTL DEF Spec

-----------------------------------------------------------------------------
(* The spinner.                                                              *)

\* A callback that stops the spinner is to come.
EndComes ==
    \/ \E i \in DOMAIN asked : asked[i].ends
    \/ \E i \in DOMAIN answered : answered[i].fetch.ends

LEMMA FetchKeepsEnd ==
    ASSUME TypeOK, NEW place, NEW r, NEW ends \in BOOLEAN, FetchYaks(place, r, ends)
    PROVE  (EndComes \/ ends) => EndComes'
<1> DEFINE f == [place |-> place, radius |-> r, ends |-> ends]
           n == Len(asked)
<1>1. n \in Nat /\ DOMAIN asked = 1 .. n
  BY DEF TypeOK
<1>2. /\ DOMAIN asked' = 1 .. n + 1
      /\ \A i \in 1 .. n : asked'[i] = asked[i]
      /\ asked'[n + 1] = f
  BY <1>1 DEF FetchYaks, TypeOK
<1>3. n + 1 \in DOMAIN asked' /\ \A i \in DOMAIN asked : i \in DOMAIN asked'
  BY <1>1, <1>2
<1>4. answered' = answered /\ f.ends = ends
  BY DEF FetchYaks
<1> HIDE DEF f, n
<1> QED
  BY <1>1, <1>2, <1>3, <1>4 DEF EndComes

LEMMA CheckHasCause ==
    ASSUME TypeOK, NEW r, NEW turning \in BOOLEAN, CheckForNewYaks(r, turning), refreshing'
    PROVE  EndComes'
BY FetchKeepsEnd DEF CheckForNewYaks

\* An answer carries the fetch over.
LEMMA AnswerKeepsEnd ==
    ASSUME TypeOK, Answer, EndComes
    PROVE  EndComes'
<1> DEFINE n == Len(answered)
           a == [fetch |-> Head(asked), yaks |-> view']
<1>1. asked # <<>> /\ Len(asked) \in Nat \ {0} /\ n \in Nat
  BY DEF TypeOK, Answer
<1>2. answered' = Append(answered, a) /\ asked' = Tail(asked)
  BY DEF Answer
<1>3. /\ DOMAIN answered = 1 .. n /\ DOMAIN answered' = 1 .. n + 1
      /\ \A i \in 1 .. n : answered'[i] = answered[i]
      /\ answered'[n + 1] = a
  BY <1>1, <1>2 DEF TypeOK
<1>4. a.fetch = asked[1]
  BY <1>1 DEF TypeOK
<1>5. /\ DOMAIN asked = 1 .. Len(asked) /\ DOMAIN asked' = 1 .. Len(asked) - 1
      /\ \A i \in 1 .. Len(asked) - 1 : asked'[i] = asked[i + 1]
  BY <1>1, <1>2 DEF TypeOK
<1> HIDE DEF a, n
<1>6. ASSUME NEW i \in DOMAIN answered, answered[i].fetch.ends PROVE EndComes'
  <2>1. i \in DOMAIN answered' /\ answered'[i] = answered[i]
    BY <1>1, <1>3
  <2> QED
    BY <1>6, <2>1 DEF EndComes
<1>7. ASSUME NEW i \in DOMAIN asked, asked[i].ends PROVE EndComes'
  <2>1. CASE i = 1
    <3>1. n + 1 \in DOMAIN answered' /\ answered'[n + 1].fetch = asked[i]
      BY <1>1, <1>3, <1>4, <2>1
    <3> QED
      BY <1>7, <3>1 DEF EndComes
  <2>2. CASE i # 1
    <3>1. i - 1 \in DOMAIN asked' /\ asked'[i - 1] = asked[i]
      BY <1>1, <1>5, <2>2
    <3> QED
      BY <1>7, <3>1 DEF EndComes
  <2> QED
    BY <2>1, <2>2
<1> QED
  BY <1>6, <1>7 DEF EndComes

LEMMA DeliveryHasCause ==
    ASSUME TypeOK, DeliverFetch, EndComes, refreshing'
    PROVE  EndComes'
<1>1. PICK f \in Fetches :
        /\ f = Head(answered).fetch /\ refreshing' = (refreshing /\ ~f.ends)
        /\ answered # <<>> /\ answered' = Tail(answered) /\ asked' = asked
  BY DeliveryIs
<1>2. ~answered[1].fetch.ends
  <2>1. ~f.ends
    BY <1>1
  <2>2. Head(answered) = answered[1]
    BY <1>1
  <2> QED
    BY <1>1, <2>1, <2>2
<1>3. /\ Len(answered) \in Nat /\ DOMAIN answered = 1 .. Len(answered)
      /\ DOMAIN answered' = 1 .. Len(answered) - 1
      /\ \A i \in 1 .. Len(answered) - 1 : answered'[i] = answered[i + 1]
  BY <1>1 DEF TypeOK
<1>4. ASSUME NEW i \in DOMAIN answered, answered[i].fetch.ends PROVE EndComes'
  <2>1. i - 1 \in DOMAIN answered' /\ answered'[i - 1] = answered[i]
    BY <1>2, <1>3, <1>4
  <2> QED
    BY <1>4, <2>1 DEF EndComes
<1> QED
  BY <1>1, <1>4 DEF EndComes

LEMMA SpinnerStep == TypeOK /\ SpinnerHasCause /\ [Next]_vars => SpinnerHasCause'
<1> SUFFICES ASSUME TypeOK, refreshing => stuck \/ EndComes, [Next]_vars, refreshing'
             PROVE  (stuck \/ EndComes)'
  BY DEF SpinnerHasCause, EndComes
<1>1. CASE UNCHANGED <<refreshing, asked, answered, stuck>>
  BY <1>1 DEF EndComes
<1>2. CASE PullToRefresh
  BY <1>2, CheckHasCause DEF PullToRefresh
<1>3. CASE Appear
  BY <1>3, CheckHasCause DEF Appear, TypeOK
<1>4. CASE LocationArrives
  <2>1. CASE stuck
    BY <1>4, <2>1 DEF LocationArrives
  <2>2. CASE EndComes
    BY <1>4, <2>2, FetchKeepsEnd DEF LocationArrives
  <2> QED
    BY <1>4, <2>1, <2>2 DEF LocationArrives
<1>5. CASE Answer
  BY <1>5, AnswerKeepsEnd DEF Answer
<1>6. CASE FailCalls
  BY <1>6 DEF FailCalls
<1>7. CASE DeliverFetch
  <2>1. refreshing /\ stuck' = stuck
    BY <1>7, DeliveryIs
  <2> QED
    BY <1>7, <2>1, DeliveryHasCause
<1> QED
  BY <1>1, <1>2, <1>3, <1>4, <1>5, <1>6, <1>7
     DEF Next, vars, callVars, Leave, LocationFails, Move, ChooseSegment, VoteOnRow, Post,
         SaveRadius

\* The spinner never turns for nothing: a fetch whose callback stops it is
\* under way, unless a fetch has failed since it was started.
THEOREM SpinnerIsCaused == Spec => []SpinnerHasCause
<1>1. Init => SpinnerHasCause
  BY DEF Init, SpinnerHasCause
<1> QED
  BY <1>1, TypeInit, TypeStep, SpinnerStep, PTL DEF Spec

-----------------------------------------------------------------------------
(* The order of the rows.                                                    *)

LEMMA SortIsInOrder ==
    ASSUME NEW rows \in Seq(Rows), HandleSort(rows, segment'),
           here' \in Places \cup {Nowhere}
    PROVE  RowsInOrder'
<1>1. "any" \notin Places /\ "likes" \notin Places
  BY FeedAssumption
<1>2. CASE /\ segment' = "near" /\ order' = here' /\ here' # Nowhere
           /\ NearestFirst(here', messages')
  BY <1>1, <1>2 DEF RowsInOrder
<1>3. CASE order' = "any"
  BY <1>1, <1>3 DEF RowsInOrder
<1>4. CASE segment' = "liked" /\ order' = "likes" /\ MostLikedFirst(messages')
  BY <1>1, <1>4 DEF RowsInOrder
<1> QED
  <2>1. \/ /\ segment' = "near" /\ order' = here' /\ here' # Nowhere
           /\ NearestFirst(here', messages')
        \/ order' = "any"
        \/ segment' = "liked" /\ order' = "likes" /\ MostLikedFirst(messages')
    BY SortIs
  <2> QED
    BY <1>2, <1>3, <1>4, <2>1

\* A vote changes no distance.
LEMMA VoteKeepsNearest ==
    ASSUME TypeOK, NEW place, NearestFirst(place, messages), VoteOnRow
    PROVE  NearestFirst(place, messages')
<1>1. Len(messages') = Len(messages) /\ Len(messages) \in Nat
  BY DEF TypeOK, VoteOnRow
<1>2. \A i \in 1 .. Len(messages) : messages[i] \in Rows
  BY DEF TypeOK
<1>3. \A i \in 1 .. Len(messages) : messages'[i].yak = messages[i].yak
  BY <1>2 DEF VoteOnRow, TypeOK, Rows
<1>4. \A i, j \in 1 .. Len(messages) :
        i < j => Distance[place][messages[i].yak] <= Distance[place][messages[j].yak]
  BY DEF NearestFirst, IsSorted, Nearer
<1> QED
  BY <1>1, <1>3, <1>4 DEF NearestFirst, IsSorted, Nearer

LEMMA OrderStep == TypeOK /\ RowsInOrder /\ [Next]_vars => RowsInOrder'
<1> SUFFICES ASSUME TypeOK, RowsInOrder, [Next]_vars PROVE RowsInOrder'
  OBVIOUS
<1>1. CASE UNCHANGED <<segment, messages, order>>
  BY <1>1 DEF RowsInOrder
<1>2. CASE ChooseSegment
  <2>1. HandleSort(messages, segment') /\ here' \in Places \cup {Nowhere}
    BY <1>2 DEF ChooseSegment, placeVars, TypeOK
  <2> QED
    BY <2>1, SortIsInOrder DEF TypeOK
<1>3. CASE VoteOnRow
  <2>1. segment' = segment /\ order' = (IF order = "likes" THEN "any" ELSE order)
    BY <1>3 DEF VoteOnRow
  <2>2. "any" \notin Places
    BY FeedAssumption
  <2>3. order' # "likes"
    BY <2>1
  <2>4. ASSUME order' \in Places PROVE segment' = "near" /\ NearestFirst(order', messages')
    <3>1. order' = order /\ segment = "near" /\ NearestFirst(order, messages)
      BY <2>1, <2>2, <2>4 DEF RowsInOrder
    <3>2. NearestFirst(order, messages')
      BY <1>3, <3>1, VoteKeepsNearest
    <3> QED
      BY <2>1, <3>1, <3>2
  <2> QED
    BY <2>3, <2>4 DEF RowsInOrder
<1>4. CASE DeliverFetch
  <2>1. PICK rows \in Seq(Rows) :
          /\ HandleSort(rows, segment)
          /\ segment' = segment /\ here' = here
    BY <1>4, DeliveryIs DEF placeVars
  <2> QED
    BY <2>1, SortIsInOrder DEF TypeOK
<1> QED
  BY <1>1, <1>2, <1>3, <1>4
     DEF Next, vars, rowVars, PullToRefresh, Appear, Leave, LocationArrives, LocationFails,
         Move, Post, Answer, FailCalls, SaveRadius

\* The rows are in the order of the chosen segment whenever they were sorted:
\* by distance from where the phone then was, or by likes until the next vote.
THEOREM RowsAreInOrder == Spec => []RowsInOrder
<1>1. Init => RowsInOrder
  BY FeedAssumption DEF Init, RowsInOrder
<1> QED
  BY <1>1, TypeInit, TypeStep, OrderStep, PTL DEF Spec

-----------------------------------------------------------------------------
(* The radius of the rows.                                                   *)

\* The newest fetch that was made, wherever it has got to.
NewestRadius ==
    IF asked # <<>> THEN asked[Len(asked)].radius
    ELSE IF answered # <<>> THEN answered[Len(answered)].fetch.radius
    ELSE IF basis # NoFetch THEN basis.radius
    ELSE listRadius

\* The strengthening of RowsFollowRadius: unless it was lost, or a radius read
\* with no location to fetch for, the newest fetch was made with the radius the
\* list last read, and the rows lie within the radius of theirs.
RadiusInv ==
    /\ lost \/ missed \/ NewestRadius = listRadius
    /\ basis # NoFetch =>
          \A i \in DOMAIN messages : Distance[basis.place][messages[i].yak] <= basis.radius

LEMMA RadiusImplies == RadiusInv => RowsFollowRadius
BY DEF RadiusInv, NewestRadius, RowsFollowRadius

\* A fetch for the radius the list reads is the newest.
LEMMA FetchIsNewest ==
    ASSUME TypeOK, RadiusInv, NEW place \in Places, NEW ends \in BOOLEAN,
           FetchYaks(place, listRadius', ends), UNCHANGED <<messages, basis>>
    PROVE  RadiusInv'
<1> DEFINE f == [place |-> place, radius |-> listRadius', ends |-> ends]
<1>1. asked' = Append(asked, f)
  BY DEF FetchYaks
<1>2. asked' # <<>> /\ asked'[Len(asked')] = f
  <2>1. f \in [place : Places, radius : {listRadius'}, ends : BOOLEAN]
    OBVIOUS
  <2>2. asked \in Seq(Fetches \cup [place : Places, radius : {listRadius'}, ends : BOOLEAN])
    BY DEF TypeOK
  <2> QED
    BY <1>1, <2>1, <2>2, LastOfAppend
<1>3. NewestRadius' = listRadius'
  BY <1>2 DEF NewestRadius
<1> QED
  BY <1>3 DEF RadiusInv

LEMMA AnswerKeepsRadius ==
    ASSUME TypeOK, RadiusInv, Answer
    PROVE  RadiusInv'
<1> DEFINE n == Len(asked)
           a == [fetch |-> Head(asked), yaks |-> view']
<1>1. asked # <<>> /\ asked' = Tail(asked) /\ answered' = Append(answered, a)
  BY DEF Answer
<1>2. answered' # <<>> /\ answered'[Len(answered')] = a
  <2>1. Head(asked) \in Fetches /\ view' \in SUBSET Yaks
    BY <1>1, HeadAndTail DEF TypeOK, Answer
  <2>2. a \in [fetch : Fetches, yaks : SUBSET Yaks]
    BY <2>1
  <2> HIDE DEF a
  <2>3. answered \in Seq([fetch : Fetches, yaks : SUBSET Yaks])
    BY DEF TypeOK
  <2> QED
    BY <1>1, <2>2, <2>3, LastOfAppend
<1>3. a.fetch = asked[1]
  BY <1>1 DEF TypeOK
<1>4. NewestRadius = asked[n].radius
  BY <1>1 DEF NewestRadius
<1>5. CASE n = 1
  <2>1. asked' = <<>>
    BY <1>1, <1>5 DEF TypeOK
  <2>2. NewestRadius' = a.fetch.radius
    BY <1>2, <2>1 DEF NewestRadius
  <2> QED
    BY <1>1, <1>3, <1>4, <1>5, <2>2 DEF RadiusInv, Answer, rowVars
<1>6. CASE n # 1
  <2>1. asked' # <<>> /\ asked'[Len(asked')] = asked[n]
    BY <1>1, <1>6, LastOfTail DEF TypeOK
  <2>2. NewestRadius' = asked[n].radius
    BY <2>1 DEF NewestRadius
  <2> QED
    BY <1>1, <1>4, <2>2 DEF RadiusInv, Answer, rowVars
<1> QED
  BY <1>5, <1>6

LEMMA DeliveryKeepsRadius ==
    ASSUME TypeOK, RadiusInv, DeliverFetch
    PROVE  RadiusInv'
<1>1. PICK f \in Fetches, rows \in Seq(Rows) :
        /\ HandleSort(rows, segment)
        /\ \A r \in Range(rows) : Distance[f.place][r.yak] <= f.radius
        /\ f = Head(answered).fetch /\ basis' = f
        /\ answered # <<>> /\ answered' = Tail(answered)
        /\ UNCHANGED <<listRadius, asked, lost, missed>>
  BY DeliveryIs
<1>2. f # NoFetch
  BY FeedAssumption DEF Fetches, NoFetch
<1>3. \A i \in DOMAIN messages' : Distance[f.place][messages'[i].yak] <= f.radius
  <2>1. Range(messages') = Range(rows)
    BY <1>1, SortIs
  <2>2. \A i \in DOMAIN messages' : messages'[i] \in Range(rows)
    BY <2>1 DEF Range
  <2> QED
    BY <1>1, <2>2
<1>4. NewestRadius' = NewestRadius
  <2>1. CASE asked # <<>>
    BY <1>1, <2>1 DEF NewestRadius
  <2>2. CASE asked = <<>> /\ Len(answered) = 1
    <3>1. answered' = <<>> /\ Head(answered) = answered[1]
      BY <1>1, <2>2 DEF TypeOK
    <3> QED
      BY <1>1, <1>2, <2>2, <3>1 DEF NewestRadius
  <2>3. CASE asked = <<>> /\ Len(answered) # 1
    <3>1. answered' # <<>> /\ answered'[Len(answered')] = answered[Len(answered)]
      BY <1>1, <2>3, LastOfTail DEF TypeOK
    <3> QED
      BY <1>1, <2>3, <3>1 DEF NewestRadius
  <2> QED
    BY <2>1, <2>2, <2>3
<1> QED
  BY <1>1, <1>3, <1>4 DEF RadiusInv

\* Rows that are only put in another order, or voted on, stay within the radius.
LEMMA SameYaksKeepRadius ==
    ASSUME RadiusInv, UNCHANGED <<listRadius, callVars, basis>>,
           \A i \in DOMAIN messages' : \E j \in DOMAIN messages :
               messages'[i].yak = messages[j].yak
    PROVE  RadiusInv'
<1>1. NewestRadius' = NewestRadius
  BY DEF NewestRadius, callVars
<1> QED
  BY <1>1 DEF RadiusInv, callVars

\* Where there is a location the radius read is fetched with, and where there is
\* none a new radius is missed.
LEMMA CheckKeepsRadius ==
    ASSUME TypeOK, RadiusInv, NEW turning, CheckForNewYaks(listRadius', turning),
           UNCHANGED <<messages, basis>>
    PROVE  RadiusInv'
<1>1. CASE here # Nowhere /\ FetchYaks(here, listRadius', TRUE)
  BY <1>1, FetchIsNewest DEF TypeOK
<1>2. CASE /\ missed' = (missed \/ listRadius' # listRadius)
           /\ UNCHANGED <<asked, answered, lost>>
  <2>1. missed' \/ (~missed /\ listRadius' = listRadius)
    BY <1>2
  <2>2. CASE missed'
    BY <2>2 DEF RadiusInv
  <2>3. CASE ~missed /\ listRadius' = listRadius
    <3>1. NewestRadius' = NewestRadius
      BY <1>2, <2>3 DEF NewestRadius
    <3> QED
      BY <1>2, <2>3, <3>1 DEF RadiusInv
  <2> QED
    BY <2>1, <2>2, <2>3
<1> QED
  BY <1>1, <1>2 DEF CheckForNewYaks

LEMMA RadiusStep == TypeOK /\ RadiusInv /\ [Next]_vars => RadiusInv'
<1> SUFFICES ASSUME TypeOK, RadiusInv, [Next]_vars PROVE RadiusInv'
  OBVIOUS
<1>1. CASE UNCHANGED <<listRadius, callVars, messages, basis>>
  BY <1>1, SameYaksKeepRadius
<1>2. CASE PullToRefresh
  BY <1>2, CheckKeepsRadius DEF PullToRefresh, rowVars, TypeOK
<1>3. CASE Appear
  BY <1>3, CheckKeepsRadius DEF Appear, rowVars, TypeOK
<1>4. CASE LocationArrives
  BY <1>4, FetchIsNewest DEF LocationArrives, rowVars
<1>5. CASE ChooseSegment
  <2>1. Range(messages') = Range(messages)
    BY <1>5, SortIs DEF ChooseSegment, TypeOK
  <2>2. \A i \in DOMAIN messages' : \E j \in DOMAIN messages : messages'[i] = messages[j]
    BY <2>1 DEF Range
  <2> QED
    BY <1>5, <2>2, SameYaksKeepRadius DEF ChooseSegment
<1>6. CASE VoteOnRow
  <2>1. \A i \in DOMAIN messages : messages[i] \in Rows
    BY DEF TypeOK
  <2>2. DOMAIN messages' = DOMAIN messages
    BY <1>6 DEF VoteOnRow
  <2>3. \A i \in DOMAIN messages : messages'[i].yak = messages[i].yak
    BY <1>6, <2>1 DEF VoteOnRow, Rows
  <2> QED
    BY <1>6, <2>2, <2>3, SameYaksKeepRadius DEF VoteOnRow
<1>7. CASE Answer
  BY <1>7, AnswerKeepsRadius
<1>8. CASE FailCalls
  BY <1>8 DEF FailCalls, RadiusInv, rowVars
<1>9. CASE DeliverFetch
  BY <1>9, DeliveryKeepsRadius
<1> QED
  BY <1>1, <1>2, <1>3, <1>4, <1>5, <1>6, <1>7, <1>8, <1>9
     DEF Next, vars, rowVars, Leave, LocationFails, Move, Post, SaveRadius

LEMMA RadiusInit == Init => RadiusInv
<1> SUFFICES ASSUME Init PROVE RadiusInv
  OBVIOUS
<1>1. CASE here = Nowhere
  BY <1>1 DEF Init, RadiusInv, NewestRadius
<1>2. CASE here # Nowhere
  BY <1>2 DEF Init, RadiusInv, NewestRadius
<1> QED
  BY <1>1, <1>2

\* Whatever the user saves and wherever the phone moves while fetches are
\* under way, once the newest one is called back the rows are filtered by the
\* radius the list last read, unless a fetch was lost or the radius was read
\* when the phone had no location.
THEOREM RowsAreWithinRadius == Spec => []RowsFollowRadius
BY RadiusInit, TypeInit, TypeStep, RadiusStep, RadiusImplies, PTL DEF Spec

-----------------------------------------------------------------------------
(* Yaks stay.                                                                *)

Shown == {r.yak : r \in Range(messages)}

\* The yaks a callback shows are those of its answer within the radius.
LEMMA DeliveryShows ==
    ASSUME DeliverFetch, Head(answered).yaks \in SUBSET Yaks
    PROVE  Shown' = {y \in Head(answered).yaks : Within(Head(answered).fetch, y)}
<1> DEFINE found == {y \in Head(answered).yaks : Within(Head(answered).fetch, y)}
<1>1. PICK likes \in [found -> Likes] :
        \E s \in SetToSeqs({[yak |-> y, likes |-> likes[y]] : y \in found}) :
            HandleSort(s, segment)
  BY DEF DeliverFetch
<1> DEFINE rows == {[yak |-> y, likes |-> likes[y]] : y \in found}
<1>2. PICK s \in SetToSeqs(rows) : HandleSort(s, segment)
  BY <1>1
<1>3. Range(messages') = rows
  <2>1. IsFiniteSet(rows)
    BY RowsOfYaks
  <2> HIDE DEF rows
  <2>2. s \in Seq(rows) /\ Range(s) = rows
    BY <2>1, SeqsOfSet
  <2> QED
    BY <1>2, <2>2, SortIs
<1>4. {r.yak : r \in rows} = found
  <2> HIDE DEF found
  <2>1. \A r \in rows : r.yak \in found
    OBVIOUS
  <2>2. \A y \in found : [yak |-> y, likes |-> likes[y]] \in rows
    OBVIOUS
  <2>3. \A y \in found : \E r \in rows : r.yak = y
    BY <2>2
  <2> HIDE DEF rows
  <2> QED
    BY <2>1, <2>3
<1> QED
  BY <1>3, <1>4 DEF Shown

\* Answers hold more and more yaks, and the rows none that the local store or a
\* later answer lacks.
ViewsInv ==
    /\ \A i \in DOMAIN answered : answered[i].yaks \subseteq view
    /\ \A i, j \in DOMAIN answered : i < j => answered[i].yaks \subseteq answered[j].yaks
    /\ Shown \subseteq view
    /\ \A i \in DOMAIN answered : Shown \subseteq answered[i].yaks

LEMMA AnswerKeepsViews ==
    ASSUME TypeOK, ViewsInv, Answer
    PROVE  ViewsInv'
<1> DEFINE n == Len(answered)
           a == [fetch |-> Head(asked), yaks |-> view']
<1>1. view \subseteq view' /\ Shown' = Shown /\ answered' = Append(answered, a)
  BY DEF Answer, TypeOK, Shown, rowVars
<1>2. /\ n \in Nat /\ DOMAIN answered = 1 .. n /\ DOMAIN answered' = 1 .. n + 1
      /\ \A i \in 1 .. n : answered'[i] = answered[i]
      /\ answered'[n + 1] = a
  BY <1>1 DEF TypeOK
<1>3. a.yaks = view'
  OBVIOUS
<1> HIDE DEF a, n
<1>4. \A i \in 1 .. n : answered'[i].yaks \subseteq view
  BY <1>2 DEF ViewsInv
<1>5. \A i \in DOMAIN answered' : answered'[i].yaks \subseteq view'
  BY <1>1, <1>2, <1>3, <1>4
<1>6. \A i \in DOMAIN answered' : Shown' \subseteq answered'[i].yaks
  BY <1>1, <1>2, <1>3 DEF ViewsInv
<1>7. ASSUME NEW i \in DOMAIN answered', NEW j \in DOMAIN answered', i < j
      PROVE  answered'[i].yaks \subseteq answered'[j].yaks
  <2>1. i \in 1 .. n
    BY <1>2, <1>7
  <2>2. CASE j \in 1 .. n
    BY <1>2, <1>7, <2>1, <2>2 DEF ViewsInv
  <2>3. CASE j = n + 1
    BY <1>1, <1>2, <1>3, <1>4, <2>1, <2>3
  <2> QED
    BY <1>2, <2>2, <2>3
<1> QED
  BY <1>1, <1>5, <1>6, <1>7 DEF ViewsInv

LEMMA DeliveryKeepsViews ==
    ASSUME TypeOK, ViewsInv, DeliverFetch
    PROVE  ViewsInv' /\ Shown \subseteq answered[1].yaks
                     /\ Shown' = {y \in answered[1].yaks : Within(basis', y)}
<1>1. /\ answered # <<>> /\ answered' = Tail(answered) /\ basis' = Head(answered).fetch
      /\ view' = view
  BY DEF DeliverFetch, storeVars
<1>2. /\ Len(answered) \in Nat \ {0} /\ DOMAIN answered = 1 .. Len(answered)
      /\ DOMAIN answered' = 1 .. Len(answered) - 1
      /\ \A i \in 1 .. Len(answered) - 1 : answered'[i] = answered[i + 1]
      /\ Head(answered) = answered[1]
  BY <1>1 DEF TypeOK
<1>3. Head(answered).yaks \in SUBSET Yaks
  <2>1. answered \in Seq([fetch : Fetches, yaks : SUBSET Yaks])
    BY DEF TypeOK
  <2>2. Head(answered) \in [fetch : Fetches, yaks : SUBSET Yaks]
    BY <1>1, <2>1, HeadAndTail
  <2> QED
    BY <2>2
<1>4. Shown' = {y \in answered[1].yaks : Within(basis', y)}
  BY <1>1, <1>2, <1>3, DeliveryShows
<1>5. 1 \in DOMAIN answered /\ \A i \in DOMAIN answered' :
        i + 1 \in DOMAIN answered /\ answered'[i] = answered[i + 1] /\ 1 < i + 1
  BY <1>2
<1>6. Shown' \subseteq answered[1].yaks /\ answered[1].yaks \subseteq view
  BY <1>4, <1>5 DEF ViewsInv
<1>7. \A i \in DOMAIN answered' : answered[1].yaks \subseteq answered'[i].yaks
  BY <1>5 DEF ViewsInv
<1>8. \A i, j \in DOMAIN answered' : i < j => answered'[i].yaks \subseteq answered'[j].yaks
  <2> SUFFICES ASSUME NEW i \in DOMAIN answered', NEW j \in DOMAIN answered', i < j
               PROVE  answered'[i].yaks \subseteq answered'[j].yaks
    OBVIOUS
  <2>1. i + 1 < j + 1
    BY <1>2
  <2> QED
    BY <1>5, <2>1 DEF ViewsInv
<1>9. \A i \in DOMAIN answered' : answered'[i].yaks \subseteq view
  BY <1>5 DEF ViewsInv
<1>10. Shown \subseteq answered[1].yaks
  BY <1>5 DEF ViewsInv
<1> QED
  BY <1>1, <1>4, <1>6, <1>7, <1>8, <1>9, <1>10 DEF ViewsInv

\* Every other step shows the same yaks.
LEMMA OthersShowSame ==
    ASSUME TypeOK, [Next]_vars, ~DeliverFetch
    PROVE  Shown' = Shown /\ basis' = basis
<1>1. CASE UNCHANGED <<messages, basis>>
  BY <1>1 DEF Shown
<1>2. CASE ChooseSegment
  <2>1. Range(messages') = Range(messages) /\ basis' = basis
    BY <1>2, SortIs DEF ChooseSegment, TypeOK
  <2> QED
    BY <2>1 DEF Shown
<1>3. CASE VoteOnRow
  <2>1. \A i \in DOMAIN messages : messages[i] \in Rows
    BY DEF TypeOK
  <2>2. DOMAIN messages' = DOMAIN messages /\ basis' = basis
    BY <1>3 DEF VoteOnRow
  <2>3. \A i \in DOMAIN messages : messages'[i].yak = messages[i].yak
    BY <1>3, <2>1 DEF VoteOnRow, Rows
  <2> QED
    BY <2>2, <2>3 DEF Shown, Range
<1> QED
  BY <1>1, <1>2, <1>3
     DEF Next, vars, rowVars, PullToRefresh, Appear, Leave, LocationArrives, LocationFails,
         Move, Post, Answer, FailCalls, SaveRadius

LEMMA ViewsStep == TypeOK /\ ViewsInv /\ [Next]_vars => ViewsInv'
<1> SUFFICES ASSUME TypeOK, ViewsInv, [Next]_vars PROVE ViewsInv'
  OBVIOUS
<1>1. CASE DeliverFetch
  BY <1>1, DeliveryKeepsViews
<1>2. CASE Answer
  BY <1>2, AnswerKeepsViews
<1>3. CASE ~DeliverFetch /\ ~Answer
  <2>1. answered' = answered /\ view' = view
    BY <1>3 DEF Next, vars, storeVars, callVars, PullToRefresh, Appear, CheckForNewYaks,
       FetchYaks, Leave, LocationArrives, LocationFails, Move, ChooseSegment, VoteOnRow, Post,
       FailCalls, SaveRadius
  <2>2. Shown' = Shown
    BY <1>3, OthersShowSame
  <2> QED
    BY <2>1, <2>2 DEF ViewsInv
<1> QED
  BY <1>1, <1>2, <1>3

YaksStayStep ==
    basis # NoFetch /\ basis'.place = basis.place /\ basis'.radius >= basis.radius
    => {r.yak : r \in Range(messages)} \subseteq {r.yak : r \in Range(messages')}

LEMMA StepKeepsYaks ==
    ASSUME TypeOK, TypeOK', RadiusInv, ViewsInv, [Next]_vars
    PROVE  YaksStayStep
<1>1. CASE DeliverFetch
  <2> SUFFICES ASSUME basis # NoFetch, basis'.place = basis.place,
                      basis'.radius >= basis.radius
               PROVE  Shown \subseteq Shown'
    BY DEF YaksStayStep, Shown
  <2>1. /\ Shown \subseteq answered[1].yaks
        /\ Shown' = {y \in answered[1].yaks : Within(basis', y)}
    BY <1>1, DeliveryKeepsViews
  <2>2. basis \in Fetches /\ basis' \in Fetches \cup {NoFetch}
    BY DEF TypeOK
  <2>3. ASSUME NEW y \in Shown PROVE Within(basis', y)
    <3>1. PICK i \in DOMAIN messages : y = messages[i].yak
      BY DEF Shown, Range
    <3>2. messages[i] \in Rows
      BY DEF TypeOK
    <3>3. y \in Yaks /\ Distance[basis.place][y] <= basis.radius
      BY <3>1, <3>2 DEF RadiusInv, Rows
    <3>4. /\ Distance[basis.place][y] \in Nat
          /\ basis.radius \in Nat /\ basis'.radius \in Nat
      BY <2>2, <3>3, FeedAssumption DEF Fetches, NoFetch
    <3> QED
      BY <3>3, <3>4 DEF Within
  <2> QED
    BY <2>1, <2>3
<1>2. CASE ~DeliverFetch
  BY <1>2, OthersShowSame DEF Shown, YaksStayStep
<1> QED
  BY <1>1, <1>2

\* No refresh made at the same place with no smaller radius takes a yak out of
\* the list: answers are called back in the order in which the local store grew.
THEOREM RefreshKeepsYaks == Spec => YaksStay
<1>1. Init => RadiusInv /\ ViewsInv
  BY RadiusInit DEF Init, ViewsInv, Shown, Range
<1>2. TypeOK /\ TypeOK' /\ RadiusInv /\ ViewsInv /\ [Next]_vars => [YaksStayStep]_vars
  BY StepKeepsYaks
<1>3. YaksStay <=> [][YaksStayStep]_vars
  BY PTL DEF YaksStay, YaksStayStep
<1> QED
  BY <1>1, <1>2, <1>3, TypeInit, TypeStep, RadiusStep, ViewsStep, PTL DEF Spec

=============================================================================
