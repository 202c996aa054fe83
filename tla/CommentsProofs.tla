---------------------------- MODULE CommentsProofs ----------------------------
(***************************************************************************)
(* Proofs about Comments, for any phones, yaks and texts and any bounds.    *)
(***************************************************************************)
EXTENDS Comments, YakScreensProofs

-----------------------------------------------------------------------------
(* Type correctness.                                                         *)

\* A reply, with the copy it was made on and the array it makes of it.
LEMMA ReplyIs ==
    ASSUME TypeOK, NEW p \in Phones, Reply(p)
    PROVE  \E d \in Docs, text \in Texts, comments \in Values :
              /\ d = message[p].doc /\ ThreadOpen(p) /\ thread[p] \in Values
              /\ comments = Append(thread[p], text)
              /\ thread' = [thread EXCEPT ![p] = comments]
              /\ Update(d, comments) \in Requests
              /\ GetDocuments(p, Update(d, comments))
              /\ said' = [said EXCEPT ![d] = Append(@, text)]
              /\ spoiled' = IF Fresh(p, d) THEN spoiled ELSE spoiled \cup {d}
              /\ UNCHANGED screenVars
<1>1. message[p] \in Copies /\ thread[p] \in Values
  BY DEF Reply, ThreadOpen, TypeOK, ScreensTypeOK
<1>2. message[p].doc \in Docs
  BY <1>1 DEF Copies
<1>3. \A comments \in Values : Update(message[p].doc, comments) \in Requests
  BY <1>2, RequestTypes
<1> QED
  BY <1>1, <1>2, <1>3 DEF Reply, UpdateComments

LEMMA ReplyType ==
    ASSUME TypeOK, NEW p \in Phones, Reply(p)
    PROVE  TypeOK'
<1>1. PICK d \in Docs, text \in Texts, comments \in Values :
        /\ thread' = [thread EXCEPT ![p] = comments]
        /\ Update(d, comments) \in Requests
        /\ GetDocuments(p, Update(d, comments))
        /\ said' = [said EXCEPT ![d] = Append(@, text)]
        /\ spoiled' = IF Fresh(p, d) THEN spoiled ELSE spoiled \cup {d}
        /\ UNCHANGED screenVars
  BY ReplyIs
<1>2. ClientTypeOK'
  BY <1>1, GetDocumentsType DEF TypeOK
<1>3. said' \in [Docs -> Seq(Texts)]
  BY <1>1 DEF TypeOK
<1>4. thread' \in [Phones -> Values \cup {Absent}] /\ spoiled' \in SUBSET Docs
  BY <1>1 DEF TypeOK
<1> QED
  BY <1>1, <1>2, <1>3, <1>4 DEF TypeOK, ScreensTypeOK, screenVars

\* TypeOK is inductive.
LEMMA TypeStep == TypeOK /\ [Next]_vars => TypeOK'
<1> SUFFICES ASSUME TypeOK, [Next]_vars PROVE TypeOK'
  OBVIOUS
<1>1. CASE UNCHANGED vars
  BY <1>1 DEF TypeOK, ClientTypeOK, ScreensTypeOK, vars, clientVars, screenVars
<1>2. ASSUME NEW p \in Phones, OpenComments(p) PROVE TypeOK'
  <2>1. message[p].value \in Values
    BY <1>2 DEF OpenComments, TypeOK, ScreensTypeOK, Copies
  <2>2. thread' \in [Phones -> Values \cup {Absent}]
    BY <1>2, <2>1 DEF OpenComments, TypeOK
  <2> QED
    BY <1>2, <2>2 DEF OpenComments, TypeOK, ClientTypeOK, ScreensTypeOK, clientVars, screenVars
<1>3. ASSUME NEW p \in Phones, CloseComments(p) PROVE TypeOK'
  BY <1>3 DEF CloseComments, TypeOK, ClientTypeOK, ScreensTypeOK, clientVars, screenVars
<1>4. ASSUME NEW p \in Phones, Reply(p) PROVE TypeOK'
  BY <1>4, ReplyType
<1>5. ASSUME NEW p \in Phones, Look(p) PROVE TypeOK'
  BY <1>5, LookType DEF Look, LookStep, TypeOK
<1>6. ASSUME NEW p \in Phones, DeliverComments(p) PROVE TypeOK'
  BY <1>6, UpdateCallbackType DEF DeliverComments, TypeOK, ScreensTypeOK, screenVars
<1>7. ASSUME NEW p \in Phones, LoseCalls(p) PROVE TypeOK'
  BY <1>7, LossType DEF LoseCalls, TypeOK, ScreensTypeOK, screenVars
<1>8. ASSUME NEW p \in Phones, Relaunch(p) PROVE TypeOK'
  BY <1>8, RestartType DEF Relaunch, TypeOK
<1> QED
  BY <1>1, <1>2, <1>3, <1>4, <1>5, <1>6, <1>7, <1>8 DEF Next

LEMMA TypeInit == Init => TypeOK
<1> SUFFICES ASSUME Init PROVE TypeOK
  OBVIOUS
<1>1. ClientTypeOK /\ ScreensTypeOK
  BY ScreensInitType DEF Init
<1>2. said \in [Docs -> Seq(Texts)]
  BY <1>1, CommentsAssumption DEF Init, ClientTypeOK, Snapshots
<1> QED
  BY <1>1, <1>2 DEF Init, TypeOK

\* Every variable of the comment model stays in its type: no array that is
\* shown, sent or stored is anything but a sequence of comments.
THEOREM TypeCorrect == Spec => []TypeOK
BY TypeInit, TypeStep, PTL DEF Spec

-----------------------------------------------------------------------------
(* Replies are kept.                                                         *)

LEMMA ReplyKeepsReplies ==
    ASSUME TypeOK, RepliesKept, NEW p \in Phones, Reply(p)
    PROVE  RepliesKept'
<1>1. PICK d \in Docs, text \in Texts, comments \in Values :
        /\ comments = Append(thread[p], text)
        /\ Update(d, comments) \in Requests
        /\ GetDocuments(p, Update(d, comments))
        /\ said' = [said EXCEPT ![d] = Append(@, text)]
        /\ spoiled' = IF Fresh(p, d) THEN spoiled ELSE spoiled \cup {d}
  BY ReplyIs
<1> SUFFICES ASSUME NEW e \in Docs, e \notin spoiled'
             PROVE  ComesToRestAt(e, said[e])'
  BY DEF RepliesKept
<1>2. e \notin spoiled /\ (e = d => Fresh(p, d))
  BY <1>1
<1>3. CASE e # d
  <2>1. PICK v : v = said[e]
    OBVIOUS
  <2>2. ComesToRestAt(e, v) /\ ~IsUpdate(Update(d, comments), e)
    BY <1>2, <1>3, <2>1 DEF RepliesKept, Update, IsUpdate
  <2>3. ComesToRestAt(e, v)'
    BY <1>1, <2>2, AskKeepsRest DEF TypeOK
  <2>4. said[e]' = v
    BY <1>1, <1>3, <2>1 DEF TypeOK
  <2> QED
    BY <2>3, <2>4
<1>4. CASE e = d
  <2>1. thread[p] = said[d] /\ \A q \in Phones \ {p} : ~InFlight(q, d)
    BY <1>2, <1>4 DEF Fresh
  <2>2. ComesToRestAt(d, comments)'
    <3>1. NewestTaken(p, d)
      BY <1>2, <1>4 DEF RepliesKept, ComesToRestAt
    <3> QED
      BY <1>1, <2>1, <3>1, AskSetsRest DEF TypeOK
  <2>3. comments = said[d]'
    BY <1>1, <2>1 DEF TypeOK
  <2> QED
    BY <1>4, <2>2, <2>3
<1> QED
  BY <1>3, <1>4

\* Every other step leaves what was said, and the resting point of each yak
\* that is not spoiled after it.
LEMMA StepKeepsRest ==
    ASSUME TypeOK, [Next]_vars, \A p \in Phones : ~Reply(p),
           NEW e \in Docs, e \notin spoiled', NEW v, ComesToRestAt(e, v)
    PROVE  ComesToRestAt(e, v)' /\ said' = said /\ spoiled \subseteq spoiled'
<1>0. ClientTypeOK /\ ScreensTypeOK
  BY DEF TypeOK
<1>1. said' = said /\ spoiled \subseteq spoiled'
  BY DEF Next, vars, OpenComments, CloseComments, Look, DeliverComments, LoseCalls, Relaunch
<1>2. CASE UNCHANGED clientVars
  BY <1>1, <1>2, IdleKeepsRest DEF clientVars
<1>3. ASSUME NEW p \in Phones, Look(p) PROVE ComesToRestAt(e, v)'
  BY <1>0, <1>3, LookKeepsRest DEF Look, LookStep
<1>4. ASSUME NEW p \in Phones, DeliverComments(p) PROVE ComesToRestAt(e, v)'
  BY <1>0, <1>4, UpdateCallbackKeepsRest DEF DeliverComments
<1>5. ASSUME NEW p \in Phones, LoseCalls(p) PROVE ComesToRestAt(e, v)'
  BY <1>0, <1>5, LossKeepsRest DEF LoseCalls
<1>6. ASSUME NEW p \in Phones, Relaunch(p) PROVE ComesToRestAt(e, v)'
  BY <1>0, <1>6, LossKeepsRest DEF Relaunch, RestartScreens
<1>7. ASSUME NEW p \in Phones, OpenComments(p) \/ CloseComments(p)
      PROVE  ComesToRestAt(e, v)'
  BY <1>2, <1>7 DEF OpenComments, CloseComments
<1> QED
  BY <1>1, <1>2, <1>3, <1>4, <1>5, <1>6, <1>7 DEF Next, vars

LEMMA RepliesStep == TypeOK /\ RepliesKept /\ [Next]_vars => RepliesKept'
<1> SUFFICES ASSUME TypeOK, RepliesKept, [Next]_vars PROVE RepliesKept'
  OBVIOUS
<1>1. ASSUME NEW p \in Phones, Reply(p) PROVE RepliesKept'
  BY <1>1, ReplyKeepsReplies
<1>2. CASE \A p \in Phones : ~Reply(p)
  <2> SUFFICES ASSUME NEW e \in Docs, e \notin spoiled'
               PROVE  ComesToRestAt(e, said[e])'
    BY DEF RepliesKept
  <2>1. PICK v : v = said[e]
    OBVIOUS
  <2>2. spoiled \subseteq spoiled'
    BY <1>2 DEF Next, vars, OpenComments, CloseComments, Look, DeliverComments, LoseCalls,
                Relaunch
  <2>3. ComesToRestAt(e, v)
    BY <2>1, <2>2 DEF RepliesKept
  <2> QED
    BY <1>2, <2>1, <2>3, StepKeepsRest
<1> QED
  BY <1>1, <1>2

\* However many phones reply to however many yaks: as long as no reply to a yak
\* was made on a copy that lacked one and no call with a reply was lost, every
\* reply to it is in the newest array on its way, or in the database when none
\* is.
THEOREM RepliesAreKept == Spec => []RepliesKept
<1>1. Init => RepliesKept
  BY DEF Init, ClientInit, RepliesKept, ComesToRestAt, NewestCarries, NewestTaken, InFlight,
         AskedFor, AnsweredFor, WritesFor
<1> QED
  BY <1>1, TypeInit, TypeStep, RepliesStep, PTL DEF Spec

-----------------------------------------------------------------------------
(* Subsequences.                                                             *)

LEMMA SubsequenceSelf ==
    ASSUME NEW T, NEW s \in Seq(T)
    PROVE  Subsequence(s, s)
<1> DEFINE f == [i \in 1 .. Len(s) |-> i]
<1>1. f \in [1 .. Len(s) -> 1 .. Len(s)]
  OBVIOUS
<1>2. \A i, j \in 1 .. Len(s) : i < j => f[i] < f[j]
  OBVIOUS
<1>3. \A i \in 1 .. Len(s) : s[i] = s[f[i]]
  OBVIOUS
<1> QED
  BY <1>1, <1>2, <1>3 DEF Subsequence

\* What was left out stays left out when more is said.
LEMMA SubsequenceOfMore ==
    ASSUME NEW T, NEW s \in Seq(T), NEW t \in Seq(T), NEW c \in T, Subsequence(s, t)
    PROVE  Subsequence(s, Append(t, c))
<1>1. PICK f \in [1 .. Len(s) -> 1 .. Len(t)] :
        /\ \A i, j \in 1 .. Len(s) : i < j => f[i] < f[j]
        /\ \A i \in 1 .. Len(s) : s[i] = t[f[i]]
  BY DEF Subsequence
<1>2. Len(Append(t, c)) = Len(t) + 1 /\ Len(t) \in Nat
  OBVIOUS
<1>3. f \in [1 .. Len(s) -> 1 .. Len(Append(t, c))]
  <2>1. \A i \in 1 .. Len(s) : f[i] \in 1 .. Len(Append(t, c))
    BY <1>2
  <2> QED
    BY <2>1
<1>4. \A i \in 1 .. Len(s) : s[i] = Append(t, c)[f[i]]
  BY <1>1, SeqAppend
<1> QED
  BY <1>1, <1>3, <1>4 DEF Subsequence

\* A copy with gaps, replied to, has the same gaps.
LEMMA SubsequenceReplied ==
    ASSUME NEW T, NEW s \in Seq(T), NEW t \in Seq(T), NEW c \in T, Subsequence(s, t)
    PROVE  Subsequence(Append(s, c), Append(t, c))
<1>1. PICK f \in [1 .. Len(s) -> 1 .. Len(t)] :
        /\ \A i, j \in 1 .. Len(s) : i < j => f[i] < f[j]
        /\ \A i \in 1 .. Len(s) : s[i] = t[f[i]]
  BY DEF Subsequence
<1> DEFINE g == [i \in 1 .. (Len(s) + 1) |-> IF i = Len(s) + 1 THEN Len(t) + 1 ELSE f[i]]
<1>2. /\ Len(Append(t, c)) = Len(t) + 1 /\ Len(t) \in Nat
      /\ Len(Append(s, c)) = Len(s) + 1 /\ Len(s) \in Nat
  OBVIOUS
<1>3. \A i \in 1 .. (Len(s) + 1) : i # Len(s) + 1 => i \in 1 .. Len(s) /\ f[i] \in 1 .. Len(t)
  BY <1>2
<1>4. g \in [1 .. (Len(s) + 1) -> 1 .. (Len(t) + 1)]
  BY <1>2, <1>3
<1>5. \A i, j \in 1 .. (Len(s) + 1) : i < j => g[i] < g[j]
  BY <1>1, <1>2, <1>3
<1>6. \A i \in 1 .. (Len(s) + 1) : Append(s, c)[i] = Append(t, c)[g[i]]
  <2>1. /\ \A i \in 1 .. Len(s) : Append(s, c)[i] = s[i]
        /\ Append(s, c)[Len(s) + 1] = c
        /\ \A i \in 1 .. Len(t) : Append(t, c)[i] = t[i]
        /\ Append(t, c)[Len(t) + 1] = c
    BY SeqAppend
  <2> QED
    BY <1>1, <1>3, <2>1
<1> HIDE DEF g
<1> QED
  BY <1>2, <1>4, <1>5, <1>6 DEF Subsequence

-----------------------------------------------------------------------------
(* Comments stay in order.                                                   *)

\* The arrays that are what was said to d, some of it left out.
Ordered(d) == {comments \in Values : Subsequence(comments, said[d])}

\* The comments view is never up without the message it belongs to.
ThreadAboveMessage == \A p \in Phones : thread[p] # Absent => message[p] # Absent

InOrder(d, S) ==
    /\ HoldsOnly(d, S)
    /\ ShowsOnly(d, S)
    /\ \A p \in Phones : ThreadOpen(p) /\ message[p].doc = d => thread[p] \in S

LEMMA OrderIsPerDocument == CommentsInOrder <=> \A d \in Docs : InOrder(d, Ordered(d))
BY DEF CommentsInOrder, InOrder, Ordered

LEMMA AboveStep == TypeOK /\ ThreadAboveMessage /\ [Next]_vars => ThreadAboveMessage'
<1> SUFFICES ASSUME TypeOK, ThreadAboveMessage, [Next]_vars PROVE ThreadAboveMessage'
  OBVIOUS
<1> USE DEF ThreadAboveMessage
<1>1. CASE UNCHANGED vars
  BY <1>1 DEF vars, screenVars
<1>2. ASSUME NEW p \in Phones, OpenComments(p) \/ CloseComments(p) PROVE ThreadAboveMessage'
  BY <1>2 DEF OpenComments, CloseComments, screenVars, TypeOK
<1>3. ASSUME NEW p \in Phones, Reply(p) PROVE ThreadAboveMessage'
  BY <1>3 DEF Reply, ThreadOpen, screenVars, TypeOK
<1>4. ASSUME NEW p \in Phones, Look(p) PROVE ThreadAboveMessage'
  <2>1. UNCHANGED thread
    BY <1>4 DEF Look
  <2>2. ASSUME ScreenStep(p) \/ StoreStep(p)
        PROVE  \A q \in Phones : message[q] # Absent => message'[q] = message[q]
    BY <2>2 DEF ScreenStep, StoreStep, ListRefresh, ImageArrives, ImageFails, DeliverFetch,
                screenVars, TypeOK, ScreensTypeOK
  <2>3. ASSUME NavigationStep(p)
        PROVE  \A q \in Phones \ {p} : message'[q] = message[q]
    BY <2>3 DEF NavigationStep, SwitchTab, SelectYak, CloseMessage, TypeOK, ScreensTypeOK
  <2> QED
    BY <1>4, <2>1, <2>2, <2>3 DEF Look
<1>5. ASSUME NEW p \in Phones, DeliverComments(p) \/ LoseCalls(p) PROVE ThreadAboveMessage'
  BY <1>5 DEF DeliverComments, LoseCalls, screenVars
<1>6. ASSUME NEW p \in Phones, Relaunch(p) PROVE ThreadAboveMessage'
  BY <1>6 DEF Relaunch, RestartScreens, TypeOK, ScreensTypeOK
<1> QED
  BY <1>1, <1>2, <1>3, <1>4, <1>5, <1>6 DEF Next

\* Steps other than a reply pass on the arrays there are.
LEMMA StepKeepsOrder ==
    ASSUME TypeOK, ThreadAboveMessage, [Next]_vars, \A p \in Phones : ~Reply(p),
           NEW d \in Docs, NEW S, InOrder(d, S)
    PROVE  InOrder(d, S)'
<1>0. ClientTypeOK /\ ScreensTypeOK /\ HoldsOnly(d, S) /\ ShowsOnly(d, S)
  BY DEF TypeOK, InOrder
<1> DEFINE ThreadsIn == \A q \in Phones : ThreadOpen(q) /\ message[q].doc = d => thread[q] \in S
<1>1. ThreadsIn
  BY DEF InOrder
<1>2. ASSUME UNCHANGED screenVars PROVE ShowsOnly(d, S)'
  BY <1>0, <1>2 DEF ShowsOnly, screenVars
<1>3. ASSUME UNCHANGED <<thread, message>> PROVE ThreadsIn'
  BY <1>1, <1>3 DEF ThreadOpen
<1>4. CASE UNCHANGED vars
  BY <1>0, <1>2, <1>3, <1>4, IdleHoldsOnly DEF vars, screenVars, InOrder
<1>5. ASSUME NEW p \in Phones, OpenComments(p) PROVE InOrder(d, S)'
  <2>1. message[p].doc = d => message[p].value \in S
    BY <1>0, <1>5 DEF OpenComments, ShowsOnly
  <2>2. ThreadsIn'
    BY <1>1, <1>5, <2>1 DEF OpenComments, ThreadOpen, screenVars, TypeOK
  <2> QED
    BY <1>0, <1>2, <1>5, <2>2, IdleHoldsOnly DEF OpenComments, InOrder
<1>6. ASSUME NEW p \in Phones, CloseComments(p) PROVE InOrder(d, S)'
  <2>1. ThreadsIn'
    BY <1>1, <1>6 DEF CloseComments, ThreadOpen, screenVars, TypeOK
  <2> QED
    BY <1>0, <1>2, <1>6, <2>1, IdleHoldsOnly DEF CloseComments, InOrder
<1>7. ASSUME NEW p \in Phones, Look(p) PROVE InOrder(d, S)'
  <2>1. HoldsOnly(d, S)' /\ ShowsOnly(d, S)'
    BY <1>0, <1>7, LookShowsOnly DEF Look, LookStep
  <2>2. UNCHANGED thread
    BY <1>7 DEF Look
  <2>3. ASSUME ScreenStep(p) \/ StoreStep(p)
        PROVE  \A q \in Phones : message[q] # Absent => message'[q] = message[q]
    BY <1>0, <2>3 DEF ScreenStep, StoreStep, ListRefresh, ImageArrives, ImageFails,
                      DeliverFetch, screenVars, ScreensTypeOK
  <2>4. ASSUME NavigationStep(p)
        PROVE  \A q \in Phones \ {p} : message'[q] = message[q]
    BY <1>0, <2>4 DEF NavigationStep, SwitchTab, SelectYak, CloseMessage, ScreensTypeOK
  <2>5. \A q \in Phones : thread[q] # Absent => message'[q] = message[q] /\ message[q] # Absent
    BY <1>7, <2>3, <2>4 DEF Look, ThreadAboveMessage
  <2>6. ThreadsIn'
    BY <1>1, <2>2, <2>5 DEF ThreadOpen
  <2> QED
    BY <2>1, <2>6 DEF InOrder
<1>8. ASSUME NEW p \in Phones, DeliverComments(p) PROVE InOrder(d, S)'
  BY <1>0, <1>2, <1>3, <1>8, CallbackHoldsOnly DEF DeliverComments, screenVars, InOrder
<1>9. ASSUME NEW p \in Phones, LoseCalls(p) PROVE InOrder(d, S)'
  BY <1>0, <1>2, <1>3, <1>9, LossHoldsOnly DEF LoseCalls, screenVars, InOrder
<1>10. ASSUME NEW p \in Phones, Relaunch(p) PROVE InOrder(d, S)'
  <2>1. ThreadsIn'
    BY <1>1, <1>10 DEF Relaunch, RestartScreens, ThreadOpen, TypeOK, ScreensTypeOK
  <2> QED
    BY <1>0, <1>10, <2>1, RestartShowsOnly DEF Relaunch, InOrder
<1> QED
  BY <1>4, <1>5, <1>6, <1>7, <1>8, <1>9, <1>10 DEF Next

\* A reply makes one new array, and every array there was is still in order.
LEMMA ReplyKeepsOrder ==
    ASSUME TypeOK, NEW p \in Phones, Reply(p), NEW e \in Docs, InOrder(e, Ordered(e))
    PROVE  InOrder(e, Ordered(e))'
<1>1. PICK d \in Docs, text \in Texts, comments \in Values :
        /\ d = message[p].doc /\ ThreadOpen(p) /\ thread[p] \in Values
        /\ comments = Append(thread[p], text)
        /\ thread' = [thread EXCEPT ![p] = comments]
        /\ Update(d, comments) \in Requests
        /\ GetDocuments(p, Update(d, comments))
        /\ said' = [said EXCEPT ![d] = Append(@, text)]
        /\ UNCHANGED screenVars
  BY ReplyIs
<1>2. PICK S : S = Ordered(e)
  OBVIOUS
<1>3. PICK T : T = Ordered(e)'
  OBVIOUS
<1>4. said[e] \in Seq(Texts) /\ said'[e] = IF e = d THEN Append(said[e], text) ELSE said[e]
  BY <1>1 DEF TypeOK
<1>5. S \subseteq T
  BY <1>2, <1>3, <1>4, CommentsAssumption, SubsequenceOfMore DEF Ordered
<1>6. e = d => comments \in T
  <2>1. e = d => thread[p] \in S
    BY <1>1, <1>2 DEF InOrder
  <2>2. e = d => Subsequence(thread[p], said[e])
    BY <1>2, <2>1 DEF Ordered
  <2>3. thread[p] \in Seq(Texts)
    BY <1>1, CommentsAssumption
  <2>4. e = d => Subsequence(comments, said'[e])
    BY <1>1, <1>4, <2>2, <2>3, SubsequenceReplied
  <2> QED
    BY <1>3, <2>4 DEF Ordered
<1>7. HoldsOnly(e, T) /\ ShowsOnly(e, T)
  BY <1>2, <1>5, HoldsMore, ShowsMore DEF InOrder
<1>8. HoldsOnly(e, T)'
  <2>1. Carries(Update(d, comments), e, T)
    BY <1>6 DEF Carries, IsUpdate, Update
  <2> QED
    BY <1>1, <1>7, <2>1, AskHoldsOnly DEF TypeOK
<1>9. ShowsOnly(e, T)'
  BY <1>1, <1>7 DEF ShowsOnly, screenVars
<1>10. \A q \in Phones : (ThreadOpen(q) /\ message[q].doc = e)' => thread'[q] \in T
  <2>1. \A q \in Phones : ThreadOpen(q) /\ message[q].doc = e => thread[q] \in T
    BY <1>2, <1>5 DEF InOrder
  <2>2. message' = message
    BY <1>1 DEF screenVars
  <2> QED
    BY <1>1, <1>6, <2>1, <2>2 DEF ThreadOpen, TypeOK
<1> QED
  BY <1>3, <1>8, <1>9, <1>10 DEF InOrder

LEMMA OrderStep ==
    TypeOK /\ ThreadAboveMessage /\ CommentsInOrder /\ [Next]_vars => CommentsInOrder'
<1> SUFFICES ASSUME TypeOK, ThreadAboveMessage, CommentsInOrder, [Next]_vars
             PROVE  CommentsInOrder'
  OBVIOUS
<1>1. \A d \in Docs : InOrder(d, Ordered(d))
  BY OrderIsPerDocument
<1>2. ASSUME NEW d \in Docs PROVE InOrder(d, Ordered(d))'
  <2>1. CASE \E p \in Phones : Reply(p)
    BY <1>1, <2>1, ReplyKeepsOrder
  <2>2. CASE \A p \in Phones : ~Reply(p)
    <3>1. PICK S : S = Ordered(d)
      OBVIOUS
    <3>2. said' = said
      BY <2>2 DEF Next, vars, OpenComments, CloseComments, Look, DeliverComments, LoseCalls,
                  Relaunch
    <3>3. Ordered(d)' = S
      BY <3>1, <3>2 DEF Ordered
    <3>4. InOrder(d, S)'
      BY <1>1, <2>2, <3>1, StepKeepsOrder
    <3> QED
      BY <3>3, <3>4
  <2> QED
    BY <2>1, <2>2
<1> QED
  BY <1>2, OrderIsPerDocument DEF CommentsInOrder, InOrder, Ordered

LEMMA OrderInit == Init => CommentsInOrder /\ ThreadAboveMessage
<1> SUFFICES ASSUME Init PROVE CommentsInOrder /\ ThreadAboveMessage
  OBVIOUS
<1>1. ThreadAboveMessage
  BY DEF Init, ThreadAboveMessage
<1>2. ASSUME NEW d \in Docs PROVE InOrder(d, Ordered(d))
  <2>1. server \in Snapshots /\ said = server
    BY DEF Init, ClientInit
  <2>2. server[d] \in Values /\ server[d] \in Seq(Texts)
    BY <2>1, CommentsAssumption DEF Snapshots
  <2>3. server[d] \in Ordered(d)
    BY <2>1, <2>2, SubsequenceSelf DEF Ordered
  <2>4. HoldsOnly(d, Ordered(d))
    BY <2>3 DEF Init, ClientInit, HoldsOnly
  <2>5. ShowsOnly(d, Ordered(d))
    BY DEF Init, ScreensInit, ShowsOnly, NoRows
  <2> QED
    BY <2>4, <2>5 DEF InOrder, Init, ThreadOpen
<1> QED
  BY <1>1, <1>2, OrderIsPerDocument

\* Whatever the phones do to each other's comments, with copies of any age and
\* calls lost at any point: no array of comments anywhere has a comment nobody
\* wrote, one comment twice, or two comments in the wrong order.
THEOREM CommentsStayInOrder == Spec => []CommentsInOrder
BY OrderInit, TypeInit, TypeStep, AboveStep, OrderStep, PTL DEF Spec

=============================================================================
