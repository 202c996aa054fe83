--------------------------- MODULE YakScreensProofs ---------------------------
(***************************************************************************)
(* Proofs about the store client and the screens, for any phones, documents *)
(* (yaks), values and bounds.                                               *)
(*                                                                         *)
(* The client: its types, and where a document comes to rest.  An update     *)
(* travels through three queues of its phone, asked, answered and writes,   *)
(* and never overtakes an older one.  The module of a component that uses   *)
(* the client cites these lemmas for the client's part of its steps.        *)
(*                                                                         *)
(* The screens: the types their steps keep, that looking at yaks never       *)
(* disturbs where a document comes to rest, and that a presented message has *)
(* its image.                                                               *)
(***************************************************************************)
EXTENDS YakScreens, SequenceTheorems, TLAPS

-----------------------------------------------------------------------------
(* The client's types.                                                       *)

\* What a request can be.
LEMMA RequestTypes ==
    /\ \A s \in Screens : Fetch(s) \in Requests
    /\ \A d \in Docs, v \in Values : Update(d, v) \in Requests
    /\ \A req \in Requests :
          req.kind = "update" => req.doc \in Docs /\ req.value \in Values
    /\ \A req \in Requests : req.kind = "fetch" => req.screen \in Screens
BY DEF Requests, Fetch, Update

\* The first answered call, while there is one.
LEMMA HeadAnswer ==
    ASSUME ClientTypeOK, NEW p \in Phones, answered[p] # <<>>
    PROVE  /\ Head(answered[p]) \in Answers
           /\ Head(answered[p]).req \in Requests
           /\ Head(answered[p]).snapshot \in Snapshots
           /\ Tail(answered[p]) \in Seq(Answers)
<1>1. Head(answered[p]) \in Answers /\ Tail(answered[p]) \in Seq(Answers)
  BY DEF ClientTypeOK
<1> QED
  BY <1>1 DEF Answers

LEMMA GetDocumentsType ==
    ASSUME ClientTypeOK, NEW p \in Phones, NEW req \in Requests, GetDocuments(p, req)
    PROVE  ClientTypeOK'
BY DEF ClientTypeOK, GetDocuments

LEMMA AnswerType ==
    ASSUME ClientTypeOK, NEW p \in Phones, Answer(p)
    PROVE  ClientTypeOK'
<1> USE DEF ClientTypeOK
<1>1. Synced(p) \in Snapshots
  BY DEF Synced, Snapshots
<1>2. PICK snapshot \in {view[p], Synced(p)} :
        /\ view' = [view EXCEPT ![p] = snapshot]
        /\ answered' = [answered EXCEPT ![p] =
               Append(@, [req |-> Head(asked[p]), snapshot |-> snapshot])]
  BY DEF Answer
<1>3. snapshot \in Snapshots
  BY <1>1
<1>4. Head(asked[p]) \in Requests /\ Tail(asked[p]) \in Seq(Requests)
  BY DEF Answer
<1>5. [req |-> Head(asked[p]), snapshot |-> snapshot] \in Answers
  BY <1>3, <1>4 DEF Answers
<1> QED
  BY <1>2, <1>3, <1>4, <1>5 DEF Answer

\* The next write of the pipeline, while there is one.
LEMMA NextWrite ==
    ASSUME ClientTypeOK, NEW p \in Phones, taken[p] < Len(writes[p])
    PROVE  /\ taken[p] + 1 \in DOMAIN writes[p]
           /\ writes[p][taken[p] + 1] \in Writes
           /\ writes[p][taken[p] + 1].doc \in Docs
           /\ writes[p][taken[p] + 1].value \in Values
<1>1. writes[p] \in Seq(Writes) /\ taken[p] \in Nat
  BY DEF ClientTypeOK
<1>2. taken[p] + 1 \in 1 .. Len(writes[p]) /\ DOMAIN writes[p] = 1 .. Len(writes[p])
  BY <1>1
<1>3. writes[p][taken[p] + 1] \in Writes
  BY <1>1, <1>2
<1> QED
  BY <1>2, <1>3 DEF Writes

LEMMA CommitType ==
    ASSUME ClientTypeOK, NEW p \in Phones, Commit(p)
    PROVE  ClientTypeOK'
<1> DEFINE w == writes[p][taken[p] + 1]
<1>1. w.doc \in Docs /\ w.value \in Values
  BY NextWrite DEF Commit
<1>2. server' = [server EXCEPT ![w.doc] = w.value]
  BY DEF Commit
<1> HIDE DEF w
<1>3. server' \in Snapshots
  BY <1>1, <1>2 DEF ClientTypeOK, Snapshots
<1>4. /\ taken' = [taken EXCEPT ![p] = @ + 1]
      /\ UNCHANGED <<view, asked, answered, writes>>
      /\ taken[p] < Len(writes[p]) /\ Len(writes[p]) \in Nat
  BY DEF Commit, ClientTypeOK
<1>5. taken' \in [Phones -> Nat] /\ \A q \in Phones : taken'[q] <= Len(writes[q])
  BY <1>4 DEF ClientTypeOK
<1> QED
  BY <1>3, <1>4, <1>5 DEF ClientTypeOK

LEMMA AcknowledgeType ==
    ASSUME ClientTypeOK, NEW p \in Phones, Acknowledge(p)
    PROVE  ClientTypeOK'
<1>1. /\ taken[p] > 0 /\ taken[p] \in Nat /\ taken[p] <= Len(writes[p])
      /\ writes[p] \in Seq(Writes) /\ Len(writes[p]) \in Nat
  BY DEF Acknowledge, ClientTypeOK
<1>2. writes[p] # <<>>
  BY <1>1
<1>3. Tail(writes[p]) \in Seq(Writes) /\ Len(Tail(writes[p])) = Len(writes[p]) - 1
  BY <1>1, <1>2
<1>4. /\ writes' = [writes EXCEPT ![p] = Tail(@)]
      /\ taken' = [taken EXCEPT ![p] = @ - 1]
      /\ UNCHANGED <<server, view, asked, answered>>
  BY DEF Acknowledge
<1>5. writes' \in [Phones -> Seq(Writes)] /\ taken' \in [Phones -> Nat]
  BY <1>1, <1>3, <1>4 DEF ClientTypeOK
<1>6. \A q \in Phones : taken'[q] <= Len(writes'[q])
  BY <1>1, <1>3, <1>4 DEF ClientTypeOK
<1> QED
  BY <1>4, <1>5, <1>6 DEF ClientTypeOK

LEMMA ReconnectType ==
    ASSUME ClientTypeOK, NEW p \in Phones, Reconnect(p)
    PROVE  ClientTypeOK'
<1>1. \A q \in Phones : Len(writes[q]) \in Nat
  BY DEF ClientTypeOK
<1> QED
  BY <1>1 DEF Reconnect, ClientTypeOK

LEMMA FetchCallbackType ==
    ASSUME ClientTypeOK, NEW p \in Phones, FetchCallback(p)
    PROVE  ClientTypeOK' /\ Head(answered[p]).req.screen \in Screens
<1>1. answered[p] # <<>>
  BY DEF FetchCallback
<1>2. ClientTypeOK'
  BY <1>1, HeadAnswer DEF FetchCallback, ClientTypeOK
<1>3. Head(answered[p]).req.screen \in Screens
  BY <1>1, HeadAnswer, RequestTypes DEF FetchCallback
<1> QED
  BY <1>2, <1>3

LEMMA UpdateCallbackType ==
    ASSUME ClientTypeOK, NEW p \in Phones, UpdateCallback(p)
    PROVE  ClientTypeOK'
<1>1. answered[p] # <<>>
  BY DEF UpdateCallback
<1> DEFINE req == Head(answered[p]).req
<1>2. req.doc \in Docs /\ req.value \in Values
  BY <1>1, HeadAnswer, RequestTypes DEF UpdateCallback
<1>3. /\ writes' = [writes EXCEPT ![p] = Append(@, [doc |-> req.doc, value |-> req.value])]
      /\ view' = [view EXCEPT ![p][req.doc] = req.value]
  BY DEF UpdateCallback
<1>4. writes' \in [Phones -> Seq(Writes)] /\ view' \in [Phones -> Snapshots]
  <2> HIDE DEF req
  <2>1. [doc |-> req.doc, value |-> req.value] \in Writes
    BY <1>2 DEF Writes
  <2> QED
    BY <1>2, <1>3, <2>1 DEF ClientTypeOK, Snapshots
<1>5. answered' \in [Phones -> Seq(Answers)]
  BY <1>1, HeadAnswer DEF UpdateCallback, ClientTypeOK
<1>6. \A q \in Phones : taken'[q] <= Len(writes'[q])
  <2>1. writes[p] \in Seq(Writes) /\ taken[p] \in Nat /\ taken[p] <= Len(writes[p])
    BY DEF ClientTypeOK
  <2>2. Len(writes'[p]) = Len(writes[p]) + 1 /\ Len(writes[p]) \in Nat
    <3>1. \A e : Len(Append(writes[p], e)) = Len(writes[p]) + 1
      BY <2>1
    <3> QED
      BY <1>3, <2>1, <3>1 DEF ClientTypeOK
  <2>3. taken' = taken /\ \A q \in Phones \ {p} : writes'[q] = writes[q]
    BY <1>3 DEF UpdateCallback, ClientTypeOK
  <2>4. taken'[p] <= Len(writes'[p])
    BY <2>1, <2>2, <2>3
  <2>5. \A q \in Phones \ {p} : taken'[q] <= Len(writes'[q])
    BY <2>3 DEF ClientTypeOK
  <2> QED
    BY <2>4, <2>5
<1> QED
  BY <1>4, <1>5, <1>6 DEF UpdateCallback, ClientTypeOK

\* Calls that are lost, with or without the process, leave the types alone.
LEMMA LossType ==
    ASSUME ClientTypeOK, NEW p \in Phones, FailCalls(p) \/ EndProcess(p)
    PROVE  ClientTypeOK'
<1>1. asked' \in [Phones -> Seq(Requests)]
  <2>1. asked' = [asked EXCEPT ![p] = <<>>] /\ <<>> \in Seq(Requests)
    BY DEF FailCalls, EndProcess
  <2> QED
    BY <2>1 DEF ClientTypeOK
<1>2. answered' \in [Phones -> Seq(Answers)]
  <2>1. answered' = answered \/ answered' = [answered EXCEPT ![p] = <<>>]
    BY DEF FailCalls, EndProcess
  <2>2. <<>> \in Seq(Answers)
    OBVIOUS
  <2> QED
    BY <2>1, <2>2 DEF ClientTypeOK
<1>3. UNCHANGED <<server, view, writes>>
  BY DEF FailCalls, EndProcess
<1>4. taken' \in [Phones -> Nat] /\ \A q \in Phones : taken'[q] <= Len(writes[q])
  <2>1. taken' = taken \/ taken' = [taken EXCEPT ![p] = 0]
    BY DEF FailCalls, EndProcess
  <2>2. \A q \in Phones : writes[q] \in Seq(Writes)
    BY DEF ClientTypeOK
  <2>3. \A q \in Phones : Len(writes[q]) \in Nat
    BY <2>2
  <2>4. taken \in [Phones -> Nat] /\ \A q \in Phones : taken[q] <= Len(writes[q])
    BY DEF ClientTypeOK
  <2>5. \A q \in Phones : 0 <= Len(writes[q])
    BY <2>3
  <2> QED
    BY <2>1, <2>4, <2>5
<1> QED
  BY <1>1, <1>2, <1>3, <1>4 DEF ClientTypeOK

-----------------------------------------------------------------------------
(* Queues.                                                                   *)

\* Appending keeps the old elements at their places.
LEMMA SeqAppend ==
    ASSUME NEW S, NEW s \in Seq(S), NEW e \in S
    PROVE  /\ Append(s, e) \in Seq(S)
           /\ DOMAIN s = 1 .. Len(s) /\ Len(s) \in Nat
           /\ DOMAIN Append(s, e) = 1 .. (Len(s) + 1)
           /\ \A i \in 1 .. Len(s) : Append(s, e)[i] = s[i]
           /\ Append(s, e)[Len(s) + 1] = e
OBVIOUS

\* Taking the first element away moves the others down by one.
LEMMA SeqTail ==
    ASSUME NEW S, NEW s \in Seq(S), s # <<>>
    PROVE  /\ Tail(s) \in Seq(S)
           /\ Head(s) = s[1] /\ Head(s) \in S
           /\ DOMAIN s = 1 .. Len(s) /\ Len(s) \in Nat \ {0}
           /\ DOMAIN Tail(s) = 1 .. (Len(s) - 1)
           /\ \A i \in 1 .. (Len(s) - 1) : Tail(s)[i] = s[i + 1]
OBVIOUS

\* The places of updates of e when a call is appended to asked.
LEMMA AskedAppend ==
    ASSUME ClientTypeOK, NEW p \in Phones, NEW req \in Requests, NEW e \in Docs,
           asked' = [asked EXCEPT ![p] = Append(@, req)]
    PROVE  /\ AskedFor(p, e)' =
                 AskedFor(p, e) \cup (IF IsUpdate(req, e) THEN {Len(asked[p]) + 1} ELSE {})
           /\ \A i \in AskedFor(p, e) : asked[p]'[i] = asked[p][i] /\ i \in 1 .. Len(asked[p])
           /\ asked[p]'[Len(asked[p]) + 1] = req
           /\ Len(asked[p]) \in Nat
           /\ \A q \in Phones \ {p} : asked[q]' = asked[q]
<1>1. asked \in [Phones -> Seq(Requests)] /\ asked[p] \in Seq(Requests)
  BY DEF ClientTypeOK
<1>2. asked[p]' = Append(asked[p], req)
  BY <1>1
<1>3. \A q \in Phones \ {p} : asked[q]' = asked[q]
  BY <1>1
<1> QED
  BY <1>1, <1>2, <1>3, SeqAppend DEF AskedFor

LEMMA AskedTail ==
    ASSUME ClientTypeOK, NEW p \in Phones, NEW e \in Docs, asked[p] # <<>>,
           asked' = [asked EXCEPT ![p] = Tail(@)]
    PROVE  /\ \A i \in AskedFor(p, e)' :
                 i \in Nat \ {0} /\ i + 1 \in AskedFor(p, e) /\ asked[p]'[i] = asked[p][i + 1]
           /\ \A i \in AskedFor(p, e) :
                 /\ i \in Nat \ {0}
                 /\ i = 1 => IsUpdate(Head(asked[p]), e) /\ Head(asked[p]) = asked[p][i]
                 /\ i # 1 => i - 1 \in AskedFor(p, e)'
           /\ IsUpdate(Head(asked[p]), e) => 1 \in AskedFor(p, e)
           /\ \A q \in Phones \ {p} : asked[q]' = asked[q]
<1>1. asked \in [Phones -> Seq(Requests)] /\ asked[p] \in Seq(Requests)
  BY DEF ClientTypeOK
<1>2. asked[p]' = Tail(asked[p])
  BY <1>1
<1>3. \A q \in Phones \ {p} : asked[q]' = asked[q]
  BY <1>1
<1> QED
  BY <1>1, <1>2, <1>3, SeqTail DEF AskedFor

LEMMA AnsweredAppend ==
    ASSUME ClientTypeOK, NEW p \in Phones, NEW a \in Answers, NEW e \in Docs,
           answered' = [answered EXCEPT ![p] = Append(@, a)]
    PROVE  /\ AnsweredFor(p, e)' =
                 AnsweredFor(p, e) \cup (IF IsUpdate(a.req, e) THEN {Len(answered[p]) + 1} ELSE {})
           /\ \A i \in AnsweredFor(p, e) :
                 answered[p]'[i] = answered[p][i] /\ i \in 1 .. Len(answered[p])
           /\ answered[p]'[Len(answered[p]) + 1] = a
           /\ Len(answered[p]) \in Nat
           /\ \A q \in Phones \ {p} : answered[q]' = answered[q]
<1>1. answered \in [Phones -> Seq(Answers)] /\ answered[p] \in Seq(Answers)
  BY DEF ClientTypeOK
<1>2. answered[p]' = Append(answered[p], a)
  BY <1>1
<1>3. \A q \in Phones \ {p} : answered[q]' = answered[q]
  BY <1>1
<1> QED
  BY <1>1, <1>2, <1>3, SeqAppend DEF AnsweredFor

LEMMA AnsweredTail ==
    ASSUME ClientTypeOK, NEW p \in Phones, NEW e \in Docs, answered[p] # <<>>,
           answered' = [answered EXCEPT ![p] = Tail(@)]
    PROVE  /\ \A i \in AnsweredFor(p, e)' :
                 /\ i \in Nat \ {0} /\ i + 1 \in AnsweredFor(p, e)
                 /\ answered[p]'[i] = answered[p][i + 1]
           /\ \A i \in AnsweredFor(p, e) :
                 /\ i \in Nat \ {0}
                 /\ i = 1 => /\ IsUpdate(Head(answered[p]).req, e)
                             /\ Head(answered[p]) = answered[p][i]
                 /\ i # 1 => i - 1 \in AnsweredFor(p, e)'
           /\ IsUpdate(Head(answered[p]).req, e) => 1 \in AnsweredFor(p, e)
           /\ \A q \in Phones \ {p} : answered[q]' = answered[q]
<1>1. answered \in [Phones -> Seq(Answers)] /\ answered[p] \in Seq(Answers)
  BY DEF ClientTypeOK
<1>2. answered[p]' = Tail(answered[p])
  BY <1>1
<1>3. \A q \in Phones \ {p} : answered[q]' = answered[q]
  BY <1>1
<1> QED
  BY <1>1, <1>2, <1>3, SeqTail DEF AnsweredFor

LEMMA WritesAppend ==
    ASSUME ClientTypeOK, NEW p \in Phones, NEW w \in Writes, NEW e \in Docs,
           writes' = [writes EXCEPT ![p] = Append(@, w)]
    PROVE  /\ WritesFor(p, e)' =
                 WritesFor(p, e) \cup (IF w.doc = e THEN {Len(writes[p]) + 1} ELSE {})
           /\ \A i \in WritesFor(p, e) :
                 writes[p]'[i] = writes[p][i] /\ i \in 1 .. Len(writes[p])
           /\ writes[p]'[Len(writes[p]) + 1] = w
           /\ Len(writes[p]) \in Nat
           /\ \A q \in Phones \ {p} : writes[q]' = writes[q]
<1>1. writes \in [Phones -> Seq(Writes)] /\ writes[p] \in Seq(Writes)
  BY DEF ClientTypeOK
<1>2. writes[p]' = Append(writes[p], w)
  BY <1>1
<1>3. \A q \in Phones \ {p} : writes[q]' = writes[q]
  BY <1>1
<1> QED
  BY <1>1, <1>2, <1>3, SeqAppend DEF WritesFor

LEMMA WritesTail ==
    ASSUME ClientTypeOK, NEW p \in Phones, NEW e \in Docs, writes[p] # <<>>,
           writes' = [writes EXCEPT ![p] = Tail(@)]
    PROVE  /\ \A i \in WritesFor(p, e)' :
                 i \in Nat \ {0} /\ i + 1 \in WritesFor(p, e) /\ writes[p]'[i] = writes[p][i + 1]
           /\ \A i \in WritesFor(p, e) :
                 /\ i \in Nat \ {0}
                 /\ i = 1 => Head(writes[p]).doc = e /\ Head(writes[p]) = writes[p][i]
                 /\ i # 1 => i - 1 \in WritesFor(p, e)'
           /\ Head(writes[p]).doc = e => 1 \in WritesFor(p, e)
           /\ \A q \in Phones \ {p} : writes[q]' = writes[q]
<1>1. writes \in [Phones -> Seq(Writes)] /\ writes[p] \in Seq(Writes)
  BY DEF ClientTypeOK
<1>2. writes[p]' = Tail(writes[p])
  BY <1>1
<1>3. \A q \in Phones \ {p} : writes[q]' = writes[q]
  BY <1>1
<1> QED
  BY <1>1, <1>2, <1>3, SeqTail DEF WritesFor

-----------------------------------------------------------------------------
(* Where a document comes to rest, one lemma per way a queue moves.          *)

\* A phone whose queues do not move keeps what is known of its updates.
LEMMA PhoneFrame ==
    ASSUME NEW q \in Phones, NEW e \in Docs, NEW v,
           asked[q]' = asked[q], answered[q]' = answered[q], writes[q]' = writes[q]
    PROVE  /\ InFlight(q, e)' <=> InFlight(q, e)
           /\ NewestCarries(q, e, v)' <=> NewestCarries(q, e, v)
<1>1. /\ AskedFor(q, e)' = AskedFor(q, e)
      /\ AnsweredFor(q, e)' = AnsweredFor(q, e)
      /\ WritesFor(q, e)' = WritesFor(q, e)
  BY DEF AskedFor, AnsweredFor, WritesFor
<1> QED
  BY <1>1 DEF InFlight, NewestCarries, Newest

\* A step that moves the queues of p alone keeps the resting point of e if it
\* keeps what is known of p's updates.
LEMMA LocalStep ==
    ASSUME NEW p \in Phones, NEW e \in Docs, NEW v, ComesToRestAt(e, v),
           \A q \in Phones \ {p} :
              /\ asked[q]' = asked[q] /\ answered[q]' = answered[q]
              /\ writes[q]' = writes[q] /\ taken[q]' = taken[q],
           InFlight(p, e)' => InFlight(p, e),
           NewestCarries(p, e, v)',
           NewestTaken(p, e)',
           \/ /\ InFlight(p, e)' <=> InFlight(p, e)
              /\ server[e]' = server[e]
           \/ InFlight(p, e) /\ (InFlight(p, e)' \/ server[e]' = v)
    PROVE  ComesToRestAt(e, v)'
<1>1. \A q \in Phones \ {p} : /\ InFlight(q, e)' <=> InFlight(q, e)
                              /\ NewestCarries(q, e, v)' <=> NewestCarries(q, e, v)
  BY PhoneFrame
<1>2. \A q, r \in Phones : InFlight(q, e)' /\ InFlight(r, e)' => q = r
  BY <1>1 DEF ComesToRestAt
<1>3. ASSUME \A q \in Phones : ~InFlight(q, e)' PROVE server[e]' = v
  BY <1>1, <1>3 DEF ComesToRestAt
<1>4. \A q \in Phones : NewestCarries(q, e, v)'
  BY <1>1 DEF ComesToRestAt
<1>5. ASSUME NEW q \in Phones \ {p} PROVE NewestTaken(q, e)'
  <2>1. WritesFor(q, e)' = WritesFor(q, e)
    BY DEF WritesFor
  <2>2. CASE server[e]' = server[e]
    BY <2>1, <2>2 DEF ComesToRestAt, NewestTaken, Newest
  <2>3. CASE InFlight(p, e)
    <3>1. WritesFor(q, e) = {}
      BY <2>3 DEF ComesToRestAt, InFlight
    <3> QED
      BY <2>1, <3>1 DEF NewestTaken
  <2> QED
    BY <2>2, <2>3
<1> QED
  BY <1>2, <1>3, <1>4, <1>5 DEF ComesToRestAt

\* A step that leaves the pipeline of p and the backend leaves what was taken.
LEMMA TakenFrame ==
    ASSUME NEW p \in Phones, NEW e \in Docs, NewestTaken(p, e),
           UNCHANGED <<server, writes, taken>>
    PROVE  NewestTaken(p, e)'
BY DEF NewestTaken, WritesFor, Newest

\* A pipeline of which nothing was taken has nothing to compare.
LEMMA NoneTaken ==
    ASSUME ClientTypeOK, NEW p \in Phones, NEW e \in Docs, UNCHANGED writes, taken[p]' = 0
    PROVE  NewestTaken(p, e)'
<1>1. WritesFor(p, e)' \subseteq Nat \ {0}
  <2>1. DOMAIN writes[p] = 1 .. Len(writes[p]) /\ Len(writes[p]) \in Nat
    BY DEF ClientTypeOK
  <2> QED
    BY <2>1 DEF WritesFor
<1>2. \A i \in WritesFor(p, e)' : ~ (i <= taken[p]')
  BY <1>1
<1> QED
  BY <1>2 DEF NewestTaken

\* A call that does not update e leaves e's resting point.
LEMMA AskKeepsRest ==
    ASSUME ClientTypeOK, NEW p \in Phones, NEW e \in Docs, NEW v, ComesToRestAt(e, v),
           NEW req \in Requests, GetDocuments(p, req), ~IsUpdate(req, e)
    PROVE  ComesToRestAt(e, v)'
<1>1. /\ asked' = [asked EXCEPT ![p] = Append(@, req)]
      /\ UNCHANGED <<server, answered, writes, taken>>
  BY DEF GetDocuments
<1>2. /\ AskedFor(p, e)' = AskedFor(p, e)
      /\ \A i \in AskedFor(p, e) : asked[p]'[i] = asked[p][i]
      /\ \A q \in Phones \ {p} : asked[q]' = asked[q]
  BY <1>1, AskedAppend
<1>3. /\ AnsweredFor(p, e)' = AnsweredFor(p, e)
      /\ WritesFor(p, e)' = WritesFor(p, e)
  BY <1>1 DEF AnsweredFor, WritesFor
<1>4. InFlight(p, e)' <=> InFlight(p, e)
  BY <1>2, <1>3 DEF InFlight
<1>5. NewestCarries(p, e, v)
  BY DEF ComesToRestAt
<1>6. NewestCarries(p, e, v)'
  BY <1>1, <1>2, <1>3, <1>5 DEF NewestCarries, Newest
<1>7. NewestTaken(p, e)'
  BY <1>1, TakenFrame DEF ComesToRestAt
<1> QED
  BY <1>1, <1>2, <1>4, <1>6, <1>7, LocalStep

\* An update of e to v makes v the resting point, unless another phone's update
\* of e is under way.
LEMMA AskSetsRest ==
    ASSUME ClientTypeOK, NEW p \in Phones, NEW e \in Docs, NEW v \in Values,
           GetDocuments(p, Update(e, v)), \A q \in Phones \ {p} : ~InFlight(q, e),
           NewestTaken(p, e)
    PROVE  ComesToRestAt(e, v)'
<1>1. /\ asked' = [asked EXCEPT ![p] = Append(@, Update(e, v))]
      /\ UNCHANGED <<server, answered, writes, taken>>
  BY DEF GetDocuments
<1>2. Update(e, v) \in Requests /\ IsUpdate(Update(e, v), e) /\ Update(e, v).value = v
  BY RequestTypes DEF Update, IsUpdate
<1>3. /\ AskedFor(p, e)' = AskedFor(p, e) \cup {Len(asked[p]) + 1}
      /\ \A i \in AskedFor(p, e) : i \in 1 .. Len(asked[p])
      /\ asked[p]'[Len(asked[p]) + 1] = Update(e, v)
      /\ Len(asked[p]) \in Nat
      /\ \A q \in Phones \ {p} : asked[q]' = asked[q]
  BY <1>1, <1>2, AskedAppend
<1>4. \A q \in Phones \ {p} : ~InFlight(q, e)'
  BY <1>1, <1>3, PhoneFrame
<1>5. \A q \in Phones \ {p} : NewestCarries(q, e, v)'
  BY <1>4 DEF InFlight, NewestCarries
<1>6. InFlight(p, e)'
  BY <1>3 DEF InFlight
<1>7. ASSUME NEW i \in AskedFor(p, e)', \A j \in AskedFor(p, e)' : j <= i
      PROVE  asked[p]'[i].value = v
  <2>1. i = Len(asked[p]) + 1
    <3>1. Len(asked[p]) + 1 \in AskedFor(p, e)'
      BY <1>3
    <3>2. Len(asked[p]) + 1 <= i
      BY <3>1, <1>7
    <3> QED
      BY <3>2, <1>3
  <2> QED
    BY <2>1, <1>2, <1>3
<1>8. NewestCarries(p, e, v)'
  BY <1>3, <1>7 DEF NewestCarries, Newest
<1>9. \A q \in Phones \ {p} : NewestTaken(q, e)'
  BY <1>4 DEF InFlight, NewestTaken
<1>10. NewestTaken(p, e)'
  BY <1>1, TakenFrame
<1> QED
  BY <1>4, <1>5, <1>6, <1>8, <1>9, <1>10 DEF ComesToRestAt

\* An answer moves the oldest call, and the update it may be, to the callbacks.
LEMMA AnswerKeepsRest ==
    ASSUME ClientTypeOK, NEW p \in Phones, NEW e \in Docs, NEW v, ComesToRestAt(e, v),
           Answer(p)
    PROVE  ComesToRestAt(e, v)'
<1>1. ComesToRestAt(e, v)
  OBVIOUS
<1>2. PICK snapshot \in {view[p], Synced(p)} :
        answered' = [answered EXCEPT ![p] =
            Append(@, [req |-> Head(asked[p]), snapshot |-> snapshot])]
  BY DEF Answer
<1> DEFINE a == [req |-> Head(asked[p]), snapshot |-> snapshot]
<1>3. /\ asked[p] # <<>> /\ asked' = [asked EXCEPT ![p] = Tail(@)]
      /\ UNCHANGED <<server, writes, taken>>
  BY DEF Answer
<1>4. a \in Answers /\ a.req = Head(asked[p])
  <2>1. view[p] \in Snapshots /\ Synced(p) \in Snapshots
    BY DEF ClientTypeOK, Synced, Snapshots
  <2>2. Head(asked[p]) \in Requests
    BY <1>3 DEF ClientTypeOK
  <2> QED
    BY <2>1, <2>2 DEF Answers
<1>5. answered' = [answered EXCEPT ![p] = Append(@, a)]
  BY <1>2
<1> HIDE DEF a
<1>6. /\ AnsweredFor(p, e)' =
           AnsweredFor(p, e) \cup (IF IsUpdate(a.req, e) THEN {Len(answered[p]) + 1} ELSE {})
      /\ \A i \in AnsweredFor(p, e) :
            answered[p]'[i] = answered[p][i] /\ i \in 1 .. Len(answered[p])
      /\ answered[p]'[Len(answered[p]) + 1] = a
      /\ Len(answered[p]) \in Nat
      /\ \A q \in Phones \ {p} : answered[q]' = answered[q]
  BY <1>4, <1>5, AnsweredAppend
<1>7. /\ \A i \in AskedFor(p, e)' :
            i \in Nat \ {0} /\ i + 1 \in AskedFor(p, e) /\ asked[p]'[i] = asked[p][i + 1]
      /\ \A i \in AskedFor(p, e) :
            /\ i \in Nat \ {0}
            /\ i = 1 => IsUpdate(a.req, e) /\ a.req = asked[p][i]
            /\ i # 1 => i - 1 \in AskedFor(p, e)'
      /\ IsUpdate(a.req, e) => 1 \in AskedFor(p, e)
      /\ \A q \in Phones \ {p} : asked[q]' = asked[q]
  <2>1. /\ \A i \in AskedFor(p, e)' :
              i \in Nat \ {0} /\ i + 1 \in AskedFor(p, e) /\ asked[p]'[i] = asked[p][i + 1]
        /\ \A i \in AskedFor(p, e) :
              /\ i \in Nat \ {0}
              /\ i = 1 => IsUpdate(Head(asked[p]), e) /\ Head(asked[p]) = asked[p][i]
              /\ i # 1 => i - 1 \in AskedFor(p, e)'
        /\ IsUpdate(Head(asked[p]), e) => 1 \in AskedFor(p, e)
        /\ \A q \in Phones \ {p} : asked[q]' = asked[q]
    BY <1>3, AskedTail
  <2> QED
    BY <1>4, <2>1
<1>8. WritesFor(p, e)' = WritesFor(p, e)
  BY <1>3 DEF WritesFor
<1>9. InFlight(p, e)' <=> InFlight(p, e)
  BY <1>6, <1>7, <1>8 DEF InFlight
<1>10. NewestCarries(p, e, v)
  BY <1>1 DEF ComesToRestAt
<1>11. NewestCarries(p, e, v)'
  <2>1. ASSUME NEW i \in AskedFor(p, e)', \A j \in AskedFor(p, e)' : j <= i
        PROVE  asked[p]'[i].value = v
    <3>1. \A j \in AskedFor(p, e) : j <= i + 1
      BY <1>7, <2>1
    <3> QED
      BY <1>7, <1>10, <3>1 DEF NewestCarries, Newest
  <2>2. ASSUME AskedFor(p, e)' = {},
               NEW i \in AnsweredFor(p, e)', \A j \in AnsweredFor(p, e)' : j <= i
        PROVE  answered[p]'[i].req.value = v
    <3>1. CASE IsUpdate(a.req, e)
      <4>1. i = Len(answered[p]) + 1
        BY <1>6, <2>2, <3>1
      <4>2. 1 \in AskedFor(p, e) /\ \A j \in AskedFor(p, e) : j <= 1
        BY <1>7, <2>2, <3>1
      <4>3. asked[p][1].value = v
        BY <1>10, <4>2 DEF NewestCarries, Newest
      <4> QED
        BY <1>6, <1>7, <4>1, <4>2, <4>3
    <3>2. CASE ~IsUpdate(a.req, e)
      <4>1. AskedFor(p, e) = {} /\ AnsweredFor(p, e)' = AnsweredFor(p, e)
        BY <1>6, <1>7, <2>2, <3>2
      <4> QED
        BY <1>6, <1>10, <2>2, <4>1 DEF NewestCarries, Newest
    <3> QED
      BY <3>1, <3>2
  <2>3. ASSUME AskedFor(p, e)' = {}, AnsweredFor(p, e)' = {}
        PROVE  AskedFor(p, e) = {} /\ AnsweredFor(p, e) = {}
    BY <1>6, <1>7, <2>3
  <2> QED
    BY <1>3, <1>8, <1>10, <2>1, <2>2, <2>3 DEF NewestCarries, Newest
<1>12. NewestTaken(p, e)'
  BY <1>1, <1>3, TakenFrame DEF ComesToRestAt
<1> QED
  BY <1>1, <1>3, <1>6, <1>7, <1>9, <1>11, <1>12, LocalStep

\* The callback of a fetch takes a call away that is no update.
LEMMA FetchCallbackKeepsRest ==
    ASSUME ClientTypeOK, NEW p \in Phones, NEW e \in Docs, NEW v, ComesToRestAt(e, v),
           FetchCallback(p)
    PROVE  ComesToRestAt(e, v)'
<1>1. UNCHANGED <<server, asked, writes, taken>>
  BY DEF FetchCallback
<1>2. ComesToRestAt(e, v)
  OBVIOUS
<1>3. /\ answered[p] # <<>>
      /\ answered' = [answered EXCEPT ![p] = Tail(@)]
      /\ ~IsUpdate(Head(answered[p]).req, e)
  BY DEF FetchCallback, IsUpdate
<1>4. /\ \A i \in AnsweredFor(p, e)' :
            /\ i \in Nat \ {0} /\ i + 1 \in AnsweredFor(p, e)
            /\ answered[p]'[i] = answered[p][i + 1]
      /\ \A i \in AnsweredFor(p, e) :
            i \in Nat \ {0} /\ i # 1 /\ i - 1 \in AnsweredFor(p, e)'
      /\ \A q \in Phones \ {p} : answered[q]' = answered[q]
  BY <1>3, AnsweredTail
<1>5. AskedFor(p, e)' = AskedFor(p, e) /\ WritesFor(p, e)' = WritesFor(p, e)
  BY <1>1 DEF AskedFor, WritesFor
<1>6. InFlight(p, e)' <=> InFlight(p, e)
  BY <1>4, <1>5 DEF InFlight
<1>7. NewestCarries(p, e, v)
  BY <1>2 DEF ComesToRestAt
<1>8. NewestCarries(p, e, v)'
  <2>1. ASSUME AskedFor(p, e) = {},
               NEW i \in AnsweredFor(p, e)', \A j \in AnsweredFor(p, e)' : j <= i
        PROVE  answered[p]'[i].req.value = v
    <3>1. \A j \in AnsweredFor(p, e) : j <= i + 1
      BY <1>4, <2>1
    <3> QED
      BY <1>4, <1>7, <2>1, <3>1 DEF NewestCarries, Newest
  <2>2. AnsweredFor(p, e)' = {} => AnsweredFor(p, e) = {}
    BY <1>4
  <2> QED
    BY <1>1, <1>5, <1>7, <2>1, <2>2 DEF NewestCarries, Newest
<1>9. NewestTaken(p, e)'
  BY <1>1, <1>2, TakenFrame DEF ComesToRestAt
<1> QED
  BY <1>1, <1>2, <1>4, <1>6, <1>8, <1>9, LocalStep

\* The callback of an update moves it to the writes, behind all older ones.
LEMMA UpdateCallbackKeepsRest ==
    ASSUME ClientTypeOK, NEW p \in Phones, NEW e \in Docs, NEW v, ComesToRestAt(e, v),
           UpdateCallback(p)
    PROVE  ComesToRestAt(e, v)'
<1>1. UNCHANGED <<server, asked, taken>>
  BY DEF UpdateCallback
<1>2. ComesToRestAt(e, v)
  OBVIOUS
<1> DEFINE r == Head(answered[p]).req
           w == [doc |-> r.doc, value |-> r.value]
<1>3. /\ answered[p] # <<>>
      /\ answered' = [answered EXCEPT ![p] = Tail(@)]
      /\ r.kind = "update"
  BY DEF UpdateCallback
<1>4. w \in Writes /\ (IsUpdate(r, e) <=> w.doc = e) /\ w.value = r.value
  <2>1. r.doc \in Docs /\ r.value \in Values
    BY <1>3, HeadAnswer, RequestTypes
  <2> QED
    BY <1>3, <2>1 DEF Writes, IsUpdate
<1>5. writes' = [writes EXCEPT ![p] = Append(@, w)]
  BY DEF UpdateCallback
<1>6. /\ \A i \in AnsweredFor(p, e)' :
            /\ i \in Nat \ {0} /\ i + 1 \in AnsweredFor(p, e)
            /\ answered[p]'[i] = answered[p][i + 1]
      /\ \A i \in AnsweredFor(p, e) :
            /\ i \in Nat \ {0}
            /\ i = 1 => IsUpdate(r, e) /\ r = answered[p][i].req
            /\ i # 1 => i - 1 \in AnsweredFor(p, e)'
      /\ IsUpdate(r, e) => 1 \in AnsweredFor(p, e)
      /\ \A q \in Phones \ {p} : answered[q]' = answered[q]
  <2>1. /\ \A i \in AnsweredFor(p, e)' :
              /\ i \in Nat \ {0} /\ i + 1 \in AnsweredFor(p, e)
              /\ answered[p]'[i] = answered[p][i + 1]
        /\ \A i \in AnsweredFor(p, e) :
              /\ i \in Nat \ {0}
              /\ i = 1 => /\ IsUpdate(Head(answered[p]).req, e)
                          /\ Head(answered[p]) = answered[p][i]
              /\ i # 1 => i - 1 \in AnsweredFor(p, e)'
        /\ IsUpdate(Head(answered[p]).req, e) => 1 \in AnsweredFor(p, e)
        /\ \A q \in Phones \ {p} : answered[q]' = answered[q]
    BY <1>3, AnsweredTail
  <2> QED
    BY <2>1
<1> HIDE DEF r, w
<1>7. /\ WritesFor(p, e)' =
           WritesFor(p, e) \cup (IF w.doc = e THEN {Len(writes[p]) + 1} ELSE {})
      /\ \A i \in WritesFor(p, e) :
            writes[p]'[i] = writes[p][i] /\ i \in 1 .. Len(writes[p])
      /\ writes[p]'[Len(writes[p]) + 1] = w
      /\ Len(writes[p]) \in Nat
      /\ \A q \in Phones \ {p} : writes[q]' = writes[q]
  BY <1>4, <1>5, WritesAppend
<1>8. AskedFor(p, e)' = AskedFor(p, e)
  BY <1>1 DEF AskedFor
<1>9. InFlight(p, e)' <=> InFlight(p, e)
  BY <1>4, <1>6, <1>7, <1>8 DEF InFlight
<1>10. NewestCarries(p, e, v)
  BY <1>2 DEF ComesToRestAt
<1>11. NewestCarries(p, e, v)'
  <2>1. ASSUME AskedFor(p, e) = {},
               NEW i \in AnsweredFor(p, e)', \A j \in AnsweredFor(p, e)' : j <= i
        PROVE  answered[p]'[i].req.value = v
    <3>1. \A j \in AnsweredFor(p, e) : j <= i + 1
      BY <1>6, <2>1
    <3> QED
      BY <1>6, <1>10, <2>1, <3>1 DEF NewestCarries, Newest
  <2>2. ASSUME AskedFor(p, e) = {}, AnsweredFor(p, e)' = {},
               NEW i \in WritesFor(p, e)', \A j \in WritesFor(p, e)' : j <= i
        PROVE  writes[p]'[i].value = v
    <3>1. CASE w.doc = e
      <4>1. i = Len(writes[p]) + 1
        BY <1>7, <2>2, <3>1
      <4>2. 1 \in AnsweredFor(p, e) /\ \A j \in AnsweredFor(p, e) : j <= 1
        BY <1>4, <1>6, <2>2, <3>1
      <4>3. answered[p][1].req.value = v
        BY <1>10, <2>2, <4>2 DEF NewestCarries, Newest
      <4> QED
        BY <1>4, <1>6, <1>7, <4>1, <4>2, <4>3
    <3>2. CASE w.doc # e
      <4>1. AnsweredFor(p, e) = {} /\ WritesFor(p, e)' = WritesFor(p, e)
        BY <1>4, <1>6, <1>7, <2>2, <3>2
      <4> QED
        BY <1>7, <1>10, <2>2, <4>1 DEF NewestCarries, Newest
    <3> QED
      BY <3>1, <3>2
  <2> QED
    BY <1>1, <1>8, <1>10, <2>1, <2>2 DEF NewestCarries, Newest
<1>12. NewestTaken(p, e)'
  <2>1. taken[p] \in Nat /\ taken[p] <= Len(writes[p]) /\ NewestTaken(p, e)
    BY <1>2 DEF ClientTypeOK, ComesToRestAt
  <2>2. CASE w.doc = e
    <3>1. Len(writes[p]) + 1 \in WritesFor(p, e)'
      BY <1>7, <2>2
    <3>2. ASSUME NEW i \in WritesFor(p, e)', \A j \in WritesFor(p, e)' : j <= i
          PROVE  ~ (i <= taken[p])
      <4>1. Len(writes[p]) + 1 <= i
        BY <3>1, <3>2
      <4>2. i \in Nat
        BY <1>7, <3>2
      <4> QED
        BY <1>7, <2>1, <4>1, <4>2
    <3> QED
      BY <1>1, <3>2 DEF NewestTaken, Newest
  <2>3. CASE w.doc # e
    <3>1. WritesFor(p, e)' = WritesFor(p, e)
      BY <1>7, <2>3
    <3> QED
      BY <1>1, <1>7, <2>1, <3>1 DEF NewestTaken, Newest
  <2> QED
    BY <2>2, <2>3
<1> QED
  BY <1>1, <1>2, <1>6, <1>7, <1>9, <1>11, <1>12, LocalStep

\* The backend takes a write.  If it updates e, and is the newest, the backend
\* holds what it carries; if it is not, the newest was not taken yet.
LEMMA CommitKeepsRest ==
    ASSUME ClientTypeOK, NEW p \in Phones, NEW e \in Docs, NEW v, ComesToRestAt(e, v),
           Commit(p)
    PROVE  ComesToRestAt(e, v)'
<1>1. ComesToRestAt(e, v)
  OBVIOUS
<1> DEFINE w == writes[p][taken[p] + 1]
<1>2. /\ server' = [server EXCEPT ![w.doc] = w.value]
      /\ taken' = [taken EXCEPT ![p] = @ + 1]
      /\ UNCHANGED <<asked, answered, writes>>
  BY DEF Commit
<1>3. taken[p] + 1 \in DOMAIN writes[p] /\ w.doc \in Docs
  BY NextWrite DEF Commit
<1>4. taken[p] + 1 \in WritesFor(p, e) <=> w.doc = e
  BY <1>3 DEF WritesFor
<1>5. w = writes[p][taken[p] + 1]
  OBVIOUS
<1> HIDE DEF w
<1>6. /\ server[e]' = IF w.doc = e THEN w.value ELSE server[e]
      /\ taken[p]' = taken[p] + 1 /\ taken[p] \in Nat
      /\ \A q \in Phones \ {p} : taken[q]' = taken[q]
  BY <1>2, <1>3 DEF ClientTypeOK, Snapshots
<1>7. /\ AskedFor(p, e)' = AskedFor(p, e)
      /\ AnsweredFor(p, e)' = AnsweredFor(p, e)
      /\ WritesFor(p, e)' = WritesFor(p, e) /\ WritesFor(p, e) \subseteq Nat
  <2>1. DOMAIN writes[p] = 1 .. Len(writes[p]) /\ Len(writes[p]) \in Nat
    BY DEF ClientTypeOK
  <2> QED
    BY <1>2, <2>1 DEF AskedFor, AnsweredFor, WritesFor
<1>8. InFlight(p, e)' <=> InFlight(p, e)
  BY <1>7 DEF InFlight
<1>9. NewestCarries(p, e, v)'
  BY <1>1, <1>2, <1>7 DEF NewestCarries, Newest, ComesToRestAt
<1>10. NewestTaken(p, e)'
  <2>1. ASSUME NEW i \in WritesFor(p, e), \A k \in WritesFor(p, e) : k <= i,
               i <= taken[p] + 1
        PROVE  server[e]' = writes[p][i].value
    <3>1. CASE w.doc = e
      <4>1. i = taken[p] + 1
        BY <1>4, <1>6, <1>7, <2>1, <3>1
      <4> QED
        BY <1>5, <1>6, <3>1, <4>1
    <3>2. CASE w.doc # e
      <4>1. i # taken[p] + 1
        BY <1>4, <2>1, <3>2
      <4>2. i <= taken[p]
        BY <1>6, <1>7, <2>1, <4>1
      <4> QED
        BY <1>1, <1>6, <2>1, <3>2, <4>2 DEF ComesToRestAt, NewestTaken, Newest
    <3> QED
      BY <3>1, <3>2
  <2> QED
    BY <1>2, <1>6, <1>7, <2>1 DEF NewestTaken, Newest
<1>11. server[e]' = server[e] \/ InFlight(p, e)
  BY <1>4, <1>6 DEF InFlight
<1> QED
  BY <1>1, <1>2, <1>6, <1>8, <1>9, <1>10, <1>11, LocalStep

\* The phone removes its oldest write.  If that was its last update of e, the
\* backend took it and holds what it carries.
LEMMA AcknowledgeKeepsRest ==
    ASSUME ClientTypeOK, NEW p \in Phones, NEW e \in Docs, NEW v, ComesToRestAt(e, v),
           Acknowledge(p)
    PROVE  ComesToRestAt(e, v)'
<1>1. ComesToRestAt(e, v)
  OBVIOUS
<1> DEFINE w == Head(writes[p])
<1>2. /\ taken[p] > 0
      /\ writes' = [writes EXCEPT ![p] = Tail(@)]
      /\ taken' = [taken EXCEPT ![p] = @ - 1]
      /\ UNCHANGED <<server, asked, answered>>
  BY DEF Acknowledge
<1>3. /\ writes[p] # <<>> /\ taken[p] \in Nat /\ taken[p]' = taken[p] - 1
      /\ \A q \in Phones \ {p} : taken[q]' = taken[q]
  BY <1>2 DEF ClientTypeOK
<1>4. /\ \A i \in WritesFor(p, e)' :
            i \in Nat \ {0} /\ i + 1 \in WritesFor(p, e) /\ writes[p]'[i] = writes[p][i + 1]
      /\ \A i \in WritesFor(p, e) :
            /\ i \in Nat \ {0}
            /\ i = 1 => w.doc = e /\ w = writes[p][i]
            /\ i # 1 => i - 1 \in WritesFor(p, e)'
      /\ w.doc = e => 1 \in WritesFor(p, e)
      /\ \A q \in Phones \ {p} : writes[q]' = writes[q]
  BY <1>2, <1>3, WritesTail
<1> HIDE DEF w
<1>5. AskedFor(p, e)' = AskedFor(p, e) /\ AnsweredFor(p, e)' = AnsweredFor(p, e)
  BY <1>2 DEF AskedFor, AnsweredFor
<1>6. NewestCarries(p, e, v) /\ NewestTaken(p, e)
  BY <1>1 DEF ComesToRestAt
<1>7. NewestCarries(p, e, v)'
  <2>1. ASSUME AskedFor(p, e) = {}, AnsweredFor(p, e) = {},
               NEW i \in WritesFor(p, e)', \A j \in WritesFor(p, e)' : j <= i
        PROVE  writes[p]'[i].value = v
    <3>1. \A j \in WritesFor(p, e) : j <= i + 1
      BY <1>4, <2>1
    <3> QED
      BY <1>4, <1>6, <2>1, <3>1 DEF NewestCarries, Newest
  <2> QED
    BY <1>2, <1>5, <1>6, <2>1 DEF NewestCarries, Newest
<1>8. NewestTaken(p, e)'
  <2>1. ASSUME NEW i \in WritesFor(p, e)', \A j \in WritesFor(p, e)' : j <= i,
               i <= taken[p] - 1
        PROVE  server[e] = writes[p]'[i].value
    <3>1. i + 1 \in WritesFor(p, e) /\ i + 1 <= taken[p] /\ writes[p]'[i] = writes[p][i + 1]
      BY <1>3, <1>4, <2>1
    <3>2. \A j \in WritesFor(p, e) : j <= i + 1
      BY <1>4, <2>1
    <3> QED
      BY <1>6, <3>1, <3>2 DEF NewestTaken, Newest
  <2> QED
    BY <1>2, <1>3, <2>1 DEF NewestTaken, Newest
<1>9. InFlight(p, e)' => InFlight(p, e)
  BY <1>4, <1>5 DEF InFlight
<1>10. CASE w.doc # e
  <2>1. InFlight(p, e)' <=> InFlight(p, e)
    BY <1>4, <1>5, <1>10 DEF InFlight
  <2> QED
    BY <1>1, <1>2, <1>3, <1>4, <1>7, <1>8, <2>1, LocalStep
<1>11. CASE w.doc = e
  <2>1. InFlight(p, e)
    BY <1>4, <1>11 DEF InFlight
  <2>2. ASSUME ~InFlight(p, e)' PROVE server[e]' = v
    <3>1. AskedFor(p, e) = {} /\ AnsweredFor(p, e) = {} /\ WritesFor(p, e)' = {}
      BY <1>5, <2>2 DEF InFlight
    <3>2. 1 \in WritesFor(p, e) /\ \A j \in WritesFor(p, e) : j <= 1
      BY <1>4, <1>11, <3>1
    <3>3. writes[p][1].value = v
      BY <1>6, <3>1, <3>2 DEF NewestCarries, Newest
    <3>4. server[e] = writes[p][1].value
      BY <1>2, <1>3, <1>6, <3>2 DEF NewestTaken, Newest
    <3> QED
      BY <1>2, <3>3, <3>4
  <2> QED
    BY <1>1, <1>2, <1>3, <1>4, <1>7, <1>8, <1>9, <2>1, <2>2, LocalStep
<1> QED
  BY <1>10, <1>11

\* A stream that breaks makes the backend forget nothing: the pipeline will be
\* sent again.
LEMMA ReconnectKeepsRest ==
    ASSUME ClientTypeOK, NEW p \in Phones, NEW e \in Docs, NEW v, ComesToRestAt(e, v),
           Reconnect(p)
    PROVE  ComesToRestAt(e, v)'
<1>1. /\ taken' = [taken EXCEPT ![p] = 0]
      /\ UNCHANGED <<server, asked, answered, writes>>
  BY DEF Reconnect
<1>2. taken[p]' = 0 /\ \A q \in Phones \ {p} : taken[q]' = taken[q]
  BY <1>1 DEF ClientTypeOK
<1>3. /\ InFlight(p, e)' <=> InFlight(p, e)
      /\ NewestCarries(p, e, v)' <=> NewestCarries(p, e, v)
  BY <1>1, PhoneFrame
<1>4. NewestTaken(p, e)'
  BY <1>1, <1>2, NoneTaken
<1> QED
  BY <1>1, <1>2, <1>3, <1>4, LocalStep DEF ComesToRestAt

\* Losing calls that update other documents leaves e's resting point.
LEMMA LossKeepsRest ==
    ASSUME ClientTypeOK, NEW p \in Phones, NEW e \in Docs, NEW v, ComesToRestAt(e, v),
           AskedFor(p, e) = {},
           FailCalls(p) \/ (EndProcess(p) /\ AnsweredFor(p, e) = {})
    PROVE  ComesToRestAt(e, v)'
<1>1. UNCHANGED <<server, writes>>
  BY DEF FailCalls, EndProcess
<1>2. /\ AskedFor(p, e)' = {}
      /\ \A q \in Phones \ {p} : asked[q]' = asked[q]
  BY DEF FailCalls, EndProcess, AskedFor, ClientTypeOK
<1>3. /\ AnsweredFor(p, e)' = AnsweredFor(p, e)
      /\ answered[p]' = answered[p] \/ AnsweredFor(p, e) = {}
      /\ \A q \in Phones \ {p} : answered[q]' = answered[q]
  BY DEF FailCalls, EndProcess, AnsweredFor, ClientTypeOK
<1>4. WritesFor(p, e)' = WritesFor(p, e)
  BY <1>1 DEF WritesFor
<1>5. InFlight(p, e)' <=> InFlight(p, e)
  BY <1>2, <1>3, <1>4 DEF InFlight
<1>6. NewestCarries(p, e, v)'
  BY <1>1, <1>2, <1>3, <1>4 DEF NewestCarries, Newest, ComesToRestAt
<1>7. NewestTaken(p, e)'
  <2>1. CASE taken' = taken
    BY <1>1, <2>1, TakenFrame DEF ComesToRestAt
  <2>2. CASE taken' = [taken EXCEPT ![p] = 0]
    <3>1. taken[p]' = 0
      BY <2>2 DEF ClientTypeOK
    <3> QED
      BY <1>1, <3>1, NoneTaken
  <2> QED
    BY <2>1, <2>2 DEF FailCalls, EndProcess
<1>8. \A q \in Phones \ {p} : taken[q]' = taken[q]
  BY DEF FailCalls, EndProcess, ClientTypeOK
<1> QED
  BY <1>1, <1>2, <1>3, <1>5, <1>6, <1>7, <1>8, LocalStep

\* A step that moves no queue leaves every resting point.
LEMMA IdleKeepsRest ==
    ASSUME NEW e \in Docs, NEW v, ComesToRestAt(e, v),
           UNCHANGED <<server, asked, answered, writes, taken>>
    PROVE  ComesToRestAt(e, v)'
BY DEF ComesToRestAt, NewestCarries, NewestTaken, Newest, InFlight, AskedFor, AnsweredFor,
       WritesFor

-----------------------------------------------------------------------------
(* What a document holds anywhere came from the backend or from an update.   *)

\* A set that holds all values of d still does when it grows.
LEMMA HoldsMore ==
    ASSUME NEW d \in Docs, NEW S, NEW T, S \subseteq T, HoldsOnly(d, S)
    PROVE  HoldsOnly(d, T)
BY DEF HoldsOnly, Carries

LEMMA AskHoldsOnly ==
    ASSUME ClientTypeOK, NEW p \in Phones, NEW d \in Docs, NEW S, HoldsOnly(d, S),
           NEW req \in Requests, GetDocuments(p, req), Carries(req, d, S)
    PROVE  HoldsOnly(d, S)'
<1>1. /\ asked \in [Phones -> Seq(Requests)] /\ asked[p] \in Seq(Requests)
      /\ asked' = [asked EXCEPT ![p] = Append(@, req)]
      /\ UNCHANGED <<server, view, answered, writes>>
  BY DEF ClientTypeOK, GetDocuments
<1>2. asked[p]' = Append(asked[p], req) /\ \A q \in Phones \ {p} : asked[q]' = asked[q]
  BY <1>1
<1>3. \A q \in Phones : \A i \in DOMAIN asked[q]' :
         asked[q]'[i] = req \/ (i \in DOMAIN asked[q] /\ asked[q]'[i] = asked[q][i])
  BY <1>1, <1>2, SeqAppend
<1> QED
  BY <1>1, <1>3 DEF HoldsOnly, Carries

LEMMA AnswerHoldsOnly ==
    ASSUME ClientTypeOK, NEW p \in Phones, NEW d \in Docs, NEW S, HoldsOnly(d, S), Answer(p)
    PROVE  HoldsOnly(d, S)'
<1>1. PICK snapshot \in {view[p], Synced(p)} :
        /\ view' = [view EXCEPT ![p] = snapshot]
        /\ answered' = [answered EXCEPT ![p] =
               Append(@, [req |-> Head(asked[p]), snapshot |-> snapshot])]
  BY DEF Answer
<1> DEFINE a == [req |-> Head(asked[p]), snapshot |-> snapshot]
<1>2. /\ asked[p] # <<>> /\ asked' = [asked EXCEPT ![p] = Tail(@)]
      /\ UNCHANGED <<server, writes>>
  BY DEF Answer
<1>3. snapshot \in Snapshots /\ snapshot[d] \in S
  BY <1>1 DEF ClientTypeOK, Synced, Snapshots, HoldsOnly
<1>4. asked[p] \in Seq(Requests) /\ answered[p] \in Seq(Answers)
  BY DEF ClientTypeOK
<1>5. Head(asked[p]) \in Requests /\ Carries(Head(asked[p]), d, S)
  <2>1. Head(asked[p]) = asked[p][1] /\ Head(asked[p]) \in Requests /\ 1 \in DOMAIN asked[p]
    BY <1>2, <1>4, SeqTail
  <2> QED
    BY <2>1 DEF HoldsOnly
<1>6. a \in Answers /\ Carries(a.req, d, S) /\ a.snapshot[d] \in S
  BY <1>3, <1>5 DEF Answers
<1>7. answered' = [answered EXCEPT ![p] = Append(@, a)]
  BY <1>1
<1> HIDE DEF a
<1>8. \A q \in Phones : \A i \in DOMAIN answered[q]' :
         \/ answered[q]'[i] = a
         \/ i \in DOMAIN answered[q] /\ answered[q]'[i] = answered[q][i]
  <2>1. answered[p]' = Append(answered[p], a)
        /\ \A q \in Phones \ {p} : answered[q]' = answered[q]
    BY <1>7 DEF ClientTypeOK
  <2>2. \A i \in DOMAIN Append(answered[p], a) :
           \/ Append(answered[p], a)[i] = a
           \/ i \in DOMAIN answered[p] /\ Append(answered[p], a)[i] = answered[p][i]
    BY <1>4, <1>6, SeqAppend
  <2> QED
    BY <2>1, <2>2
<1>9. \A q \in Phones : \A i \in DOMAIN asked[q]' :
         \E j \in DOMAIN asked[q] : asked[q]'[i] = asked[q][j]
  <2>1. asked[p]' = Tail(asked[p]) /\ \A q \in Phones \ {p} : asked[q]' = asked[q]
    BY <1>2 DEF ClientTypeOK
  <2>2. \A i \in DOMAIN Tail(asked[p]) :
           i + 1 \in DOMAIN asked[p] /\ Tail(asked[p])[i] = asked[p][i + 1]
    BY <1>2, <1>4, SeqTail
  <2> QED
    BY <2>1, <2>2
<1>10. \A q \in Phones : view'[q][d] \in S
  BY <1>1, <1>3 DEF ClientTypeOK, HoldsOnly
<1> QED
  BY <1>2, <1>6, <1>8, <1>9, <1>10 DEF HoldsOnly

\* The callbacks, of a fetch and of an update.
LEMMA CallbackHoldsOnly ==
    ASSUME ClientTypeOK, NEW p \in Phones, NEW d \in Docs, NEW S, HoldsOnly(d, S),
           FetchCallback(p) \/ UpdateCallback(p)
    PROVE  HoldsOnly(d, S)' /\ Head(answered[p]).snapshot[d] \in S
<1> DEFINE a == Head(answered[p])
           r == a.req
           w == [doc |-> r.doc, value |-> r.value]
<1>1. answered[p] # <<>> /\ answered' = [answered EXCEPT ![p] = Tail(@)]
      /\ UNCHANGED <<server, asked>>
  BY DEF FetchCallback, UpdateCallback
<1>2. answered[p] \in Seq(Answers)
  BY DEF ClientTypeOK
<1>3. Carries(r, d, S) /\ a.snapshot[d] \in S
  <2>1. a = answered[p][1] /\ 1 \in DOMAIN answered[p]
    BY <1>1, <1>2, SeqTail
  <2> QED
    BY <2>1 DEF HoldsOnly
<1>4. \A q \in Phones : \A i \in DOMAIN answered[q]' :
         \E j \in DOMAIN answered[q] : answered[q]'[i] = answered[q][j]
  <2>1. answered[p]' = Tail(answered[p]) /\ \A q \in Phones \ {p} : answered[q]' = answered[q]
    BY <1>1 DEF ClientTypeOK
  <2>2. \A i \in DOMAIN Tail(answered[p]) :
           i + 1 \in DOMAIN answered[p] /\ Tail(answered[p])[i] = answered[p][i + 1]
    BY <1>1, <1>2, SeqTail
  <2> QED
    BY <2>1, <2>2
<1>5. CASE UNCHANGED <<view, writes>>
  BY <1>1, <1>3, <1>4, <1>5 DEF HoldsOnly
<1>6. CASE /\ r.kind = "update"
           /\ writes' = [writes EXCEPT ![p] = Append(@, w)]
           /\ view' = [view EXCEPT ![p][r.doc] = r.value]
  <2>1. r.doc \in Docs /\ r.value \in Values
    BY <1>1, <1>6, HeadAnswer, RequestTypes
  <2>2. w \in Writes /\ (w.doc = d => w.value \in S) /\ (r.doc = d => r.value \in S)
    BY <1>3, <1>6, <2>1 DEF Writes, Carries, IsUpdate
  <2>3. writes' = [writes EXCEPT ![p] = Append(@, w)]
    BY <1>6
  <2> HIDE DEF w, r
  <2>4. \A q \in Phones : \A i \in DOMAIN writes[q]' :
           \/ writes[q]'[i] = w
           \/ i \in DOMAIN writes[q] /\ writes[q]'[i] = writes[q][i]
    <3>1. writes[p] \in Seq(Writes) /\ writes[p]' = Append(writes[p], w)
          /\ \A q \in Phones \ {p} : writes[q]' = writes[q]
      BY <2>3 DEF ClientTypeOK
    <3>2. \A i \in DOMAIN Append(writes[p], w) :
             \/ Append(writes[p], w)[i] = w
             \/ i \in DOMAIN writes[p] /\ Append(writes[p], w)[i] = writes[p][i]
      BY <2>2, <3>1, SeqAppend
    <3> QED
      BY <3>1, <3>2
  <2>5. \A q \in Phones : view'[q][d] \in S
    BY <1>6, <2>1, <2>2 DEF ClientTypeOK, HoldsOnly, Snapshots
  <2> QED
    BY <1>1, <1>3, <1>4, <2>2, <2>4, <2>5 DEF HoldsOnly
<1> QED
  BY <1>5, <1>6 DEF FetchCallback, UpdateCallback

LEMMA CommitHoldsOnly ==
    ASSUME ClientTypeOK, NEW p \in Phones, NEW d \in Docs, NEW S, HoldsOnly(d, S), Commit(p)
    PROVE  HoldsOnly(d, S)'
<1> DEFINE w == writes[p][taken[p] + 1]
<1>1. /\ server' = [server EXCEPT ![w.doc] = w.value]
      /\ UNCHANGED <<view, asked, answered, writes>>
  BY DEF Commit
<1>2. taken[p] + 1 \in DOMAIN writes[p]
  BY NextWrite DEF Commit
<1>3. w.doc = d => w.value \in S
  BY <1>2 DEF HoldsOnly
<1> HIDE DEF w
<1>4. server'[d] \in S
  BY <1>1, <1>3 DEF ClientTypeOK, HoldsOnly, Snapshots
<1> QED
  BY <1>1, <1>4 DEF HoldsOnly

LEMMA AcknowledgeHoldsOnly ==
    ASSUME ClientTypeOK, NEW p \in Phones, NEW d \in Docs, NEW S, HoldsOnly(d, S),
           Acknowledge(p)
    PROVE  HoldsOnly(d, S)'
<1>1. /\ taken[p] > 0 /\ writes' = [writes EXCEPT ![p] = Tail(@)]
      /\ UNCHANGED <<server, view, asked, answered>>
  BY DEF Acknowledge
<1>2. writes[p] \in Seq(Writes) /\ writes[p] # <<>>
  BY <1>1 DEF ClientTypeOK
<1>3. \A q \in Phones : \A i \in DOMAIN writes[q]' :
         \E j \in DOMAIN writes[q] : writes[q]'[i] = writes[q][j]
  <2>1. writes[p]' = Tail(writes[p]) /\ \A q \in Phones \ {p} : writes[q]' = writes[q]
    BY <1>1 DEF ClientTypeOK
  <2>2. \A i \in DOMAIN Tail(writes[p]) :
           i + 1 \in DOMAIN writes[p] /\ Tail(writes[p])[i] = writes[p][i + 1]
    BY <1>2, SeqTail
  <2> QED
    BY <2>1, <2>2
<1> QED
  BY <1>1, <1>3 DEF HoldsOnly

LEMMA ReconnectHoldsOnly ==
    ASSUME NEW p \in Phones, NEW d \in Docs, NEW S, HoldsOnly(d, S), Reconnect(p)
    PROVE  HoldsOnly(d, S)'
BY DEF Reconnect, HoldsOnly

LEMMA LossHoldsOnly ==
    ASSUME ClientTypeOK, NEW p \in Phones, NEW d \in Docs, NEW S, HoldsOnly(d, S),
           FailCalls(p) \/ EndProcess(p)
    PROVE  HoldsOnly(d, S)'
<1>1. UNCHANGED <<server, view, writes>>
  BY DEF FailCalls, EndProcess
<1>2. \A q \in Phones : asked[q]' = asked[q] \/ DOMAIN asked[q]' = {}
  BY DEF FailCalls, EndProcess, ClientTypeOK
<1>3. \A q \in Phones : answered[q]' = answered[q] \/ DOMAIN answered[q]' = {}
  BY DEF FailCalls, EndProcess, ClientTypeOK
<1> QED
  BY <1>1, <1>2, <1>3 DEF HoldsOnly

LEMMA IdleHoldsOnly ==
    ASSUME NEW d \in Docs, NEW S, HoldsOnly(d, S), UNCHANGED clientVars
    PROVE  HoldsOnly(d, S)'
BY DEF HoldsOnly, clientVars

-----------------------------------------------------------------------------
(* A phone shows its own writes.                                             *)

LEMMA IdleShowsOwn ==
    ASSUME OwnWritesShown, UNCHANGED <<view, writes>>
    PROVE  OwnWritesShown'
BY DEF OwnWritesShown

\* A synchronisation leaves what is pending as the phone wrote it.
LEMMA AnswerShowsOwn ==
    ASSUME ClientTypeOK, OwnWritesShown, NEW p \in Phones, Answer(p)
    PROVE  OwnWritesShown'
<1>1. PICK snapshot \in {view[p], Synced(p)} : view' = [view EXCEPT ![p] = snapshot]
  BY DEF Answer
<1>2. writes' = writes
  BY DEF Answer
<1>3. \A i \in DOMAIN writes[p] : writes[p][i].doc \in Docs
  <2>1. writes[p] \in Seq(Writes)
    BY DEF ClientTypeOK
  <2>2. \A i \in DOMAIN writes[p] : writes[p][i] \in Writes
    BY <2>1
  <2> QED
    BY <2>2 DEF Writes
<1>4. \A i \in DOMAIN writes[p] : snapshot[writes[p][i].doc] = view[p][writes[p][i].doc]
  BY <1>3 DEF Synced, Pending
<1>5. \A q \in Phones : \A i \in DOMAIN writes[q] :
         view'[q][writes[q][i].doc] = view[q][writes[q][i].doc]
  BY <1>1, <1>4 DEF ClientTypeOK
<1> QED
  BY <1>2, <1>5 DEF OwnWritesShown

LEMMA AcknowledgeShowsOwn ==
    ASSUME ClientTypeOK, OwnWritesShown, NEW p \in Phones, Acknowledge(p)
    PROVE  OwnWritesShown'
<1>1. /\ writes[p] # <<>> /\ writes' = [writes EXCEPT ![p] = Tail(@)] /\ view' = view
      /\ writes[p] \in Seq(Writes)
  BY DEF Acknowledge, ClientTypeOK
<1>2. writes[p]' = Tail(writes[p]) /\ \A q \in Phones \ {p} : writes[q]' = writes[q]
  BY <1>1 DEF ClientTypeOK
<1>3. /\ DOMAIN writes[p] = 1 .. Len(writes[p]) /\ Len(writes[p]) \in Nat \ {0}
      /\ DOMAIN Tail(writes[p]) = 1 .. (Len(writes[p]) - 1)
      /\ \A i \in 1 .. (Len(writes[p]) - 1) : Tail(writes[p])[i] = writes[p][i + 1]
  BY <1>1, SeqTail
<1>4. ASSUME NEW i \in DOMAIN Tail(writes[p]),
             \A j \in DOMAIN Tail(writes[p]) :
                Tail(writes[p])[j].doc = Tail(writes[p])[i].doc => j <= i
      PROVE  view[p][Tail(writes[p])[i].doc] = Tail(writes[p])[i].value
  <2>1. i + 1 \in DOMAIN writes[p] /\ Tail(writes[p])[i] = writes[p][i + 1]
    BY <1>3
  <2>2. ASSUME NEW j \in DOMAIN writes[p], writes[p][j].doc = writes[p][i + 1].doc
        PROVE  j <= i + 1
    <3>1. CASE j = 1
      BY <1>3, <3>1
    <3>2. CASE j # 1
      <4>1. j - 1 \in DOMAIN Tail(writes[p]) /\ Tail(writes[p])[j - 1] = writes[p][j]
        BY <1>3, <3>2
      <4>2. j - 1 <= i
        BY <1>4, <2>1, <2>2, <4>1
      <4> QED
        BY <1>3, <4>2
    <3> QED
      BY <3>1, <3>2
  <2> QED
    BY <2>1, <2>2 DEF OwnWritesShown
<1> QED
  BY <1>1, <1>2, <1>4 DEF OwnWritesShown

LEMMA UpdateShowsOwn ==
    ASSUME ClientTypeOK, OwnWritesShown, NEW p \in Phones, UpdateCallback(p)
    PROVE  OwnWritesShown'
<1> DEFINE r == Head(answered[p]).req
           w == [doc |-> r.doc, value |-> r.value]
<1>1. r.doc \in Docs /\ r.value \in Values
  BY HeadAnswer, RequestTypes DEF UpdateCallback
<1>2. /\ writes' = [writes EXCEPT ![p] = Append(@, w)]
      /\ view' = [view EXCEPT ![p][r.doc] = r.value]
  BY DEF UpdateCallback
<1>3. w \in Writes /\ w.doc = r.doc /\ w.value = r.value
  BY <1>1 DEF Writes
<1> HIDE DEF r, w
<1>4. /\ writes[p] \in Seq(Writes) /\ writes[p]' = Append(writes[p], w)
      /\ \A q \in Phones \ {p} : writes[q]' = writes[q] /\ view'[q] = view[q]
      /\ \A d \in Docs : view'[p][d] = IF d = w.doc THEN w.value ELSE view[p][d]
  BY <1>1, <1>2, <1>3 DEF ClientTypeOK, Snapshots
<1>5. /\ DOMAIN writes[p] = 1 .. Len(writes[p]) /\ Len(writes[p]) \in Nat
      /\ DOMAIN Append(writes[p], w) = 1 .. (Len(writes[p]) + 1)
      /\ \A i \in 1 .. Len(writes[p]) : Append(writes[p], w)[i] = writes[p][i]
      /\ Append(writes[p], w)[Len(writes[p]) + 1] = w
  BY <1>3, <1>4, SeqAppend
<1>6. ASSUME NEW i \in DOMAIN Append(writes[p], w),
             \A j \in DOMAIN Append(writes[p], w) :
                Append(writes[p], w)[j].doc = Append(writes[p], w)[i].doc => j <= i
      PROVE  view'[p][Append(writes[p], w)[i].doc] = Append(writes[p], w)[i].value
  <2>1. CASE i = Len(writes[p]) + 1
    BY <1>1, <1>3, <1>4, <1>5, <2>1
  <2>2. CASE i # Len(writes[p]) + 1
    <3>1. i \in DOMAIN writes[p] /\ Append(writes[p], w)[i] = writes[p][i]
      BY <1>5, <2>2
    <3>2. writes[p][i].doc # w.doc
      BY <1>5, <1>6, <2>2, <3>1
    <3>3. \A j \in DOMAIN writes[p] : writes[p][j].doc = writes[p][i].doc => j <= i
      BY <1>5, <1>6, <3>1
    <3>4. view[p][writes[p][i].doc] = writes[p][i].value /\ writes[p][i].doc \in Docs
      <4>1. view[p][writes[p][i].doc] = writes[p][i].value
        BY <3>1, <3>3 DEF OwnWritesShown
      <4>2. writes[p][i] \in Writes
        BY <1>4, <3>1
      <4> QED
        BY <4>1, <4>2 DEF Writes
    <3> QED
      BY <1>4, <3>1, <3>2, <3>4
  <2> QED
    BY <2>1, <2>2
<1>7. ASSUME NEW i \in DOMAIN writes[p]',
             \A j \in DOMAIN writes[p]' : writes[p]'[j].doc = writes[p]'[i].doc => j <= i
      PROVE  view'[p][writes[p]'[i].doc] = writes[p]'[i].value
  BY <1>4, <1>6, <1>7
<1>8. ASSUME NEW q \in Phones \ {p}, NEW i \in DOMAIN writes[q]',
             \A j \in DOMAIN writes[q]' : writes[q]'[j].doc = writes[q]'[i].doc => j <= i
      PROVE  view'[q][writes[q]'[i].doc] = writes[q]'[i].value
  BY <1>4, <1>8 DEF OwnWritesShown
<1> QED
  BY <1>7, <1>8 DEF OwnWritesShown

\* The steps of YakScreens that leave what a component adds to it alone.
LookStep(p) == ScreenStep(p) \/ NavigationStep(p) \/ StoreStep(p)

-----------------------------------------------------------------------------
(* The screens' types.                                                       *)

LEMMA RowsTypes ==
    /\ NoRows \in [Docs -> Values \cup {Absent}]
    /\ [s \in Screens |-> NoRows] \in [Screens -> [Docs -> Values \cup {Absent}]]
BY DEF NoRows

LEMMA FetchYaksType ==
    ASSUME ClientTypeOK, NEW p \in Phones, NEW s \in Screens, FetchYaks(p, s)
    PROVE  ClientTypeOK'
<1>1. Fetch(s) \in Requests
  BY RequestTypes
<1> QED
  BY <1>1, GetDocumentsType DEF FetchYaks

LEMMA AppearType ==
    ASSUME ClientTypeOK, ScreensTypeOK, NEW p \in Phones, NEW s \in Screens, Appear(p, s)
    PROVE  /\ ClientTypeOK'
           /\ rows' \in [Phones -> [Screens -> [Docs -> Values \cup {Absent}]]]
<1>1. CASE FetchYaks(p, s) /\ UNCHANGED rows
  BY <1>1, FetchYaksType DEF ScreensTypeOK
<1>2. CASE /\ rows' = IF s = "map" THEN [rows EXCEPT ![p]["map"] = NoRows] ELSE rows
           /\ UNCHANGED clientVars
  <2>1. ClientTypeOK'
    BY <1>2 DEF ClientTypeOK, clientVars
  <2> QED
    BY <1>2, <2>1, RowsTypes DEF ScreensTypeOK
<1> QED
  BY <1>1, <1>2 DEF Appear

LEMMA DeliverFetchType ==
    ASSUME ClientTypeOK, ScreensTypeOK, NEW p \in Phones, DeliverFetch(p)
    PROVE  ClientTypeOK' /\ ScreensTypeOK'
<1> DEFINE a == Head(answered[p])
<1>1. ClientTypeOK' /\ a.req.screen \in Screens
  BY FetchCallbackType DEF DeliverFetch
<1>2. PICK near \in SUBSET Docs :
        rows' = [rows EXCEPT ![p][a.req.screen] =
            [d \in Docs |-> IF d \in near THEN a.snapshot[d] ELSE Absent]]
  BY DEF DeliverFetch
<1>3. a.snapshot \in Snapshots
  BY HeadAnswer DEF DeliverFetch, FetchCallback
<1>4. [d \in Docs |-> IF d \in near THEN a.snapshot[d] ELSE Absent]
        \in [Docs -> Values \cup {Absent}]
  BY <1>3 DEF Snapshots
<1>5. rows' \in [Phones -> [Screens -> [Docs -> Values \cup {Absent}]]]
  <2> HIDE DEF a
  <2> QED
    BY <1>1, <1>2, <1>4 DEF ScreensTypeOK
<1> QED
  BY <1>1, <1>5 DEF DeliverFetch, ScreensTypeOK

LEMMA SelectYakType ==
    ASSUME ClientTypeOK, ScreensTypeOK, NEW p \in Phones, NEW d \in Docs, SelectYak(p, d)
    PROVE  ClientTypeOK' /\ ScreensTypeOK'
<1> DEFINE copy == [doc |-> d, value |-> rows[p][tab[p]][d]]
           o == [screen |-> tab[p], copy |-> copy]
<1>1. tab[p] \in Screens /\ rows[p][tab[p]][d] \in Values
  BY DEF SelectYak, ScreensTypeOK
<1>2. copy \in Copies /\ o \in Openings
  BY <1>1 DEF Copies, Openings
<1>3. /\ message' = [message EXCEPT ![p] = copy] \/ message' = message
      /\ opening' = [opening EXCEPT ![p] = @ \cup {o}] \/ opening' = opening
  BY DEF SelectYak
<1> HIDE DEF copy, o
<1>4. message' \in [Phones -> Copies \cup {Absent}]
  BY <1>2, <1>3 DEF ScreensTypeOK
<1>5. opening' \in [Phones -> SUBSET Openings]
  <2>1. opening \in [Phones -> SUBSET Openings]
    BY DEF ScreensTypeOK
  <2>2. o \in Openings /\ (opening' = opening \/ opening' = [opening EXCEPT ![p] = @ \cup {o}])
    BY <1>2, <1>3
  <2> QED
    BY <2>1, <2>2
<1> QED
  BY <1>4, <1>5 DEF SelectYak, ScreensTypeOK, ClientTypeOK, clientVars

LEMMA ImageArrivesType ==
    ASSUME ClientTypeOK, ScreensTypeOK, NEW p \in Phones, ImageArrives(p)
    PROVE  ClientTypeOK' /\ ScreensTypeOK'
<1>1. PICK o \in opening[p] :
        /\ opening' = [opening EXCEPT ![p] = @ \ {o}]
        /\ imageCache' = [imageCache EXCEPT ![p][o.screen] = @ \cup {o.copy.doc}]
        /\ message' = IF message[p] = Absent /\ o.screen = tab[p]
                      THEN [message EXCEPT ![p] = o.copy]
                      ELSE message
  BY DEF ImageArrives
<1>2. o.copy \in Copies /\ o.screen \in Screens /\ o.copy.doc \in Docs
  BY DEF ScreensTypeOK, Openings, Copies
<1>3. imageCache' \in [Phones -> [Screens -> SUBSET Docs]]
  BY <1>1, <1>2 DEF ScreensTypeOK
<1>4. message' \in [Phones -> Copies \cup {Absent}]
  BY <1>1, <1>2 DEF ScreensTypeOK
<1>5. opening' \in [Phones -> SUBSET Openings]
  BY <1>1 DEF ScreensTypeOK
<1> QED
  BY <1>3, <1>4, <1>5 DEF ImageArrives, ScreensTypeOK, ClientTypeOK, clientVars

\* Looking at yaks keeps the store and the screens in their types.
LEMMA LookType ==
    ASSUME ClientTypeOK, ScreensTypeOK, NEW p \in Phones, LookStep(p)
    PROVE  ClientTypeOK' /\ ScreensTypeOK'
<1>1. CASE ListRefresh(p)
  BY <1>1, FetchYaksType, ScreensAssumption DEF ListRefresh, ScreensTypeOK, screenVars
<1>2. CASE ImageArrives(p)
  BY <1>2, ImageArrivesType
<1>3. CASE ImageFails(p)
  BY <1>3 DEF ImageFails, ScreensTypeOK, ClientTypeOK, clientVars
<1>4. CASE DeliverFetch(p)
  BY <1>4, DeliverFetchType
<1>5. ASSUME NEW s \in Screens, SwitchTab(p, s) PROVE ClientTypeOK' /\ ScreensTypeOK'
  BY <1>5, AppearType DEF SwitchTab, ScreensTypeOK
<1>6. ASSUME NEW d \in Docs, SelectYak(p, d) PROVE ClientTypeOK' /\ ScreensTypeOK'
  BY <1>6, SelectYakType
<1>7. CASE CloseMessage(p)
  <2>1. tab[p] \in Screens
    BY DEF ScreensTypeOK
  <2> QED
    BY <1>7, <2>1, AppearType DEF CloseMessage, ScreensTypeOK
<1>8. CASE StoreStep(p)
  BY <1>8, AnswerType, CommitType, AcknowledgeType, ReconnectType
     DEF StoreStep, ScreensTypeOK, screenVars
<1> QED
  BY <1>1, <1>2, <1>3, <1>4, <1>5, <1>6, <1>7, <1>8
  DEF LookStep, ScreenStep, NavigationStep

LEMMA RestartType ==
    ASSUME ClientTypeOK, ScreensTypeOK, NEW p \in Phones, RestartScreens(p)
    PROVE  ClientTypeOK' /\ ScreensTypeOK'
<1>1. tab' \in [Phones -> Screens] /\ message' \in [Phones -> Copies \cup {Absent}]
  BY ScreensAssumption DEF RestartScreens, ScreensTypeOK
<1>2. opening' \in [Phones -> SUBSET Openings]
  BY DEF RestartScreens, ScreensTypeOK
<1>3. rows' \in [Phones -> [Screens -> [Docs -> Values \cup {Absent}]]]
  BY RowsTypes DEF RestartScreens, ScreensTypeOK
<1>4. imageCache' \in [Phones -> [Screens -> SUBSET Docs]]
  BY DEF RestartScreens, ScreensTypeOK
<1> QED
  BY <1>1, <1>2, <1>3, <1>4, LossType DEF RestartScreens, ScreensTypeOK

LEMMA ScreensInitType ==
    ASSUME NEW initial \in Snapshots, ClientInit(initial), ScreensInit
    PROVE  ClientTypeOK /\ ScreensTypeOK
<1>1. ClientTypeOK
  BY DEF ClientInit, ClientTypeOK
<1> QED
  BY <1>1, RowsTypes, ScreensAssumption DEF ScreensInit, ScreensTypeOK

-----------------------------------------------------------------------------
(* Looking at yaks leaves what is under way alone.                           *)

LEMMA FetchKeepsRest ==
    ASSUME ClientTypeOK, NEW p \in Phones, NEW s \in Screens, FetchYaks(p, s),
           NEW e \in Docs, NEW v, ComesToRestAt(e, v)
    PROVE  ComesToRestAt(e, v)'
<1>1. Fetch(s) \in Requests /\ ~IsUpdate(Fetch(s), e)
  BY RequestTypes DEF Fetch, IsUpdate
<1> QED
  BY <1>1, AskKeepsRest DEF FetchYaks

\* However often yaks are fetched, opened and closed while updates are on
\* their way, each document comes to rest where it would have.
LEMMA LookKeepsRest ==
    ASSUME ClientTypeOK, ScreensTypeOK, NEW p \in Phones, LookStep(p),
           NEW e \in Docs, NEW v, ComesToRestAt(e, v)
    PROVE  ComesToRestAt(e, v)'
<1>1. CASE ListRefresh(p)
  BY <1>1, FetchKeepsRest, ScreensAssumption DEF ListRefresh
<1>2. ASSUME NEW s \in Screens, Appear(p, s) PROVE ComesToRestAt(e, v)'
  BY <1>2, FetchKeepsRest, IdleKeepsRest DEF Appear, clientVars
<1>3. ASSUME NEW s \in Screens, SwitchTab(p, s) PROVE ComesToRestAt(e, v)'
  BY <1>2, <1>3 DEF SwitchTab
<1>4. CASE CloseMessage(p)
  BY <1>2, <1>4 DEF CloseMessage, ScreensTypeOK
<1>5. ASSUME NEW d \in Docs, SelectYak(p, d) PROVE ComesToRestAt(e, v)'
  BY <1>5, IdleKeepsRest DEF SelectYak, clientVars
<1>6. CASE ImageArrives(p) \/ ImageFails(p)
  BY <1>6, IdleKeepsRest DEF ImageArrives, ImageFails, clientVars
<1>7. CASE DeliverFetch(p)
  BY <1>7, FetchCallbackKeepsRest DEF DeliverFetch
<1>8. CASE StoreStep(p)
  BY <1>8, AnswerKeepsRest, CommitKeepsRest, AcknowledgeKeepsRest, ReconnectKeepsRest
     DEF StoreStep
<1> QED
  BY <1>1, <1>3, <1>4, <1>5, <1>6, <1>7, <1>8 DEF LookStep, ScreenStep, NavigationStep

-----------------------------------------------------------------------------
(* A presented message has its image.                                        *)

\* A message is presented only once its image is in the cache of the screen
\* that shows, and that screen stays until the message is closed.
LEMMA LookKeepsImage ==
    ASSUME ScreensTypeOK, MessageHasImage, NEW p \in Phones, LookStep(p)
    PROVE  MessageHasImage'
<1> USE DEF ScreensTypeOK, MessageHasImage
<1>1. CASE \/ ListRefresh(p) \/ ImageFails(p) \/ DeliverFetch(p) \/ StoreStep(p)
  BY <1>1 DEF ListRefresh, ImageFails, DeliverFetch, StoreStep, screenVars
<1>2. ASSUME NEW s \in Screens, SwitchTab(p, s) PROVE MessageHasImage'
  BY <1>2 DEF SwitchTab
<1>3. CASE CloseMessage(p)
  BY <1>3 DEF CloseMessage
<1>4. ASSUME NEW d \in Docs, SelectYak(p, d) PROVE MessageHasImage'
  <2>1. UNCHANGED <<tab, imageCache>>
    BY <1>4 DEF SelectYak
  <2>2. \/ UNCHANGED message
        \/ /\ d \in imageCache[p][tab[p]]
           /\ message' = [message EXCEPT ![p] = [doc |-> d, value |-> rows[p][tab[p]][d]]]
    BY <1>4 DEF SelectYak
  <2> QED
    BY <2>1, <2>2
<1>5. CASE ImageArrives(p)
  <2>1. PICK o \in opening[p] :
          /\ imageCache' = [imageCache EXCEPT ![p][o.screen] = @ \cup {o.copy.doc}]
          /\ message' = IF message[p] = Absent /\ o.screen = tab[p]
                        THEN [message EXCEPT ![p] = o.copy]
                        ELSE message
          /\ tab' = tab
    BY <1>5 DEF ImageArrives
  <2>2. o.screen \in Screens /\ o.copy \in Copies /\ o.copy.doc \in Docs
    BY DEF Openings, Copies
  <2>3. \A q \in Phones : imageCache[q][tab[q]] \subseteq imageCache'[q][tab[q]]
    BY <2>1, <2>2
  <2>4. o.screen = tab[p] => o.copy.doc \in imageCache'[p][tab[p]]
    BY <2>1, <2>2
  <2>5. \A q \in Phones : message'[q] # message[q] =>
            q = p /\ message'[q] = o.copy /\ o.screen = tab[p]
    BY <2>1
  <2> QED
    BY <2>1, <2>3, <2>4, <2>5
<1> QED
  BY <1>1, <1>2, <1>3, <1>4, <1>5 DEF LookStep, ScreenStep, NavigationStep

LEMMA RestartKeepsImage ==
    ASSUME ScreensTypeOK, MessageHasImage, NEW p \in Phones, RestartScreens(p)
    PROVE  MessageHasImage'
BY DEF ScreensTypeOK, MessageHasImage, RestartScreens

-----------------------------------------------------------------------------
(* What a screen shows of a document came from the store.                    *)

LEMMA ShowsMore ==
    ASSUME NEW d \in Docs, NEW S, NEW T, S \subseteq T, ShowsOnly(d, S)
    PROVE  ShowsOnly(d, T)
BY DEF ShowsOnly

\* Fetched rows, opened messages and late images pass values on and make none.
LEMMA LookShowsOnly ==
    ASSUME ClientTypeOK, ScreensTypeOK, NEW p \in Phones, LookStep(p),
           NEW d \in Docs, NEW S, HoldsOnly(d, S), ShowsOnly(d, S)
    PROVE  HoldsOnly(d, S)' /\ ShowsOnly(d, S)'
<1>1. ASSUME NEW s \in Screens, FetchYaks(p, s) PROVE HoldsOnly(d, S)'
  <2>1. Fetch(s) \in Requests /\ Carries(Fetch(s), d, S)
    BY RequestTypes DEF Fetch, Carries, IsUpdate
  <2> QED
    BY <1>1, <2>1, AskHoldsOnly DEF FetchYaks
<1>2. ASSUME UNCHANGED clientVars PROVE HoldsOnly(d, S)'
  BY <1>2, IdleHoldsOnly
<1>3. ASSUME UNCHANGED <<rows, message, opening>> PROVE ShowsOnly(d, S)'
  BY <1>3 DEF ShowsOnly
<1>4. CASE ListRefresh(p)
  BY <1>1, <1>3, <1>4, ScreensAssumption DEF ListRefresh, screenVars
<1>5. ASSUME NEW s \in Screens, Appear(p, s)
      PROVE  /\ HoldsOnly(d, S)'
             /\ \A q \in Phones, t \in Screens : rows'[q][t][d] \in S \cup {Absent}
  <2>1. HoldsOnly(d, S)'
    BY <1>1, <1>2, <1>5 DEF Appear
  <2>2. rows' = rows \/ (s = "map" /\ rows' = [rows EXCEPT ![p]["map"] = NoRows])
    BY <1>5 DEF Appear
  <2>3. CASE rows' = rows
    BY <2>1, <2>3 DEF ShowsOnly
  <2>4. CASE s = "map" /\ rows' = [rows EXCEPT ![p]["map"] = NoRows]
    <3>1. \A q \in Phones, t \in Screens : rows'[q][t] = rows[q][t] \/ rows'[q][t] = NoRows
      BY <2>4 DEF ScreensTypeOK
    <3> QED
      BY <2>1, <3>1 DEF ShowsOnly, NoRows
  <2> QED
    BY <2>2, <2>3, <2>4
<1>6. ASSUME NEW s \in Screens, SwitchTab(p, s) PROVE HoldsOnly(d, S)' /\ ShowsOnly(d, S)'
  BY <1>5, <1>6 DEF SwitchTab, ShowsOnly
<1>7. CASE CloseMessage(p)
  <2>1. tab[p] \in Screens
    BY DEF ScreensTypeOK
  <2> QED
    BY <1>5, <1>7, <2>1 DEF CloseMessage, ShowsOnly, ScreensTypeOK
<1>8. ASSUME NEW e \in Docs, SelectYak(p, e) PROVE HoldsOnly(d, S)' /\ ShowsOnly(d, S)'
  <2> DEFINE copy == [doc |-> e, value |-> rows[p][tab[p]][e]]
             o == [screen |-> tab[p], copy |-> copy]
  <2>1. e = d => rows[p][tab[p]][e] \in S
    BY <1>8 DEF SelectYak, ShowsOnly, ScreensTypeOK
  <2>2. /\ copy.doc = d => copy.value \in S
        /\ o.copy = copy
    BY <2>1
  <2>3. /\ message' = [message EXCEPT ![p] = copy] \/ message' = message
        /\ opening' = [opening EXCEPT ![p] = @ \cup {o}] \/ opening' = opening
        /\ UNCHANGED <<clientVars, rows>>
    BY <1>8 DEF SelectYak
  <2> HIDE DEF copy, o
  <2>4. \A q \in Phones : message'[q] = message[q] \/ message'[q] = copy
    BY <2>3 DEF ScreensTypeOK
  <2>5. \A q \in Phones : \A x \in opening'[q] : x \in opening[q] \/ x = o
    <3>1. CASE opening' = opening
      BY <3>1
    <3>2. CASE opening' = [opening EXCEPT ![p] = @ \cup {o}]
      <4>1. opening'[p] = opening[p] \cup {o} /\ \A q \in Phones \ {p} : opening'[q] = opening[q]
        BY <3>2 DEF ScreensTypeOK
      <4> QED
        BY <4>1
    <3> QED
      BY <2>3, <3>1, <3>2
  <2> QED
    BY <1>2, <2>2, <2>3, <2>4, <2>5 DEF ShowsOnly
<1>9. CASE ImageArrives(p)
  <2>1. PICK o \in opening[p] :
          /\ opening' = [opening EXCEPT ![p] = @ \ {o}]
          /\ message' = [message EXCEPT ![p] = o.copy] \/ message' = message
          /\ UNCHANGED <<clientVars, rows>>
    BY <1>9 DEF ImageArrives
  <2>2. \A q \in Phones : message'[q] = message[q] \/ message'[q] = o.copy
    BY <2>1 DEF ScreensTypeOK
  <2>3. \A q \in Phones : opening'[q] \subseteq opening[q]
    BY <2>1 DEF ScreensTypeOK
  <2> QED
    BY <1>2, <2>1, <2>2, <2>3 DEF ShowsOnly
<1>10. CASE ImageFails(p)
  <2>1. \A q \in Phones : opening'[q] \subseteq opening[q]
    BY <1>10 DEF ImageFails, ScreensTypeOK
  <2> QED
    BY <1>2, <1>10, <2>1 DEF ImageFails, ShowsOnly
<1>11. CASE DeliverFetch(p)
  <2> DEFINE a == Head(answered[p])
  <2>1. HoldsOnly(d, S)' /\ a.snapshot[d] \in S
    BY <1>11, CallbackHoldsOnly DEF DeliverFetch
  <2>2. PICK near \in SUBSET Docs :
          rows' = [rows EXCEPT ![p][a.req.screen] =
              [e \in Docs |-> IF e \in near THEN a.snapshot[e] ELSE Absent]]
    BY <1>11 DEF DeliverFetch
  <2>3. UNCHANGED <<message, opening>>
    BY <1>11 DEF DeliverFetch
  <2> HIDE DEF a
  <2>4. \A q \in Phones, t \in Screens : rows'[q][t][d] \in S \cup {Absent}
    BY <2>1, <2>2 DEF ScreensTypeOK, ShowsOnly
  <2> QED
    BY <2>1, <2>3, <2>4 DEF ShowsOnly
<1>12. CASE StoreStep(p)
  BY <1>3, <1>12, AnswerHoldsOnly, CommitHoldsOnly, AcknowledgeHoldsOnly, ReconnectHoldsOnly
     DEF StoreStep, screenVars
<1> QED
  BY <1>4, <1>6, <1>7, <1>8, <1>9, <1>10, <1>11, <1>12
  DEF LookStep, ScreenStep, NavigationStep

LEMMA RestartShowsOnly ==
    ASSUME ClientTypeOK, ScreensTypeOK, NEW p \in Phones, RestartScreens(p),
           NEW d \in Docs, NEW S, HoldsOnly(d, S), ShowsOnly(d, S)
    PROVE  HoldsOnly(d, S)' /\ ShowsOnly(d, S)'
<1>1. HoldsOnly(d, S)'
  BY LossHoldsOnly DEF RestartScreens
<1>2. ShowsOnly(d, S)'
  BY DEF RestartScreens, ScreensTypeOK, ShowsOnly, NoRows
<1> QED
  BY <1>1, <1>2

=============================================================================
