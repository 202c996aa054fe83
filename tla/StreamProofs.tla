---------------------------- MODULE StreamProofs -----------------------------
(***************************************************************************)
(* Proofs about the two streams of the Firestore SDK, for any longest delay: *)
(* about the write stream, for any number of batches, length of the pipeline *)
(* and set of refused batches, and about the watch stream, for any number of *)
(* calls and any bound on events.                                           *)
(*                                                                         *)
(* The write queue is always a window: the newest batches, without a gap.    *)
(* The pipeline is a front part of it, so that the first of the pipeline is   *)
(* the oldest batch not settled, and what is on the call is the pipeline      *)
(* again.                                                                  *)
(*                                                                         *)
(* What the watch stream waits for is what is on its call: as many replies as *)
(* there are requests not read and answers not read.  So once it waits for    *)
(* none, the last thing said on the call is about the newest listen.         *)
(*                                                                         *)
(* Calls join the query's listeners in their order and raise their events in  *)
(* it, so that those answered are the oldest: the watch stream is a queue of  *)
(* calls answered from the front.                                          *)
(***************************************************************************)
EXTENDS WriteStream, WatchStream, SequenceTheorems, FiniteSetTheorems, TLAPS

\* The queue q of a phone that has written w batches.
Window(q, w) ==
    /\ Len(q) <= w
    /\ \A i \in 1..Len(q) : q[i] = w - Len(q) + i

Front(line, q) ==
    /\ Len(line) <= Len(q)
    /\ \A i \in 1..Len(line) : line[i] = q[i]

-----------------------------------------------------------------------------
(* The queue and its operators.                                              *)

\* The batches at or before the pipeline's last are as many as the pipeline has.
LEMMA SeenIsLength ==
    ASSUME NEW w \in Nat, NEW q \in Seq(Nat), NEW line \in Seq(Nat),
           Window(q, w), Front(line, q)
    PROVE  Cardinality({i \in DOMAIN q : q[i] <= Last(line)}) = Len(line)
<1> DEFINE seen == {i \in DOMAIN q : q[i] <= Last(line)}
<1>1. DOMAIN q = 1..Len(q) /\ Len(q) \in Nat /\ Len(line) \in Nat
  BY LenProperties
<1>2. CASE line = <<>>
  <2>1. seen = {}
    BY <1>1, <1>2 DEF Window, Last
  <2> QED
    BY <1>2, <2>1, FS_EmptySet
<1>3. CASE line # <<>>
  <2>1. Len(line) >= 1
    BY <1>3, EmptySeq
  <2>2. Last(line) = w - Len(q) + Len(line)
    <3>1. line[Len(line)] = q[Len(line)] /\ Len(line) \in 1..Len(q)
      BY <1>1, <2>1 DEF Front
    <3>2. q[Len(line)] = w - Len(q) + Len(line)
      BY <3>1 DEF Window
    <3> QED
      BY <1>3, <3>1, <3>2 DEF Last
  <2>3. seen = 1..Len(line)
    BY <1>1, <2>1, <2>2 DEF Window, Front
  <2>4. Cardinality(1..Len(line)) = Len(line)
    BY <1>1, <2>1, FS_Interval
  <2> QED
    BY <2>3, <2>4
<1> QED
  BY <1>2, <1>3

\* FillWritePipeline's batches continue the pipeline along the queue, up to the
\* bound, and there are some if the pipeline was empty and the queue is not.
LEMMA FollowingContinues ==
    ASSUME NEW w \in Nat, NEW q \in Seq(Batches), NEW line \in Seq(Batches),
           Window(q, w), Front(line, q), Len(line) <= MaxPending
    PROVE  /\ Following(q, line) \in Seq(Batches)
           /\ line \o Following(q, line) \in Seq(Batches)
           /\ Len(line \o Following(q, line)) <= MaxPending
           /\ Front(line \o Following(q, line), q)
           /\ line \o Following(q, line) = <<>> => q = <<>>
<1> DEFINE to == Len(line) + MaxPending - Len(line)
           end == IF to < Len(q) THEN to ELSE Len(q)
           more == SubSeq(q, Len(line) + 1, end)
<1>1. q \in Seq(Nat) /\ line \in Seq(Nat)
  BY SeqMonotonic, Batches \subseteq Nat DEF Batches
<1>2. Following(q, line) = more
  BY <1>1, SeenIsLength DEF Following
<1>3. MaxPending \in Nat \ {0} /\ Len(q) \in Nat /\ Len(line) \in Nat
  BY WriteAssumption, LenProperties
<1>4. \A i \in Len(line) + 1 .. end : q[i] \in Batches
  BY <1>3, ElementOfSeq
<1>5. /\ more \in Seq(Batches)
      /\ Len(more) = IF Len(line) + 1 <= end THEN end - Len(line) ELSE 0
      /\ \A i \in 1 .. end - Len(line) : more[i] = q[Len(line) + i]
  <2> HIDE DEF end
  <2>1. end \in Int
    BY <1>3 DEF end
  <2> QED
    BY <1>3, <1>4, <2>1, SubSeqProperties
<1>6. /\ line \o more \in Seq(Batches)
      /\ Len(line \o more) = Len(line) + Len(more)
      /\ \A i \in 1 .. Len(line) + Len(more) : (line \o more)[i] =
             IF i <= Len(line) THEN line[i] ELSE more[i - Len(line)]
  <2> HIDE DEF more
  <2> QED
    BY <1>5, ConcatProperties
<1>7. Len(line) + Len(more) = IF Len(q) > MaxPending THEN MaxPending ELSE Len(q)
  BY <1>3, <1>5 DEF Front
<1>8. ASSUME NEW i \in 1 .. Len(line) + Len(more)
      PROVE  (line \o more)[i] = q[i]
  BY <1>3, <1>5, <1>6, <1>7 DEF Front
<1>9. line \o more = <<>> => q = <<>>
  <2>1. line \o more = <<>> => Len(line) + Len(more) = 0
    BY <1>6, EmptySeq
  <2> QED
    BY <1>3, <1>7, <2>1, EmptySeq
<1> QED
  BY <1>2, <1>3, <1>5, <1>6, <1>7, <1>8, <1>9 DEF Front

\* Removing the oldest batch leaves the queue without its first.
LEMMA WithoutFirst ==
    ASSUME NEW w \in Nat, NEW q \in Seq(Batches), Window(q, w), q # <<>>
    PROVE  Without(q, q[1]) = Tail(q)
<1>1. DOMAIN q = 1..Len(q) /\ Len(q) \in Nat /\ Len(q) >= 1
  BY LenProperties, EmptySeq
<1>2. \A i \in DOMAIN q : q[i] = q[1] => i = 1
  BY <1>1 DEF Window
<1>3. (CHOOSE i \in DOMAIN q : q[i] = q[1]) = 1
  BY <1>1, <1>2
<1>4. ~ \A i \in DOMAIN q : q[i] # q[1]
  BY <1>1
<1>5. Without(q, q[1]) = SubSeq(q, 1, 0) \o SubSeq(q, 2, Len(q))
  <2>1. 1 - 1 = 0 /\ 1 + 1 = 2
    OBVIOUS
  <2> QED
    BY <1>3, <1>4, <2>1 DEF Without
<1>6. SubSeq(q, 1, 0) = <<>>
  BY SubSeqEmpty
<1>7. SubSeq(q, 2, Len(q)) = Tail(q)
  BY TailIsSubSeq
<1> QED
  BY <1>5, <1>6, <1>7, HeadTailProperties, ConcatEmptySeq

\* A new batch, and the settling of the oldest, keep the window.
LEMMA WindowGrows ==
    ASSUME NEW w \in Nat, NEW q \in Seq(Batches), Window(q, w), w + 1 \in Batches
    PROVE  /\ Append(q, w + 1) \in Seq(Batches)
           /\ Append(q, w + 1) # <<>>
           /\ Window(Append(q, w + 1), w + 1)
           /\ \A line \in Seq(Batches) : Front(line, q) => Front(line, Append(q, w + 1))
BY AppendProperties, LenProperties DEF Window, Front

LEMMA WindowShrinks ==
    ASSUME NEW w \in Nat, NEW q \in Seq(Batches), NEW line \in Seq(Batches),
           Window(q, w), Front(line, q), line # <<>>
    PROVE  /\ q # <<>> /\ Head(line) = q[1] /\ Head(line) = w - Len(q) + 1
           /\ Without(q, Head(line)) = Tail(q)
           /\ Tail(q) \in Seq(Batches) /\ Tail(line) \in Seq(Batches)
           /\ Len(Tail(q)) = Len(q) - 1 /\ Len(Tail(line)) = Len(line) - 1
           /\ Window(Tail(q), w)
           /\ Front(Tail(line), Tail(q))
<1>1. Len(line) \in Nat /\ Len(q) \in Nat /\ Len(line) >= 1
  BY LenProperties, EmptySeq
<1>2. q # <<>>
  BY <1>1, EmptySeq DEF Front
<1>3. Head(line) = line[1]
  BY <1>1
<1>4. Head(line) = q[1] /\ q[1] = w - Len(q) + 1
  BY <1>1, <1>3 DEF Front, Window
<1>5. Without(q, Head(line)) = Tail(q)
  BY <1>2, <1>4, WithoutFirst
<1>6. /\ Tail(q) \in Seq(Batches) /\ Len(Tail(q)) = Len(q) - 1
      /\ \A i \in 1..Len(Tail(q)) : Tail(q)[i] = q[i + 1]
  BY <1>2, HeadTailProperties
<1>7. /\ Tail(line) \in Seq(Batches) /\ Len(Tail(line)) = Len(line) - 1
      /\ \A i \in 1..Len(Tail(line)) : Tail(line)[i] = line[i + 1]
  BY HeadTailProperties
<1>8. Window(Tail(q), w)
  BY <1>1, <1>6 DEF Window, Front
<1>9. Front(Tail(line), Tail(q))
  BY <1>1, <1>6, <1>7 DEF Front
<1> QED
  BY <1>2, <1>4, <1>5, <1>6, <1>7, <1>8, <1>9

-----------------------------------------------------------------------------
(* The stream's operators.                                                   *)

LEMMA StreamTypes ==
    ASSUME NEW s \in Streams
    PROVE  /\ Start(s) \in Streams /\ Restart(s) \in Streams
           /\ OnStreamStart(s) \in Streams
           /\ MarkIdle(s) \in Streams /\ CancelIdleCheck(s) \in Streams
           /\ ResetBackoff(s) \in Streams
           /\ \A status : Close(s, status) \in Streams
           /\ \A status : InhibitBackoff(Close(s, status)) \in Streams
<1>1. /\ 0 \in Levels /\ MaxLevel \in Levels
      /\ \A level \in Levels : NextBase(level) \in Levels
  BY LevelAssumption DEF Levels, NextBase
<1>2. \A t \in Streams : Start(t) \in Streams
  BY <1>1 DEF Streams, Start, BackoffAndTryRestarting
<1>3. \A t \in Streams : [t EXCEPT !.state = "initial"] \in Streams
  BY DEF Streams
<1>4. \A t \in Streams : ResetBackoff(t) \in Streams
  BY <1>1 DEF Streams, ResetBackoff
<1>5. \A status : Close(s, status) \in Streams
  <2> TAKE status
  <2>1. CASE status = "ok"
    BY <1>1, <2>1 DEF Streams, Close
  <2>2. CASE status = "exhausted"
    BY <1>1, <2>2 DEF Streams, Close
  <2>3. CASE status # "ok" /\ status # "exhausted"
    BY <1>1, <2>3 DEF Streams, Close
  <2> QED
    BY <2>1, <2>2, <2>3
<1> QED
  BY <1>2, <1>3, <1>4, <1>5
     DEF Streams, Restart, OnStreamStart, MarkIdle, IsOpen, CancelIdleCheck, InhibitBackoff

\* What starting leaves alone: a stream is open only after OnStreamStart.
LEMMA StreamShapes ==
    ASSUME NEW s \in Streams
    PROVE  /\ ~IsOpen(Start(s)) /\ ~IsOpen(Restart(s))
           /\ Start(s).idle = s.idle /\ Restart(s).idle = s.idle
           /\ IsOpen(MarkIdle(s)) = IsOpen(s)
           /\ MarkIdle(s).idle = (s.idle \/ IsOpen(s))
           /\ IsOpen(CancelIdleCheck(s)) = IsOpen(s) /\ ~CancelIdleCheck(s).idle
           /\ IsOpen(ResetBackoff(s)) = IsOpen(s) /\ ResetBackoff(s).idle = s.idle
           /\ \A status : ~IsOpen(Close(s, status)) /\ ~Close(s, status).idle
           /\ \A status : /\ ~IsOpen(InhibitBackoff(Close(s, status)))
                          /\ ~InhibitBackoff(Close(s, status)).idle
BY DEF Streams, Start, Restart, BackoffAndTryRestarting, MarkIdle, IsOpen, CancelIdleCheck,
       ResetBackoff, Close, InhibitBackoff

\* Filling the pipeline from a window of the batches: the pipeline stays a front
\* part of the queue, a call that carried it carries it still, and the idleness
\* timer goes on only with nothing to send.
LEMMA FillKeeps ==
    ASSUME NEW w \in Nat, NEW q \in Seq(Batches), NEW line \in Seq(Batches),
           NEW s \in Streams, NEW call \in Seq({Hello} \cup Batches),
           Window(q, w), Front(line, q), Len(line) <= MaxPending,
           FillWritePipeline(q, line, s, call)
    PROVE  /\ queue' = q
           /\ pipeline' \in Seq(Batches) /\ Len(pipeline') <= MaxPending
           /\ Front(pipeline', q)
           /\ pipeline' = <<>> => q = <<>>
           /\ up' \in Seq({Hello} \cup Batches)
           /\ ~CanSend(s) => up' = call
           /\ CanSend(s) => \A d \in Seq({Hello} \cup Batches) :
                                d \o call = line => d \o up' = pipeline'
           /\ stream' \in Streams
           /\ IsOpen(stream') = IsOpen(s)
           /\ stream'.idle => \/ pipeline' = <<>> /\ (s.idle \/ IsOpen(s))
                              \/ s.idle /\ (CanSend(s) => pipeline' = line)
<1> DEFINE more == Following(q, line)
<1>1. /\ more \in Seq(Batches)
      /\ line \o more \in Seq(Batches)
      /\ Len(line \o more) <= MaxPending
      /\ Front(line \o more, q)
      /\ line \o more = <<>> => q = <<>>
  BY FollowingContinues
<1>2. /\ queue' = q
      /\ pipeline' = line \o more
      /\ up' = IF CanSend(s) THEN call \o more ELSE call
      /\ stream' = IF line \o more = <<>> THEN MarkIdle(s)
                   ELSE IF ~IsStarted(s) THEN Start(s)
                   ELSE IF CanSend(s) /\ more # <<>> THEN CancelIdleCheck(s)
                   ELSE s
  BY DEF FillWritePipeline
<1> HIDE DEF more
<1>3. more \in Seq({Hello} \cup Batches)
  BY <1>1, SeqMonotonic
<1>4. up' \in Seq({Hello} \cup Batches)
  BY <1>2, <1>3, ConcatProperties
<1>5. ASSUME CanSend(s), NEW d \in Seq({Hello} \cup Batches), d \o call = line
      PROVE  d \o up' = pipeline'
  <2>1. (d \o call) \o more = d \o (call \o more)
    BY <1>3, ConcatAssociative
  <2> QED
    BY <1>2, <1>5, <2>1
<1>6. stream' \in Streams
  BY <1>2, StreamTypes
<1>7. IsOpen(stream') = IsOpen(s)
  <2>1. ~IsStarted(s) => ~IsOpen(s)
    BY DEF IsStarted, IsOpen
  <2>2. \/ stream' = MarkIdle(s) \/ stream' = CancelIdleCheck(s) \/ stream' = s
        \/ ~IsStarted(s) /\ stream' = Start(s)
    BY <1>2
  <2> QED
    BY <2>1, <2>2, StreamShapes DEF IsOpen
<1>8. stream'.idle => \/ pipeline' = <<>> /\ (s.idle \/ IsOpen(s))
                      \/ s.idle /\ (CanSend(s) => pipeline' = line)
  <2>1. CASE line \o more = <<>>
    BY <1>2, <2>1, StreamShapes
  <2>2. CASE line \o more # <<>> /\ ~IsStarted(s)
    BY <1>2, <2>2, StreamShapes DEF CanSend, IsOpen, IsStarted
  <2>3. CASE line \o more # <<>> /\ IsStarted(s) /\ CanSend(s) /\ more # <<>>
    BY <1>2, <2>3, StreamShapes
  <2>4. CASE line \o more # <<>> /\ IsStarted(s) /\ ~(CanSend(s) /\ more # <<>>)
    <3>1. more = <<>> => line \o more = line
      BY ConcatEmptySeq
    <3> QED
      BY <1>2, <2>4, <3>1
  <2> QED
    BY <2>1, <2>2, <2>3, <2>4
<1> QED
  BY <1>1, <1>2, <1>4, <1>5, <1>6, <1>7, <1>8

-----------------------------------------------------------------------------
(* The invariant.                                                            *)

QueueInv == Window(queue, written) /\ Front(pipeline, queue)

\* What is on the call: nothing without an open stream, then the handshake or its
\* reply, then the pipeline.  The call that ends with a refusal ends at its batch.
CallInv ==
    /\ shaken => IsOpen(stream) /\ down \o up = pipeline
    /\ ~IsOpen(stream) => up = <<>> /\ down = <<>> /\ ~ended
    /\ IsOpen(stream) /\ ~shaken =>
          \/ up = <<Hello>> /\ down = <<>>
          \/ up = <<>> /\ down = <<Hello>>
    /\ ended => shaken /\ up # <<>> /\ Head(up) \in refusals
    /\ stream.idle => IsOpen(stream) /\ shaken /\ pipeline = <<>> /\ queue = <<>>

\* What the backend did: the replies under way are of batches it took, the last of
\* them gave the field its value, and the batches before the window are settled.
TakenInv ==
    /\ shaken => \A i \in 1..Len(down) : down[i] \in takenEver
    /\ shaken /\ down # <<>> => held = down[Len(down)]
    /\ refusals \subseteq Refused
    /\ \A b \in 1..(written - Len(queue)) : b \in takenEver \cup refusals
    /\ \A b \in (1..(written - Len(queue))) \ Refused : b <= held

Inv == TypeOK /\ QueueInv /\ CallInv /\ TakenInv

LEMMA InitInv == Init => Inv
<1> SUFFICES ASSUME Init PROVE Inv
  OBVIOUS
<1>1. NewStream \in Streams
  BY LevelAssumption DEF NewStream, Streams, Levels
<1>2. TypeOK
  <2>1. 0 \in 0..MaxBatches /\ 0 \in 0..(MaxLevel + 1) /\ Len(<<>>) <= MaxPending
    BY WriteAssumption, LevelAssumption
  <2>2. <<>> \in Seq(Batches) /\ <<>> \in Seq({Hello} \cup Batches)
    OBVIOUS
  <2> QED
    BY <1>1, <2>1, <2>2 DEF Init, TypeOK, Hello
<1>3. QueueInv
  BY EmptySeq DEF Init, QueueInv, Window, Front
<1>4. CallInv
  BY DEF Init, CallInv, NewStream, IsOpen
<1>5. TakenInv
  BY EmptySeq DEF Init, TakenInv
<1> QED
  BY <1>2, <1>3, <1>4, <1>5 DEF Inv

\* Facts about the types that every step uses.
LEMMA Typed ==
    ASSUME TypeOK
    PROVE  /\ written \in Nat /\ Len(queue) \in Nat /\ Len(pipeline) \in Nat
           /\ Len(up) \in Nat /\ Len(down) \in Nat
           /\ 0 \notin Batches /\ Batches \subseteq Nat
           /\ <<>> \in Seq(Batches) /\ <<>> \in Seq({Hello} \cup Batches)
           /\ pipeline \in Seq({Hello} \cup Batches)
<1>1. pipeline \in Seq({Hello} \cup Batches)
  BY SeqMonotonic DEF TypeOK
<1> QED
  BY <1>1, WriteAssumption, EmptySeq, LenProperties DEF TypeOK, Batches

\* The first of the pipeline is the first reply, or else the first batch the
\* backend is to read.
LEMMA FirstOnCall ==
    ASSUME NEW S, NEW d \in Seq(S), NEW u \in Seq(S)
    PROVE  /\ d # <<>> => d \o u # <<>> /\ Head(d \o u) = Head(d) /\ Tail(d \o u) = Tail(d) \o u
           /\ d = <<>> => d \o u = u
           /\ u # <<>> => /\ d \o u # <<>>
                          /\ (d \o u)[Len(d) + 1] = Head(u)
                          /\ Len(d) + 1 \in 1..Len(d \o u)
                          /\ Append(d, Head(u)) \o Tail(u) = d \o u
<1>1. /\ d \o u \in Seq(S) /\ Len(d \o u) = Len(d) + Len(u)
      /\ \A i \in 1..Len(d) + Len(u) :
            (d \o u)[i] = IF i <= Len(d) THEN d[i] ELSE u[i - Len(d)]
  BY ConcatProperties
<1>2. Len(d) \in Nat /\ Len(u) \in Nat
  BY LenProperties
<1>3. ASSUME d # <<>>
      PROVE  d \o u # <<>> /\ Head(d \o u) = Head(d) /\ Tail(d \o u) = Tail(d) \o u
  <2>1. Len(d) >= 1
    BY <1>3, EmptySeq
  <2>2. d \o u # <<>>
    BY <1>1, <1>2, <2>1, EmptySeq
  <2>3. Head(d \o u) = (d \o u)[1] /\ Head(d) = d[1]
    BY <1>1, <2>2, <1>3
  <2>4. /\ Tail(d) \in Seq(S) /\ Len(Tail(d)) = Len(d) - 1
        /\ \A i \in 1..Len(Tail(d)) : Tail(d)[i] = d[i + 1]
    BY <1>3, HeadTailProperties
  <2>5. /\ Tail(d \o u) \in Seq(S) /\ Len(Tail(d \o u)) = Len(d \o u) - 1
        /\ \A i \in 1..Len(Tail(d \o u)) : Tail(d \o u)[i] = (d \o u)[i + 1]
    BY <1>1, <2>2, HeadTailProperties
  <2>6. /\ Tail(d) \o u \in Seq(S) /\ Len(Tail(d) \o u) = Len(d) - 1 + Len(u)
        /\ \A i \in 1..(Len(d) - 1 + Len(u)) : (Tail(d) \o u)[i] =
              IF i <= Len(d) - 1 THEN Tail(d)[i] ELSE u[i - (Len(d) - 1)]
    BY <2>4, ConcatProperties
  <2>7. ASSUME NEW i \in 1..(Len(d) - 1 + Len(u))
        PROVE  Tail(d \o u)[i] = (Tail(d) \o u)[i]
    <3>1. Tail(d \o u)[i] = IF i + 1 <= Len(d) THEN d[i + 1] ELSE u[i + 1 - Len(d)]
      BY <1>1, <1>2, <2>1, <2>5
    <3>2. (Tail(d) \o u)[i] = IF i <= Len(d) - 1 THEN d[i + 1] ELSE u[i - (Len(d) - 1)]
      BY <1>2, <2>1, <2>4, <2>6
    <3>3. i + 1 - Len(d) = i - (Len(d) - 1)
      BY <1>2
    <3> QED
      BY <1>2, <3>1, <3>2, <3>3
  <2>8. Tail(d \o u) = Tail(d) \o u
    <3>1. Len(Tail(d \o u)) = Len(d) - 1 + Len(u) /\ Len(Tail(d) \o u) = Len(d) - 1 + Len(u)
      BY <1>1, <1>2, <2>5, <2>6
    <3> QED
      BY <2>5, <2>6, <2>7, <3>1, SeqEqual
  <2> QED
    BY <1>1, <1>2, <2>1, <2>2, <2>3, <2>8
<1>4. ASSUME u # <<>>
      PROVE  /\ d \o u # <<>>
             /\ (d \o u)[Len(d) + 1] = Head(u)
             /\ Len(d) + 1 \in 1..Len(d \o u)
             /\ Append(d, Head(u)) \o Tail(u) = d \o u
  <2>1. Len(u) >= 1 /\ Head(u) \in S /\ Tail(u) \in Seq(S) /\ Head(u) = u[1]
    BY <1>4, EmptySeq, HeadTailProperties
  <2>2. u = <<Head(u)>> \o Tail(u)
    <3>1. Append(<<>>, Head(u)) = <<Head(u)>>
      BY <2>1
    <3>2. SubSeq(u, 1, Len(u)) = <<u[1]>> \o SubSeq(u, 2, Len(u))
      <4>1. 1 \in 1..Len(u) /\ Len(u) \in 1..Len(u) /\ 1 + 1 = 2
        BY <1>2, <2>1
      <4> QED
        BY <4>1, SubSeqRecursiveFirst
    <3> QED
      BY <1>4, <2>1, <3>2, SubSeqFull, TailIsSubSeq
  <2>3. <<Head(u)>> \in Seq(S)
    BY <2>1
  <2>4. Append(d, Head(u)) = d \o <<Head(u)>>
    BY <2>1, AppendIsConcat
  <2>5. (d \o <<Head(u)>>) \o Tail(u) = d \o (<<Head(u)>> \o Tail(u))
    BY <2>1, <2>3, ConcatAssociative
  <2>6. (d \o u)[Len(d) + 1] = u[1]
    BY <1>1, <1>2, <2>1
  <2>7. d \o u # <<>>
    BY <1>1, <1>2, <2>1, EmptySeq
  <2> QED
    BY <1>1, <1>2, <2>1, <2>2, <2>4, <2>5, <2>6, <2>7
<1> QED
  BY <1>3, <1>4, ConcatEmptySeq

-----------------------------------------------------------------------------
(* The steps.                                                                *)

LEMMA WriteMutationsKeeps == ASSUME Inv, WriteMutations PROVE Inv'
<1> USE DEF Inv
<1> DEFINE w == written + 1
           q == Append(queue, w)
<1>1. w \in Nat /\ w \in 0..MaxBatches /\ w \in Batches /\ written \in Nat
  BY Typed, WriteAssumption DEF WriteMutations, TypeOK, Batches
<1>2. q \in Seq(Batches) /\ q # <<>> /\ Window(q, w) /\ Front(pipeline, q)
  BY <1>1, WindowGrows DEF QueueInv, TypeOK
<1>3. FillWritePipeline(q, pipeline, stream, up)
  BY DEF WriteMutations
<1>4. Len(q) = Len(queue) + 1
  BY <1>1, AppendProperties DEF TypeOK
<1> HIDE DEF w, q
<1>5. /\ queue' = q
      /\ pipeline' \in Seq(Batches) /\ Len(pipeline') <= MaxPending
      /\ Front(pipeline', q)
      /\ pipeline' = <<>> => q = <<>>
      /\ up' \in Seq({Hello} \cup Batches)
      /\ ~CanSend(stream) => up' = up
      /\ CanSend(stream) => \A d \in Seq({Hello} \cup Batches) :
                           d \o up = pipeline => d \o up' = pipeline'
      /\ stream' \in Streams
      /\ IsOpen(stream') = IsOpen(stream)
      /\ stream'.idle => \/ pipeline' = <<>> /\ (stream.idle \/ IsOpen(stream))
                         \/ stream.idle /\ (CanSend(stream) => pipeline' = pipeline)
  BY <1>1, <1>2, <1>3, FillKeeps DEF TypeOK
<1>6. /\ written' = w
      /\ UNCHANGED <<shaken, down, ended, held, takenEver, refusals, fails>>
  BY DEF WriteMutations, backendVars, w
<1>7. TypeOK'
  BY <1>1, <1>2, <1>5, <1>6 DEF TypeOK
<1>8. QueueInv'
  BY <1>2, <1>5, <1>6 DEF QueueInv
<1>9. CallInv'
  <2>1. ~stream'.idle
    BY <1>2, <1>5 DEF CallInv, CanSend
  <2>2. shaken' => IsOpen(stream') /\ down' \o up' = pipeline'
    BY <1>5, <1>6 DEF CallInv, CanSend, TypeOK
  <2>3. ~shaken => up' = up
    BY <1>5 DEF CanSend
  <2>4. ended => up' # <<>> /\ Head(up') = Head(up)
    <3> SUFFICES ASSUME ended PROVE up' # <<>> /\ Head(up') = Head(up)
      OBVIOUS
    <3>1. /\ up # <<>> /\ up \in Seq({Hello} \cup Batches)
          /\ Following(q, pipeline) \in Seq({Hello} \cup Batches)
      BY <1>1, <1>2, FollowingContinues, SeqMonotonic DEF CallInv, TypeOK
    <3>2. up' = up \o Following(q, pipeline) \/ up' = up
      BY <1>3 DEF FillWritePipeline
    <3> QED
      BY <3>1, <3>2, FirstOnCall
  <2> QED
    BY <1>5, <1>6, <2>1, <2>2, <2>3, <2>4 DEF CallInv
<1>10. TakenInv'
  <2>1. written' - Len(queue') = written - Len(queue)
    <3>1. written' = written + 1 /\ Len(queue') = Len(queue) + 1 /\ Len(queue) \in Nat
      BY <1>4, <1>5, <1>6, Typed DEF w
    <3> QED
      BY <1>1, <3>1
  <2> QED
    BY <1>6, <2>1 DEF TakenInv
<1> QED
  BY <1>7, <1>8, <1>9, <1>10

LEMMA OnWriteStreamOpenKeeps == ASSUME Inv, OnWriteStreamOpen PROVE Inv'
<1> USE DEF Inv
<1>1. /\ stream' \in Streams /\ IsOpen(stream') /\ ~stream'.idle
      /\ ~IsOpen(stream)
  BY StreamTypes DEF OnWriteStreamOpen, TypeOK, CancelIdleCheck, OnStreamStart, IsOpen, Streams
<1>2. ~shaken /\ up' = <<Hello>> /\ down = <<>> /\ ~ended
  BY <1>1 DEF CallInv, OnWriteStreamOpen
<1>3. UNCHANGED <<written, queue, pipeline, shaken, down, ended, held, takenEver, refusals,
                  fails>>
  BY DEF OnWriteStreamOpen, backendVars
<1>4. TypeOK'
  BY <1>1, <1>2, <1>3 DEF TypeOK
<1>5. QueueInv' /\ TakenInv'
  BY <1>2, <1>3 DEF QueueInv, TakenInv
<1>6. CallInv'
  BY <1>1, <1>2, <1>3 DEF CallInv
<1> QED
  BY <1>4, <1>5, <1>6

LEMMA BackoffElapsesKeeps == ASSUME Inv, BackoffElapses PROVE Inv'
<1> USE DEF Inv
<1>1. /\ stream' \in Streams /\ ~IsOpen(stream') /\ ~IsOpen(stream)
      /\ stream'.idle = stream.idle
  BY StreamTypes, StreamShapes DEF BackoffElapses, TypeOK, IsOpen
<1>2. UNCHANGED <<written, queue, pipeline, shaken, up, down, ended, held, takenEver,
                  refusals, fails>>
  BY DEF BackoffElapses, backendVars, callVars
<1> QED
  BY <1>1, <1>2 DEF TypeOK, QueueInv, CallInv, TakenInv

LEMMA OnHandshakeCompleteKeeps == ASSUME Inv, OnHandshakeComplete PROVE Inv'
<1> USE DEF Inv
<1>1. IsOpen(stream) /\ down = <<Hello>> /\ up = <<>> /\ ~shaken /\ ~ended /\ ~stream.idle
  BY DEF OnHandshakeComplete, CallInv
<1>2. down' = <<>> /\ up' = pipeline
  <2>1. <<>> \o pipeline = pipeline
    BY Typed, ConcatEmptySeq
  <2> QED
    BY <1>1, <2>1 DEF OnHandshakeComplete
<1>3. stream' \in Streams /\ IsOpen(stream') /\ ~stream'.idle
  BY <1>1, StreamTypes, StreamShapes DEF OnHandshakeComplete, TypeOK
<1>4. shaken' /\ UNCHANGED <<written, queue, pipeline, ended, held, takenEver, refusals, fails>>
  BY DEF OnHandshakeComplete, backendVars
<1>5. TypeOK'
  BY <1>2, <1>3, <1>4, Typed DEF TypeOK
<1>6. QueueInv' /\ TakenInv'
  BY <1>2, <1>4 DEF QueueInv, TakenInv
<1>7. CallInv'
  BY <1>1, <1>2, <1>3, <1>4, Typed, ConcatEmptySeq DEF CallInv
<1> QED
  BY <1>5, <1>6, <1>7

\* The first of the pipeline, when a reply or the call's end is laid at it, is a
\* batch the backend took or refused; one that was taken is not newer than what the
\* field holds.
LEMMA FirstIsSettled ==
    ASSUME Inv, shaken, pipeline # <<>>, down # <<>> \/ ended
    PROVE  /\ Head(pipeline) \in takenEver \cup refusals
           /\ Head(pipeline) \notin Refused => Head(pipeline) <= held
<1> USE DEF Inv
<1>1. down \o up = pipeline /\ down \in Seq({Hello} \cup Batches) /\ up \in Seq({Hello} \cup Batches)
  BY DEF CallInv, TypeOK
<1>2. CASE down = <<>>
  <2>1. Head(pipeline) = Head(up) /\ Head(up) \in refusals
    BY <1>1, <1>2, FirstOnCall DEF CallInv
  <2> QED
    BY <2>1 DEF TakenInv
<1>3. CASE down # <<>>
  <2>1. Len(down) \in Nat /\ Len(down) >= 1
    BY <1>1, <1>3, EmptySeq, LenProperties
  <2>2. Head(pipeline) = down[1]
    BY <1>1, <1>3, FirstOnCall
  <2>3. down[1] \in takenEver
    BY <2>1 DEF TakenInv
  <2>4. held = pipeline[Len(down)] /\ Len(down) <= Len(pipeline)
    BY <1>1, <1>3, <2>1, ConcatProperties, LenProperties DEF TakenInv
  <2>5. pipeline[Len(down)] = written - Len(queue) + Len(down)
    BY <2>1, <2>4, Typed DEF QueueInv, Window, Front
  <2>6. Head(pipeline) = written - Len(queue) + 1
    BY WindowShrinks, Typed DEF QueueInv, TypeOK
  <2> QED
    BY <2>1, <2>2, <2>3, <2>4, <2>5, <2>6, Typed
<1> QED
  BY <1>2, <1>3

\* Settling the first of the pipeline extends what TakenInv says of the batches
\* before the window.
LEMMA SettlingFirst ==
    ASSUME Inv, shaken, pipeline # <<>>, down # <<>> \/ ended,
           written' = written, queue' = Tail(queue),
           UNCHANGED <<held, takenEver, refusals>>
    PROVE  /\ \A b \in 1..(written' - Len(queue')) : b \in takenEver' \cup refusals'
           /\ \A b \in (1..(written' - Len(queue'))) \ Refused : b <= held'
<1> USE DEF Inv
<1>1. Head(pipeline) = written - Len(queue) + 1 /\ Len(Tail(queue)) = Len(queue) - 1
  BY WindowShrinks, Typed DEF QueueInv, TypeOK
<1>2. written' - Len(queue') = Head(pipeline)
  <2>1. Len(queue') = Len(queue) - 1
    BY <1>1
  <2>2. written - (Len(queue) - 1) = written - Len(queue) + 1
    BY Typed
  <2> QED
    BY <1>1, <2>1, <2>2
<1>3. \A b \in 1..Head(pipeline) : b = Head(pipeline) \/ b \in 1..(written - Len(queue))
  BY <1>1, Typed
<1> QED
  BY <1>2, <1>3, FirstIsSettled DEF TakenInv

\* The pipeline is filled on a call that can send.
LEMMA FillOnCall ==
    ASSUME NEW w \in Nat, NEW q \in Seq(Batches), NEW line \in Seq(Batches),
           NEW s \in Streams, NEW call \in Seq({Hello} \cup Batches),
           Window(q, w), Front(line, q), Len(line) <= MaxPending,
           CanSend(s), ~s.idle,
           FillWritePipeline(q, line, s, call)
    PROVE  /\ queue' = q
           /\ pipeline' \in Seq(Batches) /\ Len(pipeline') <= MaxPending
           /\ Front(pipeline', q)
           /\ pipeline' = <<>> => q = <<>>
           /\ up' \in Seq({Hello} \cup Batches)
           /\ \A d \in Seq({Hello} \cup Batches) : d \o call = line => d \o up' = pipeline'
           /\ stream' \in Streams
           /\ IsOpen(stream')
           /\ stream'.idle => pipeline' = <<>>
<1>1. /\ queue' = q
      /\ pipeline' \in Seq(Batches) /\ Len(pipeline') <= MaxPending
      /\ Front(pipeline', q)
      /\ pipeline' = <<>> => q = <<>>
      /\ up' \in Seq({Hello} \cup Batches)
      /\ stream' \in Streams
      /\ IsOpen(stream') = IsOpen(s)
      /\ stream'.idle => \/ pipeline' = <<>> /\ (s.idle \/ IsOpen(s))
                         \/ s.idle /\ (CanSend(s) => pipeline' = line)
  BY FillKeeps
<1>2. ASSUME NEW d \in Seq({Hello} \cup Batches), d \o call = line
      PROVE  d \o up' = pipeline'
  <2> DEFINE more == Following(q, line)
  <2>1. up' = call \o more /\ pipeline' = line \o more
    BY DEF FillWritePipeline
  <2>2. more \in Seq({Hello} \cup Batches)
    BY FollowingContinues, SeqMonotonic
  <2> HIDE DEF more
  <2>3. (d \o call) \o more = d \o (call \o more)
    BY <2>2, ConcatAssociative
  <2> QED
    BY <1>2, <2>1, <2>3
<1> QED
  BY <1>1, <1>2 DEF CanSend

LEMMA OnMutationResultKeeps == ASSUME Inv, OnMutationResult PROVE Inv'
<1> USE DEF Inv
<1> DEFINE s == ResetBackoff(stream)
           q == Tail(queue)
           line == Tail(pipeline)
<1>1. /\ shaken /\ IsOpen(stream) /\ down # <<>> /\ pipeline # <<>> /\ ~stream.idle
      /\ down \o up = pipeline
  BY DEF OnMutationResult, CallInv
<1>2. /\ queue # <<>> /\ Without(queue, Head(pipeline)) = q
      /\ q \in Seq(Batches) /\ line \in Seq(Batches)
      /\ Len(line) = Len(pipeline) - 1
      /\ Window(q, written) /\ Front(line, q)
  BY <1>1, WindowShrinks, Typed DEF QueueInv, TypeOK
<1>3. s \in Streams /\ IsOpen(s) /\ ~s.idle
  BY <1>1, StreamTypes, StreamShapes DEF TypeOK
<1>4. FillWritePipeline(q, line, s, up)
  BY <1>2 DEF OnMutationResult
<1>5. Len(line) <= MaxPending
  BY <1>2, Typed, WriteAssumption DEF TypeOK
<1> HIDE DEF s, q, line
<1>6. CanSend(s)
  BY <1>1, <1>3 DEF CanSend
<1>7. /\ queue' = q
      /\ pipeline' \in Seq(Batches) /\ Len(pipeline') <= MaxPending
      /\ Front(pipeline', q)
      /\ pipeline' = <<>> => q = <<>>
      /\ up' \in Seq({Hello} \cup Batches)
      /\ \A d \in Seq({Hello} \cup Batches) : d \o up = line => d \o up' = pipeline'
      /\ stream' \in Streams
      /\ IsOpen(stream')
      /\ stream'.idle => pipeline' = <<>>
  <2>1. written \in Nat /\ up \in Seq({Hello} \cup Batches)
    BY Typed DEF TypeOK
  <2> QED
    BY <1>2, <1>3, <1>4, <1>5, <1>6, <2>1, FillOnCall
<1>8. /\ down' = Tail(down) /\ fails' = 0
      /\ UNCHANGED <<written, shaken, ended, held, takenEver, refusals>>
  BY DEF OnMutationResult, backendVars
<1>9. /\ Tail(down) \in Seq({Hello} \cup Batches)
      /\ Len(Tail(down)) = Len(down) - 1
      /\ \A i \in 1..Len(Tail(down)) : Tail(down)[i] = down[i + 1]
  BY <1>1, HeadTailProperties DEF TypeOK
<1>10. TypeOK'
  BY <1>2, <1>7, <1>8, <1>9, LevelAssumption DEF TypeOK
<1>11. QueueInv'
  BY <1>2, <1>7, <1>8 DEF QueueInv
<1>12. CallInv'
  <2>1. Tail(down) \o up = line
    <3>1. down \in Seq({Hello} \cup Batches) /\ up \in Seq({Hello} \cup Batches)
      BY DEF TypeOK
    <3>2. Tail(down \o up) = Tail(down) \o up
      BY <1>1, <3>1, FirstOnCall
    <3> QED
      BY <1>1, <3>2 DEF line
  <2>2. down' \o up' = pipeline'
    BY <1>7, <1>8, <1>9, <2>1
  <2>3. ended => up' # <<>> /\ Head(up') = Head(up)
    <3> SUFFICES ASSUME ended PROVE up' # <<>> /\ Head(up') = Head(up)
      OBVIOUS
    <3>1. /\ up # <<>> /\ up \in Seq({Hello} \cup Batches)
          /\ Following(q, line) \in Seq({Hello} \cup Batches)
      BY <1>2, <1>5, FollowingContinues, SeqMonotonic, Typed DEF CallInv, TypeOK
    <3>2. up' = up \o Following(q, line)
      BY <1>4, <1>6 DEF FillWritePipeline
    <3> QED
      BY <3>1, <3>2, FirstOnCall
  <2> QED
    BY <1>1, <1>7, <1>8, <2>2, <2>3 DEF CallInv
<1>13. TakenInv'
  <2>1. \A i \in 1..Len(down') : down'[i] \in takenEver'
    BY <1>1, <1>8, <1>9, Typed DEF TakenInv
  <2>2. down' # <<>> => held' = down'[Len(down')]
    <3> SUFFICES ASSUME down' # <<>> PROVE held' = down'[Len(down')]
      OBVIOUS
    <3>1. Len(Tail(down)) >= 1
      BY <1>8, <1>9, EmptySeq
    <3>2. Tail(down)[Len(Tail(down))] = down[Len(down)]
      BY <1>9, <3>1, Typed
    <3> QED
      BY <1>1, <1>8, <3>2 DEF TakenInv
  <2>3. queue' = Tail(queue)
    BY <1>7 DEF q
  <2>4. /\ \A b \in 1..(written' - Len(queue')) : b \in takenEver' \cup refusals'
        /\ \A b \in (1..(written' - Len(queue'))) \ Refused : b <= held'
    BY <1>1, <1>8, <2>3, SettlingFirst
  <2> QED
    BY <1>8, <2>1, <2>2, <2>4 DEF TakenInv
<1> QED
  BY <1>10, <1>11, <1>12, <1>13

\* A call is over and nothing left the pipeline.
LEMMA BreakKeeps ==
    ASSUME Inv, NEW status, stream' = StartIfNeeded(Close(stream, status)),
           shaken' = FALSE, CallIsOver, fails' \in 0..(MaxLevel + 1),
           UNCHANGED <<written, queue, pipeline, backendVars>>
    PROVE  Inv'
<1> USE DEF Inv
<1>1. stream' \in Streams /\ ~IsOpen(stream') /\ ~stream'.idle
  <2>1. /\ Close(stream, status) \in Streams
        /\ ~IsOpen(Close(stream, status)) /\ ~Close(stream, status).idle
    BY StreamTypes, StreamShapes DEF TypeOK
  <2> QED
    BY <2>1, StreamTypes, StreamShapes DEF StartIfNeeded
<1>2. up' = <<>> /\ down' = <<>> /\ ~ended' /\ UNCHANGED <<held, takenEver, refusals>>
  BY DEF CallIsOver, backendVars
<1>3. TypeOK'
  BY <1>1, <1>2, Typed DEF TypeOK, CallIsOver
<1>4. QueueInv' /\ CallInv'
  BY <1>1, <1>2 DEF QueueInv, CallInv
<1>5. TakenInv'
  BY <1>2 DEF TakenInv
<1> QED
  BY <1>3, <1>4, <1>5

LEMMA IdleTimeoutKeeps == ASSUME Inv, IdleTimeout PROVE Inv'
<1>1. fails' \in 0..(MaxLevel + 1)
  BY LevelAssumption DEF IdleTimeout
<1> QED
  BY <1>1, BreakKeeps DEF IdleTimeout

LEMMA OnStreamBrokenKeeps ==
    ASSUME Inv, NEW status \in Failures, OnStreamBroken(status) PROVE Inv'
<1>1. fails' \in 0..(MaxLevel + 1)
  BY LevelAssumption DEF OnStreamBroken, Failed, Inv, TypeOK
<1> QED
  BY <1>1, BreakKeeps DEF OnStreamBroken

\* The pipeline is filled again without a call.
LEMMA FillWithoutCall ==
    ASSUME Inv, NEW q \in Seq(Batches), NEW line \in Seq(Batches), NEW s \in Streams,
           Window(q, written), Front(line, q), Len(line) <= MaxPending,
           ~IsOpen(s), ~s.idle,
           FillWritePipeline(q, line, s, <<>>),
           shaken' = FALSE, down' = <<>>, ended' = FALSE, fails' = 0,
           UNCHANGED <<written, backendVars>>
    PROVE  TypeOK' /\ QueueInv' /\ CallInv' /\ queue' = q
<1> USE DEF Inv
<1>1. ~CanSend(s)
  BY DEF CanSend
<1>2. /\ queue' = q
      /\ pipeline' \in Seq(Batches) /\ Len(pipeline') <= MaxPending
      /\ Front(pipeline', q)
      /\ up' = <<>>
      /\ stream' \in Streams
      /\ ~IsOpen(stream')
      /\ ~stream'.idle
  BY <1>1, FillKeeps, Typed
<1>3. UNCHANGED <<written, held, takenEver, refusals>>
  BY DEF backendVars
<1>4. TypeOK'
  <2>1. <<>> \in Seq({Hello} \cup Batches) /\ 0 \in 0..(MaxLevel + 1)
    BY Typed, LevelAssumption
  <2> QED
    BY <1>2, <1>3, <2>1 DEF TypeOK
<1>5. QueueInv'
  BY <1>2, <1>3 DEF QueueInv
<1>6. CallInv'
  BY <1>2 DEF CallInv
<1> QED
  BY <1>2, <1>4, <1>5, <1>6

LEMMA HandleWriteErrorKeeps == ASSUME Inv, HandleWriteError PROVE Inv'
<1> USE DEF Inv
<1> DEFINE s == InhibitBackoff(Close(stream, "refused"))
<1>1. shaken /\ ended /\ pipeline # <<>>
  BY DEF HandleWriteError, CallInv
<1>2. /\ Without(queue, Head(pipeline)) = Tail(queue)
      /\ Tail(queue) \in Seq(Batches) /\ Tail(pipeline) \in Seq(Batches)
      /\ Len(Tail(pipeline)) = Len(pipeline) - 1
      /\ Window(Tail(queue), written) /\ Front(Tail(pipeline), Tail(queue))
  BY <1>1, WindowShrinks, Typed DEF QueueInv, TypeOK
<1>3. s \in Streams /\ ~IsOpen(s) /\ ~s.idle
  BY StreamTypes, StreamShapes DEF TypeOK
<1>4. FillWritePipeline(Tail(queue), Tail(pipeline), s, <<>>)
  BY <1>2 DEF HandleWriteError
<1>5. Len(Tail(pipeline)) <= MaxPending
  BY <1>2, Typed, WriteAssumption DEF TypeOK
<1> HIDE DEF s
<1>6. /\ shaken' = FALSE /\ down' = <<>> /\ ended' = FALSE /\ fails' = 0
      /\ UNCHANGED <<written, backendVars>>
  BY DEF HandleWriteError
<1>7. TypeOK' /\ QueueInv' /\ CallInv' /\ queue' = Tail(queue)
  BY <1>2, <1>3, <1>4, <1>5, <1>6, FillWithoutCall
<1>8. UNCHANGED <<held, takenEver, refusals>>
  BY <1>6 DEF backendVars
<1>9. TakenInv'
  BY <1>1, <1>6, <1>7, <1>8, SettlingFirst DEF TakenInv
<1> QED
  BY <1>7, <1>9

LEMMA RelaunchKeeps == ASSUME Inv, Relaunch PROVE Inv'
<1> USE DEF Inv
<1>1. NewStream \in Streams /\ ~IsOpen(NewStream) /\ ~NewStream.idle
  BY LevelAssumption DEF NewStream, Streams, Levels, IsOpen
<1>2. Front(<<>>, queue) /\ Len(<<>>) <= MaxPending
  BY Typed, EmptySeq, WriteAssumption DEF Front
<1>3. /\ FillWritePipeline(queue, <<>>, NewStream, <<>>)
      /\ shaken' = FALSE /\ down' = <<>> /\ ended' = FALSE /\ fails' = 0
      /\ UNCHANGED <<written, backendVars>>
  BY DEF Relaunch
<1>4. TypeOK' /\ QueueInv' /\ CallInv' /\ queue' = queue
  BY <1>1, <1>2, <1>3, FillWithoutCall, Typed DEF QueueInv, TypeOK
<1>5. TakenInv'
  BY <1>3, <1>4 DEF TakenInv, backendVars
<1> QED
  BY <1>4, <1>5

\* What the backend reads next is the handshake before its reply, and then a batch.
LEMMA NextToRead ==
    ASSUME Inv, up # <<>>
    PROVE  /\ IsOpen(stream) /\ ~stream.idle
           /\ ~shaken => up = <<Hello>> /\ down = <<>>
           /\ shaken => /\ down \o up = pipeline
                        /\ Head(up) = written - Len(queue) + Len(down) + 1
                        /\ Head(up) \in Batches
           /\ Head(up) = Hello <=> ~shaken
<1> USE DEF Inv
<1>1. IsOpen(stream)
  BY DEF CallInv
<1>2. ~shaken => up = <<Hello>> /\ down = <<>> /\ Head(up) = Hello
  BY <1>1 DEF CallInv
<1>3. ASSUME shaken
      PROVE  /\ down \o up = pipeline /\ pipeline # <<>>
             /\ Head(up) = written - Len(queue) + Len(down) + 1
             /\ Head(up) \in Batches
  <2>1. down \o up = pipeline
    BY <1>3 DEF CallInv
  <2>2. pipeline # <<>> /\ pipeline[Len(down) + 1] = Head(up) /\ Len(down) + 1 \in 1..Len(pipeline)
    BY <2>1, FirstOnCall DEF TypeOK
  <2>3. Head(up) \in Batches
    BY <2>2, ElementOfSeq DEF TypeOK
  <2>4. Head(up) = written - Len(queue) + (Len(down) + 1)
    BY <2>2, Typed DEF QueueInv, Window, Front
  <2> QED
    BY <2>1, <2>2, <2>3, <2>4, Typed
<1>4. ~stream.idle
  BY <1>3 DEF CallInv
<1> QED
  BY <1>1, <1>2, <1>3, <1>4, Typed DEF Hello

LEMMA BackendGreetsKeeps == ASSUME Inv, BackendGreets PROVE Inv'
<1> USE DEF Inv
<1>1. ~shaken /\ up = <<Hello>> /\ down = <<>> /\ IsOpen(stream) /\ ~stream.idle
  BY NextToRead DEF BackendGreets
<1>2. up' = <<>> /\ down' = <<Hello>>
  BY <1>1 DEF BackendGreets
<1>3. /\ ~ended
      /\ UNCHANGED <<written, queue, pipeline, stream, shaken, ended, held, takenEver,
                     refusals, fails>>
  BY DEF BackendGreets, phoneVars, backendVars
<1>4. TypeOK'
  BY <1>2, <1>3 DEF TypeOK
<1>5. QueueInv' /\ CallInv' /\ TakenInv'
  BY <1>1, <1>2, <1>3 DEF QueueInv, CallInv, TakenInv
<1> QED
  BY <1>4, <1>5

LEMMA BackendTakesKeeps == ASSUME Inv, BackendTakes PROVE Inv'
<1> USE DEF Inv
<1> DEFINE m == Head(up)
<1>1. up # <<>> /\ ~ended /\ m \in Batches \ Refused
  BY DEF BackendTakes
<1>2. /\ shaken /\ IsOpen(stream) /\ ~stream.idle /\ down \o up = pipeline
      /\ m = written - Len(queue) + Len(down) + 1
  BY <1>1, NextToRead, Typed DEF Hello
<1>3. /\ up' = Tail(up) /\ down' = Append(down, m)
      /\ held' = m /\ takenEver' = takenEver \cup {m}
      /\ UNCHANGED <<written, queue, pipeline, stream, shaken, ended, refusals, fails>>
  BY DEF BackendTakes, phoneVars
<1>4. /\ Tail(up) \in Seq({Hello} \cup Batches)
      /\ Append(down, m) \in Seq({Hello} \cup Batches)
      /\ Append(down, m) # <<>>
      /\ Len(Append(down, m)) = Len(down) + 1
      /\ \A i \in 1..Len(down) : Append(down, m)[i] = down[i]
      /\ Append(down, m)[Len(down) + 1] = m
  BY <1>1, HeadTailProperties, AppendProperties DEF TypeOK
<1>5. TypeOK'
  BY <1>1, <1>3, <1>4 DEF TypeOK
<1>6. QueueInv'
  BY <1>3 DEF QueueInv
<1>7. CallInv'
  <2>1. down' \o up' = pipeline
    <3>1. down \in Seq({Hello} \cup Batches) /\ up \in Seq({Hello} \cup Batches)
      BY DEF TypeOK
    <3>2. Append(down, Head(up)) \o Tail(up) = down \o up
      BY <1>1, <3>1, FirstOnCall
    <3> QED
      BY <1>2, <1>3, <3>2
  <2> QED
    BY <1>1, <1>2, <1>3, <2>1 DEF CallInv
<1>8. TakenInv'
  <2>1. \A i \in 1..Len(down') : down'[i] \in takenEver'
    BY <1>2, <1>3, <1>4, Typed DEF TakenInv
  <2>2. held' = down'[Len(down')]
    BY <1>3, <1>4
  <2>3. \A b \in 1..(written - Len(queue)) : b <= m
    BY <1>2, Typed
  <2> QED
    BY <1>3, <2>1, <2>2, <2>3 DEF TakenInv
<1> QED
  BY <1>5, <1>6, <1>7, <1>8

LEMMA BackendRefusesKeeps == ASSUME Inv, BackendRefuses PROVE Inv'
<1> USE DEF Inv
<1>1. up # <<>> /\ Head(up) \in Refused /\ Head(up) \in Batches
  BY WriteAssumption DEF BackendRefuses, Batches
<1>2. shaken /\ IsOpen(stream) /\ ~stream.idle
  BY <1>1, NextToRead, Typed DEF Hello
<1>3. /\ refusals' = refusals \cup {Head(up)} /\ ended' = TRUE
      /\ UNCHANGED <<written, queue, pipeline, stream, shaken, up, down, held, takenEver,
                     fails>>
  BY DEF BackendRefuses, phoneVars
<1>4. TypeOK'
  BY <1>1, <1>3 DEF TypeOK
<1>5. QueueInv' /\ CallInv'
  BY <1>1, <1>2, <1>3 DEF QueueInv, CallInv
<1>6. TakenInv'
  BY <1>1, <1>3 DEF TakenInv
<1> QED
  BY <1>4, <1>5, <1>6

LEMMA StepInv == Inv /\ [Next]_vars => Inv'
<1> SUFFICES ASSUME Inv, [Next]_vars PROVE Inv'
  OBVIOUS
<1>1. CASE UNCHANGED vars
  BY <1>1 DEF Inv, TypeOK, QueueInv, CallInv, TakenInv, vars, phoneVars, callVars, backendVars
<1> QED
  BY <1>1, WriteMutationsKeeps, OnWriteStreamOpenKeeps, BackoffElapsesKeeps,
     OnHandshakeCompleteKeeps, OnMutationResultKeeps, IdleTimeoutKeeps,
     HandleWriteErrorKeeps, RelaunchKeeps, OnStreamBrokenKeeps, BackendGreetsKeeps,
     BackendTakesKeeps, BackendRefusesKeeps
     DEF Next

THEOREM AlwaysInv == Spec => []Inv
<1> QED
  BY InitInv, StepInv, PTL DEF Spec

-----------------------------------------------------------------------------
(* The write side in every state.                                            *)

\* A batch that is not settled is in the queue, at its place in the window.
LEMMA NothingLostInv == Inv => NothingLost
<1> SUFFICES ASSUME Inv, NEW b \in 1..written,
                    b \notin 1..(written - Len(queue))
             PROVE  \E i \in DOMAIN queue : queue[i] = b
  BY DEF Inv, TakenInv, NothingLost
<1> DEFINE at == b - (written - Len(queue))
<1>1. at \in 1..Len(queue) /\ DOMAIN queue = 1..Len(queue)
  BY Typed, LenProperties DEF Inv, TypeOK
<1>2. queue[at] = written - Len(queue) + at
  BY <1>1 DEF Inv, QueueInv, Window
<1>3. queue[at] = b
  BY <1>2, Typed DEF Inv
<1> QED
  BY <1>1, <1>3

LEMMA RestsInv == Inv => RestsAtNewest
<1> SUFFICES ASSUME Inv, queue = <<>>
             PROVE  \A b \in (1..written) \ Refused : b <= held
  BY DEF RestsAtNewest
<1>1. written - Len(queue) = written
  BY Typed, EmptySeq DEF Inv
<1> QED
  BY <1>1 DEF Inv, TakenInv

\* Every batch made is on disk, taken or refused, across broken calls, restarts and
\* refusals laid at the pipeline's first; when all are settled the newest stays.
THEOREM WritesAreKept == Spec => []WriteStreamInv
<1>1. Inv => WriteStreamInv
  BY NothingLostInv, RestsInv DEF Inv, WriteStreamInv
<1> QED
  BY <1>1, AlwaysInv, PTL

\* The call carries the pipeline exactly once and in order, so that a reply that
\* names no batch is laid at the right one.
THEOREM WireIsPipeline == Spec => []WireCarriesPipeline
<1>1. Inv => WireCarriesPipeline
  BY DEF Inv, CallInv, WireCarriesPipeline
<1> QED
  BY <1>1, AlwaysInv, PTL

\* The idleness timer never stops a stream that has something to send.
THEOREM IdleMeansUnneeded == Spec => []IdleIsUnneeded
<1>1. ASSUME Inv, stream.idle PROVE pipeline = <<>> /\ queue = <<>> /\ up = <<>>
  <2>1. pipeline = <<>> /\ queue = <<>> /\ down \o up = <<>>
    BY <1>1 DEF Inv, CallInv
  <2>2. up = <<>>
    <3>1. down \in Seq({Hello} \cup Batches) /\ up \in Seq({Hello} \cup Batches)
      BY <1>1 DEF Inv, TypeOK
    <3>2. Len(down \o up) = Len(down) + Len(up) /\ Len(down \o up) = 0
      BY <2>1, <3>1, ConcatProperties, EmptySeq
    <3> QED
      BY <1>1, <3>2, EmptySeq, Typed DEF Inv, TypeOK
  <2> QED
    BY <2>1, <2>2
<1>2. Inv => IdleIsUnneeded
  BY <1>1 DEF IdleIsUnneeded
<1> QED
  BY <1>2, AlwaysInv, PTL

-----------------------------------------------------------------------------
(* The pace of the attempts.                                                 *)

\* A stream that failed n times in a row is to wait n - 1 levels, and its next
\* failure one more.
PaceOf(s, n) ==
    /\ s.state = "backoff" => s.delay >= (IF n > MaxLevel THEN MaxLevel ELSE n - 1)
    /\ IF s.state = "error"
       THEN s.base >= (IF n > MaxLevel THEN MaxLevel ELSE n - 1)
       ELSE s.base >= (IF n > MaxLevel THEN MaxLevel ELSE n)

PaceInv == PaceOf(stream, fails)

LEMMA PaceOfOperators ==
    ASSUME NEW s \in Streams, NEW n \in 0..(MaxLevel + 1), PaceOf(s, n)
    PROVE  /\ ~IsStarted(s) => PaceOf(Start(s), n)
           /\ s.state = "backoff" => PaceOf(Restart(s), n)
           /\ s.state = "starting" => PaceOf(CancelIdleCheck(OnStreamStart(s)), n)
           /\ PaceOf(MarkIdle(s), n) /\ PaceOf(CancelIdleCheck(s), n)
<1>1. MaxLevel \in Nat \ {0} /\ s.base \in 0..MaxLevel /\ n \in Nat /\ n <= MaxLevel + 1
  BY LevelAssumption DEF Streams, Levels
<1>2. ASSUME ~IsStarted(s) PROVE PaceOf(Start(s), n)
  <2>1. CASE s.state = "error"
    <3>1. /\ Start(s).state = "backoff" /\ Start(s).delay = s.base
          /\ Start(s).base = NextBase(s.base)
      BY <2>1 DEF Start, BackoffAndTryRestarting, Streams
    <3>2. s.base >= (IF n > MaxLevel THEN MaxLevel ELSE n - 1)
      BY <2>1 DEF PaceOf
    <3>3. NextBase(s.base) >= (IF n > MaxLevel THEN MaxLevel ELSE n)
      BY <1>1, <3>2 DEF NextBase
    <3> QED
      BY <3>1, <3>2, <3>3 DEF PaceOf
  <2>2. CASE s.state # "error"
    <3>1. Start(s).state = "starting" /\ Start(s).base = s.base
      BY <2>2 DEF Start, Streams
    <3> QED
      BY <2>2, <3>1 DEF PaceOf
  <2> QED
    BY <2>1, <2>2
<1>3. ASSUME s.state = "backoff" PROVE PaceOf(Restart(s), n)
  <2>1. Restart(s).state = "starting" /\ Restart(s).base = s.base
    BY DEF Restart, Start, Streams
  <2> QED
    BY <1>3, <2>1 DEF PaceOf
<1>4. ASSUME s.state = "starting" PROVE PaceOf(CancelIdleCheck(OnStreamStart(s)), n)
  BY <1>4 DEF PaceOf, CancelIdleCheck, OnStreamStart, Streams
<1>5. PaceOf(MarkIdle(s), n) /\ PaceOf(CancelIdleCheck(s), n)
  BY DEF PaceOf, MarkIdle, CancelIdleCheck, Streams
<1> QED
  BY <1>2, <1>3, <1>4, <1>5

\* Without a failure in a row nothing is asked.
LEMMA PaceOfNone == ASSUME NEW s \in Streams PROVE PaceOf(s, 0)
BY LevelAssumption DEF PaceOf, Streams, Levels

\* An open stream fails.
LEMMA PaceOfFailure ==
    ASSUME NEW s \in Streams, IsOpen(s), fails \in 0..(MaxLevel + 1), PaceOf(s, fails),
           NEW status \in Failures
    PROVE  PaceOf(Close(s, status), Failed(status)) /\ Failed(status) \in 0..(MaxLevel + 1)
<1>1. MaxLevel \in Nat \ {0} /\ s.base \in 0..MaxLevel /\ fails \in Nat /\ fails <= MaxLevel + 1
  BY LevelAssumption DEF Streams, Levels
<1>2. s.base >= (IF fails > MaxLevel THEN MaxLevel ELSE fails)
  BY DEF PaceOf, IsOpen
<1>3. CASE status = "unavailable"
  <2>1. Close(s, status).state = "error" /\ Close(s, status).base = s.base
    BY <1>3 DEF Close, Streams
  <2>2. Failed(status) = IF fails = MaxLevel + 1 THEN MaxLevel + 1 ELSE fails + 1
    BY <1>3 DEF Failed
  <2> QED
    BY <1>1, <1>2, <2>1, <2>2 DEF PaceOf
<1>4. CASE status = "exhausted"
  <2>1. Close(s, status).state = "error" /\ Close(s, status).base = MaxLevel
    BY <1>4 DEF Close, Streams
  <2>2. Failed(status) = MaxLevel + 1
    BY <1>4 DEF Failed
  <2> QED
    BY <1>1, <2>1, <2>2 DEF PaceOf
<1> QED
  BY <1>3, <1>4 DEF Failures

LEMMA FillPace ==
    ASSUME NEW q, NEW line, NEW s \in Streams, NEW call, NEW n \in 0..(MaxLevel + 1),
           PaceOf(s, n), FillWritePipeline(q, line, s, call)
    PROVE  PaceOf(stream', n)
<1>1. \/ stream' = MarkIdle(s) \/ stream' = CancelIdleCheck(s) \/ stream' = s
      \/ ~IsStarted(s) /\ stream' = Start(s)
  BY DEF FillWritePipeline
<1> QED
  BY <1>1, PaceOfOperators

LEMMA StepPace == Inv /\ PaceInv /\ [Next]_vars => PaceInv'
<1> SUFFICES ASSUME Inv, PaceInv, [Next]_vars PROVE PaceInv'
  OBVIOUS
<1> USE DEF PaceInv
<1>1. stream \in Streams /\ fails \in 0..(MaxLevel + 1) /\ 0 \in 0..(MaxLevel + 1)
  BY LevelAssumption DEF Inv, TypeOK
<1>2. CASE WriteMutations
  BY <1>1, <1>2, FillPace DEF WriteMutations
<1>3. CASE OnWriteStreamOpen
  BY <1>1, <1>3, PaceOfOperators DEF OnWriteStreamOpen
<1>4. CASE BackoffElapses
  BY <1>1, <1>4, PaceOfOperators DEF BackoffElapses
<1>5. CASE OnHandshakeComplete
  BY <1>1, <1>5, PaceOfOperators DEF OnHandshakeComplete
<1>6. CASE OnMutationResult \/ HandleWriteError \/ Relaunch \/ IdleTimeout
  <2>1. fails' = 0
    BY <1>6 DEF OnMutationResult, HandleWriteError, Relaunch, IdleTimeout
  <2>2. stream' \in Streams
    BY <1>6, OnMutationResultKeeps, HandleWriteErrorKeeps, RelaunchKeeps, IdleTimeoutKeeps
       DEF Inv, TypeOK
  <2> QED
    BY <2>1, <2>2, PaceOfNone
<1>7. ASSUME NEW status \in Failures, OnStreamBroken(status) PROVE PaceInv'
  <2> DEFINE s == Close(stream, status)
  <2>1. PaceOf(s, Failed(status)) /\ Failed(status) \in 0..(MaxLevel + 1) /\ s \in Streams
    BY <1>1, <1>7, PaceOfFailure, StreamTypes DEF OnStreamBroken
  <2>2. fails' = Failed(status) /\ (stream' = s \/ (~IsStarted(s) /\ stream' = Start(s)))
    BY <1>7 DEF OnStreamBroken, StartIfNeeded
  <2> HIDE DEF s
  <2> QED
    BY <2>1, <2>2, PaceOfOperators
<1>8. CASE BackendGreets \/ BackendTakes \/ BackendRefuses \/ UNCHANGED vars
  BY <1>8 DEF BackendGreets, BackendTakes, BackendRefuses, vars, phoneVars, PaceOf
<1> QED
  BY <1>2, <1>3, <1>4, <1>5, <1>6, <1>7, <1>8 DEF Next

\* However the stream was closed and started in between, a stream that failed n times
\* in a row waits n - 1 levels, or the longest delay, before it tries again.
THEOREM AttemptsArePaced == Spec => []Paced
<1>1. Init => PaceInv
  <2>1. NewStream \in Streams
    BY LevelAssumption DEF NewStream, Streams, Levels
  <2> QED
    BY <2>1, PaceOfNone DEF Init, PaceInv
<1>2. PaceInv => Paced
  BY DEF PaceInv, PaceOf, Paced
<1> QED
  BY <1>1, <1>2, StepPace, AlwaysInv, PTL DEF Spec

-----------------------------------------------------------------------------
(* The write side as the store client of the app's models.                   *)

\* The pipeline of the client, the writes of it that are taken, and the calls to come.
Queued == [i \in DOMAIN queue |-> [doc |-> 1, value |-> queue[i]]]
TakenNow == IF shaken THEN Len(down) ELSE 0
Record(i) == [req |-> [kind |-> "update", doc |-> 1, value |-> written + i],
              snapshot |-> [d \in {1} |-> 0]]
ToCome == [i \in 1..(MaxBatches - written) |-> Record(i)]

\* A step that changes none of these is none of the client's.
LEMMA ClientStutters ==
    ASSUME UNCHANGED <<written, queue, held>>, TakenNow' = TakenNow
    PROVE  UNCHANGED Client!clientVars
BY DEF Client!clientVars, TakenNow

\* A call that ends takes the replies not yet read with it.
LEMMA EndReconnects ==
    ASSUME Inv, UNCHANGED <<written, queue, held>>, shaken' = FALSE
    PROVE  Client!Reconnect(1) \/ UNCHANGED Client!clientVars
<1>1. TakenNow' = 0 /\ TakenNow \in Nat
  BY Typed DEF TakenNow, Inv
<1>2. CASE TakenNow = 0
  BY <1>1, <1>2, ClientStutters
<1>3. CASE TakenNow # 0
  <2>1. TakenNow > 0
    BY <1>1, <1>3
  <2> QED
    BY <1>1, <2>1 DEF Client!Reconnect, TakenNow
<1> QED
  BY <1>2, <1>3

LEMMA WriteIsUpdate == ASSUME Inv, WriteMutations PROVE Client!UpdateCallback(1)
<1>1. /\ written < MaxBatches /\ written' = written + 1
      /\ queue' = Append(queue, written + 1)
      /\ UNCHANGED <<shaken, down, held>>
  BY DEF WriteMutations, FillWritePipeline, backendVars
<1>2. /\ written \in Nat /\ MaxBatches \in Nat /\ queue \in Seq(Batches)
      /\ Len(queue) \in Nat /\ DOMAIN queue = 1..Len(queue) /\ Len(queue) <= written
  BY Typed, WriteAssumption, LenProperties DEF Inv, TypeOK, QueueInv, Window
<1> DEFINE n == MaxBatches - written
<1>3. n \in Nat \ {0}
  BY <1>1, <1>2
<1>4. /\ ToCome \in Seq({Record(i) : i \in 1..n}) /\ Len(ToCome) = n
      /\ ToCome # <<>> /\ Head(ToCome) = Record(1)
      /\ Tail(ToCome) = [i \in 1..(n - 1) |-> Record(i + 1)]
  BY <1>3 DEF ToCome
<1>5. ToCome' = Tail(ToCome)
  BY <1>1, <1>2, <1>4 DEF ToCome, Record
<1>6. /\ Queued \in Seq({[doc |-> 1, value |-> b] : b \in Batches})
      /\ Len(Queued) = Len(queue)
      /\ Queued' = Append(Queued, [doc |-> 1, value |-> written + 1])
  BY <1>1, <1>2 DEF Queued
<1> DEFINE r == Record(1).req
<1>7. r.kind = "update" /\ r.doc = 1 /\ r.value = written + 1
  BY DEF Record
<1>8. Len(Queued) < MaxBatches
  BY <1>1, <1>2, <1>6
<1>9. [p \in {1} |-> Queued]' = [[p \in {1} |-> Queued] EXCEPT ![1] =
                                   Append(@, [doc |-> r.doc, value |-> r.value])]
  BY <1>6, <1>7
<1>10. [p \in {1} |-> ToCome]' = [[p \in {1} |-> ToCome] EXCEPT ![1] = Tail(@)]
  BY <1>5
<1>11. [p \in {1} |-> [d \in {1} |-> written]]' =
           [[p \in {1} |-> [d \in {1} |-> written]] EXCEPT ![1][r.doc] = r.value]
  BY <1>1, <1>7
<1>12. [p \in {1} |-> TakenNow]' = [p \in {1} |-> TakenNow]
  BY <1>1 DEF TakenNow
<1>13. Head(ToCome).req = r
  BY <1>4
<1> HIDE DEF r
<1> QED
  BY <1>1, <1>4, <1>7, <1>8, <1>9, <1>10, <1>11, <1>12, <1>13
     DEF Client!UpdateCallback, Queued, ToCome, Record, TakenNow

LEMMA TakeIsCommit == ASSUME Inv, BackendTakes PROVE Client!Commit(1)
<1> USE DEF Inv
<1>1. shaken /\ Head(up) = written - Len(queue) + Len(down) + 1 /\ down \o up = pipeline /\ up # <<>>
  BY NextToRead, Typed DEF BackendTakes, Hello
<1>2. /\ down' = Append(down, Head(up)) /\ held' = Head(up)
      /\ UNCHANGED <<written, queue, shaken>>
  BY DEF BackendTakes, phoneVars
<1>3. /\ Len(down) \in Nat /\ Len(down) < Len(queue) /\ Len(down') = Len(down) + 1
      /\ DOMAIN queue = 1..Len(queue) /\ Len(queue) \in Nat
  <2>1. /\ down \in Seq({Hello} \cup Batches) /\ up \in Seq({Hello} \cup Batches)
        /\ Len(pipeline) = Len(down) + Len(up) /\ Len(up) >= 1
    BY <1>1, Typed, ConcatProperties, EmptySeq DEF TypeOK
  <2>2. Len(down') = Len(down) + 1
    BY <1>2, <2>1, AppendProperties, HeadTailProperties, <1>1
  <2> QED
    BY <2>1, <2>2, Typed, LenProperties DEF TypeOK, QueueInv, Front
<1>4. queue[Len(down) + 1] = Head(up)
  BY <1>1, <1>3, Typed DEF QueueInv, Window
<1>5. Len(Queued) = Len(queue) /\ Queued[Len(down) + 1] = [doc |-> 1, value |-> Head(up)]
  BY <1>3, <1>4 DEF Queued
<1> DEFINE w == [doc |-> 1, value |-> Head(up)]
           server == [d \in {1} |-> held]
           writes == [p \in {1} |-> Queued]
           taken == [p \in {1} |-> TakenNow]
<1>6. TakenNow = Len(down) /\ TakenNow' = Len(down) + 1
  BY <1>1, <1>2, <1>3 DEF TakenNow
<1>7. taken[1] < Len(writes[1]) /\ writes[1][taken[1] + 1] = w
  BY <1>3, <1>5, <1>6
<1>8. server' = [server EXCEPT ![w.doc] = w.value]
  BY <1>2
<1>9. taken' = [taken EXCEPT ![1] = taken[1] + 1]
  BY <1>6
<1>10. LET next == writes[1][taken[1] + 1]
       IN  server' = [server EXCEPT ![next.doc] = next.value]
  <2> HIDE DEF w, server, writes, taken
  <2> QED
    BY <1>7, <1>8
<1>11. writes' = writes /\ ToCome' = ToCome /\ written' = written
  BY <1>2 DEF Queued, ToCome, Record
<1> QED
  BY <1>7, <1>9, <1>10, <1>11 DEF Client!Commit, Queued, TakenNow, ToCome, Record

LEMMA ResultIsAcknowledge == ASSUME Inv, OnMutationResult PROVE Client!Acknowledge(1)
<1> USE DEF Inv
<1>1. /\ shaken /\ down # <<>> /\ pipeline # <<>> /\ down' = Tail(down)
      /\ queue' = Without(queue, Head(pipeline))
      /\ UNCHANGED <<written, shaken, held>>
  BY DEF OnMutationResult, FillWritePipeline, backendVars
<1>2. queue # <<>> /\ queue' = Tail(queue)
  BY <1>1, WindowShrinks, Typed DEF QueueInv, TypeOK
<1>3. Len(down) \in Nat /\ Len(down) > 0 /\ Len(down') = Len(down) - 1
  BY <1>1, Typed, EmptySeq, HeadTailProperties DEF TypeOK
<1>4. Queued' = Tail(Queued)
  <2>1. /\ queue \in Seq(Batches) /\ Len(queue) \in Nat \ {0} /\ DOMAIN queue = 1..Len(queue)
    BY <1>2, LenProperties, EmptySeq DEF TypeOK
  <2> QED
    BY <1>2, <2>1 DEF Queued
<1> QED
  BY <1>1, <1>3, <1>4 DEF Client!Acknowledge, Queued

\* The steps that touch neither the queue nor the replies read as results.
LEMMA OthersStutter ==
    ASSUME Inv,
           \/ OnWriteStreamOpen \/ BackoffElapses \/ OnHandshakeComplete
           \/ BackendGreets \/ BackendRefuses \/ UNCHANGED vars
    PROVE  UNCHANGED Client!clientVars
<1> USE DEF Inv
<1>1. UNCHANGED <<written, queue, held>>
  BY DEF OnWriteStreamOpen, BackoffElapses, OnHandshakeComplete, BackendGreets,
         BackendRefuses, vars, phoneVars, backendVars
<1>2. TakenNow' = TakenNow
  <2>1. CASE OnHandshakeComplete
    <3>1. ~shaken /\ down = <<Hello>> /\ shaken' /\ down' = Tail(down)
      BY <2>1 DEF OnHandshakeComplete, CallInv
    <3> QED
      BY <3>1 DEF TakenNow
  <2>2. CASE BackendGreets
    <3>1. ~shaken /\ shaken' = shaken
      BY <2>2, NextToRead DEF BackendGreets, phoneVars
    <3> QED
      BY <3>1 DEF TakenNow
  <2>3. CASE OnWriteStreamOpen \/ BackoffElapses \/ BackendRefuses \/ UNCHANGED vars
    BY <2>3 DEF OnWriteStreamOpen, BackoffElapses, BackendRefuses, vars, phoneVars, callVars,
                TakenNow
  <2> QED
    BY <2>1, <2>2, <2>3
<1> QED
  BY <1>1, <1>2, ClientStutters

\* Whatever becomes of the calls, but for hearing of a refusal, the app's models see
\* a first-in first-out pipeline that delivers at least once.
THEOREM WriteStreamImplementsClient == Spec => ImplementsClient
<1>1. ASSUME Inv, [Next]_vars
      PROVE  [\/ Client!UpdateCallback(1) \/ Client!Commit(1)
              \/ Client!Acknowledge(1) \/ Client!Reconnect(1)
              \/ HandleWriteError]_(Client!clientVars)
  <2>1. CASE IdleTimeout \/ Relaunch \/ \E status \in Failures : OnStreamBroken(status)
    <3>1. UNCHANGED <<written, queue, held>> /\ shaken' = FALSE
      BY <2>1 DEF IdleTimeout, Relaunch, OnStreamBroken, FillWritePipeline, backendVars
    <3> QED
      BY <1>1, <3>1, EndReconnects
  <2> QED
    BY <1>1, <2>1, WriteIsUpdate, TakeIsCommit, ResultIsAcknowledge, OthersStutter DEF Next
<1> QED
  BY <1>1, AlwaysInv, PTL DEF Spec, ImplementsClient

-----------------------------------------------------------------------------
(* The watch stream: what is inductive.                                      *)

\* A call that was made adds one listener: it waits in at most one task, and then
\* is no listener yet.
AddersAreFresh ==
    /\ \A c \in Elements(query.listeners) : c <= made
    /\ \A i \in DOMAIN tasks : tasks[i].kind = "add" =>
           /\ tasks[i].call <= made /\ tasks[i].call \notin Elements(query.listeners)
           /\ \A j \in DOMAIN tasks :
                  i < j /\ tasks[j].kind = "add" => tasks[j].call # tasks[i].call

ListenersInv ==
    /\ AddersAreFresh
    /\ RaisedFirst
    /\ NoneLeftWaiting
    /\ \A c \in Calls : completed[c] = IF c \in muted THEN 1 ELSE 0

\* The stream is started for the listeners, and a state that is not known waits for
\* the timer unless it was left without one.
TrackerInv ==
    /\ TimerIsSound
    /\ tracker.failed => tracker.online = "offline"
    /\ tracker.online = "unknown" /\ IsStarted(watchStream) => tracker.timer \/ untimed
    /\ Listening(query) => IsStarted(watchStream)
    /\ watchStream.idle => IsOpen(watchStream) /\ ~Listening(query)

\* The replies that answer a request.
Acks(rs) == {i \in DOMAIN rs : rs[i].kind # "current"}

\* No request of rs is a watch request after the i-th.
NoWatchAfter(rs, i) == \A j \in DOMAIN rs : i < j => rs[j].kind # "watch"

NewestIsLast(rs, newest) == \A i \in DOMAIN rs :
    rs[i].kind = "watch" /\ NoWatchAfter(rs, i) => rs[i].listen = newest

\* What is said last is said of the listen being served.
SaidOf(rs, listen) == \A i \in DOMAIN rs :
    rs[i].kind = "current" /\ (\A j \in DOMAIN rs : i < j => rs[j].kind = "current") =>
        rs[i].listen = listen /\ listen # 0

\* What is on a call: the SDK's count is the requests not read and the replies to the
\* others, and the newest listen is asked for, served, or ended.
WatchCallInv ==
    /\ ~IsOpen(watchStream) => /\ pending = 0 /\ listens = 0
                               /\ requests = <<>> /\ replies = <<>> /\ serving = NoCall
    /\ pending = Len(requests) + Cardinality(Acks(replies))
    /\ NewestIsLast(requests, listens)
    /\ NoWatchAfter(requests, 0) => serving.listen \in {0, listens}
    /\ SaidOf(replies, serving.listen)

WatchIInv == WatchTypeOK /\ ListenersInv /\ TrackerInv /\ WatchCallInv
-----------------------------------------------------------------------------
(* The watch stream: sequences.                                              *)

LEMMA AppendedElements ==
    ASSUME NEW S, NEW s \in Seq(S), NEW e \in S
    PROVE  /\ DOMAIN Append(s, e) = 1..(Len(s) + 1)
           /\ Elements(Append(s, e)) = Elements(s) \cup {e}
<1>1. /\ Len(s) \in Nat /\ DOMAIN s = 1..Len(s)
      /\ Append(s, e) \in Seq(S) /\ Len(Append(s, e)) = Len(s) + 1
      /\ \A i \in 1..Len(s) : Append(s, e)[i] = s[i]
      /\ Append(s, e)[Len(s) + 1] = e
  BY AppendProperties, LenProperties
<1> DEFINE a == Append(s, e)
<1>2. DOMAIN a = 1..(Len(s) + 1)
  BY <1>1, LenProperties
<1> HIDE DEF a
<1>3. \A i \in 1..(Len(s) + 1) : i \in 1..Len(s) \/ i = Len(s) + 1
  BY <1>1
<1>4. 1..Len(s) \subseteq 1..(Len(s) + 1) /\ Len(s) + 1 \in 1..(Len(s) + 1)
  BY <1>1
<1>5. Elements(a) = Elements(s) \cup {e}
  BY <1>1, <1>2, <1>3, <1>4 DEF Elements, a
<1> QED
  BY <1>2, <1>5 DEF a

LEMMA TailShifts ==
    ASSUME NEW S, NEW s \in Seq(S), s # <<>>
    PROVE  /\ 1 \in DOMAIN s /\ Head(s) = s[1] /\ s[1] \in S
           /\ Tail(s) \in Seq(S) /\ Len(s) \in Nat /\ Len(Tail(s)) = Len(s) - 1
           /\ DOMAIN s = 1..Len(s) /\ DOMAIN Tail(s) = 1..(Len(s) - 1)
           /\ \A i \in DOMAIN Tail(s) : i + 1 \in DOMAIN s /\ Tail(s)[i] = s[i + 1]
           /\ \A i \in DOMAIN s : i # 1 => i - 1 \in DOMAIN Tail(s) /\ Tail(s)[i - 1] = s[i]
<1>1. Len(s) \in Nat \ {0} /\ DOMAIN s = 1..Len(s)
  BY EmptySeq, LenProperties
<1>2. /\ Tail(s) \in Seq(S) /\ Len(Tail(s)) = Len(s) - 1
      /\ \A i \in 1..(Len(s) - 1) : Tail(s)[i] = s[i + 1]
      /\ Head(s) \in S
  BY HeadTailProperties
<1>3. DOMAIN Tail(s) = 1..(Len(s) - 1)
  BY <1>2, LenProperties
<1>4. 1 \in DOMAIN s /\ Head(s) = s[1]
  BY <1>1
<1> QED
  BY <1>1, <1>2, <1>3, <1>4

\* Removing one occurrence from a sequence without repetition removes the element,
\* and keeps the others in their order.
LEMMA OthersLeft ==
    ASSUME NEW S, NEW s \in Seq(S), NEW c,
           \A i, j \in DOMAIN s : i < j => s[i] # s[j]
    PROVE  /\ Others(s, c) \in Seq(S)
           /\ Elements(Others(s, c)) = Elements(s) \ {c}
           /\ \A i, j \in DOMAIN Others(s, c) : i < j =>
                  \E k, l \in DOMAIN s :
                      k < l /\ s[k] = Others(s, c)[i] /\ s[l] = Others(s, c)[j]
<1>1. Len(s) \in Nat /\ DOMAIN s = 1..Len(s)
  BY LenProperties
<1>2. CASE c \notin Elements(s)
  <2>1. Others(s, c) = s
    BY <1>2 DEF Others
  <2> QED
    BY <1>2, <2>1
<1>3. CASE c \in Elements(s)
  <2> DEFINE at == CHOOSE i \in DOMAIN s : s[i] = c
             a == SubSeq(s, 1, at - 1)
             b == SubSeq(s, at + 1, Len(s))
             o == a \o b
             m(k) == IF k < at THEN k ELSE k + 1
  <2>1. at \in 1..Len(s) /\ s[at] = c
    BY <1>1, <1>3 DEF Elements
  <2>2. Others(s, c) = o
    BY <1>3 DEF Others
  <2> HIDE DEF at
  <2>3. a \in Seq(S) /\ Len(a) = at - 1 /\ \A k \in 1..(at - 1) : a[k] = s[k]
    BY <1>1, <2>1
  <2>4. b \in Seq(S) /\ Len(b) = Len(s) - at /\ \A k \in 1..(Len(s) - at) : b[k] = s[k + at]
    <3>1. at + 1 \in Int /\ Len(s) \in Int /\ \A i \in (at + 1)..Len(s) : s[i] \in S
      BY <1>1, <2>1, ElementOfSeq
    <3>2. /\ b \in Seq(S)
          /\ Len(b) = IF at + 1 <= Len(s) THEN Len(s) - (at + 1) + 1 ELSE 0
          /\ \A k \in 1..(Len(s) - (at + 1) + 1) : b[k] = s[(at + 1) + k - 1]
      BY <3>1, SubSeqProperties
    <3> HIDE DEF b
    <3>3. Len(s) - (at + 1) + 1 = Len(s) - at
      BY <1>1, <2>1
    <3>4. \A k \in 1..(Len(s) - at) : b[k] = s[k + at]
      <4> SUFFICES ASSUME NEW k \in 1..(Len(s) - at)
                   PROVE  b[k] = s[k + at]
        OBVIOUS
      <4>1. (at + 1) + k - 1 = k + at
        BY <2>1
      <4> QED
        BY <3>2, <3>3, <4>1
    <3>5. Len(b) = Len(s) - at
      <4>1. Len(b) = IF at + 1 <= Len(s) THEN Len(s) - (at + 1) + 1 ELSE 0
        BY <3>2
      <4>2. Len(b) \in Nat
        BY <3>2
      <4> HIDE DEF b
      <4>3. \A l, n, i \in Nat : i <= n /\ l = (IF i + 1 <= n THEN n - (i + 1) + 1 ELSE 0) => l = n - i
        OBVIOUS
      <4>4. at \in Nat /\ at <= Len(s)
        BY <1>1, <2>1
      <4> QED
        BY <1>1, <4>1, <4>2, <4>3, <4>4
    <3> QED
      BY <3>2, <3>4, <3>5
  <2> HIDE DEF a, b
  <2>5. o \in Seq(S) /\ Len(o) = Len(s) - 1
        /\ \A k \in 1..(Len(s) - 1) : o[k] = IF k <= at - 1 THEN a[k] ELSE b[k - (at - 1)]
    <3>1. /\ o \in Seq(S) /\ Len(o) = Len(a) + Len(b)
          /\ \A k \in 1..(Len(a) + Len(b)) : o[k] = IF k <= Len(a) THEN a[k] ELSE b[k - Len(a)]
      BY <2>3, <2>4, ConcatProperties
    <3>2. Len(a) + Len(b) = Len(s) - 1
      BY <1>1, <2>1, <2>3, <2>4
    <3> HIDE DEF o
    <3> QED
      BY <2>3, <3>1, <3>2
  <2>6. DOMAIN o = 1..(Len(s) - 1)
    BY <2>5, LenProperties
  <2>7. \A k \in 1..(Len(s) - 1) : m(k) \in 1..Len(s) /\ m(k) # at /\ o[k] = s[m(k)]
    <3> SUFFICES ASSUME NEW k \in 1..(Len(s) - 1)
                 PROVE  m(k) \in 1..Len(s) /\ m(k) # at /\ o[k] = s[m(k)]
      OBVIOUS
    <3>1. CASE k < at
      <4>1. k \in 1..(at - 1) /\ k <= at - 1
        BY <1>1, <2>1, <3>1
      <4> QED
        BY <1>1, <2>1, <2>3, <2>5, <3>1, <4>1
    <3>2. CASE ~(k < at)
      <4>1. k - (at - 1) \in 1..(Len(s) - at) /\ ~(k <= at - 1)
        BY <1>1, <2>1, <3>2
      <4>2. o[k] = b[k - (at - 1)] /\ b[k - (at - 1)] = s[k - (at - 1) + at]
        BY <2>4, <2>5, <4>1
      <4>3. k - (at - 1) + at = k + 1 /\ m(k) = k + 1 /\ k + 1 \in 1..Len(s) /\ k + 1 # at
        BY <1>1, <2>1, <3>2
      <4> QED
        BY <4>2, <4>3
    <3> QED
      BY <3>1, <3>2
  <2>8. \A i, j \in 1..(Len(s) - 1) : i < j => m(i) < m(j)
    BY <1>1, <2>1
  <2>9. \A l \in 1..Len(s) : l # at => \E k \in 1..(Len(s) - 1) : o[k] = s[l]
    <3> SUFFICES ASSUME NEW l \in 1..Len(s), l # at
                 PROVE  \E k \in 1..(Len(s) - 1) : o[k] = s[l]
      OBVIOUS
    <3> DEFINE k == IF l < at THEN l ELSE l - 1
    <3>1. k \in 1..(Len(s) - 1) /\ m(k) = l
      BY <1>1, <2>1
    <3> QED
      BY <2>7, <3>1
  <2>10. \A l \in 1..Len(s) : s[l] = c => l = at
    BY <1>1, <2>1
  <2>11. Elements(o) = Elements(s) \ {c}
    <3>1. \A k \in DOMAIN o : o[k] \in Elements(s) \ {c}
      <4> SUFFICES ASSUME NEW k \in 1..(Len(s) - 1)
                   PROVE  o[k] \in Elements(s) \ {c}
        BY <2>6
      <4>1. m(k) \in 1..Len(s) /\ m(k) # at /\ o[k] = s[m(k)]
        BY <2>7
      <4> HIDE DEF m, o
      <4>2. s[m(k)] # c /\ s[m(k)] \in Elements(s)
        BY <1>1, <2>10, <4>1 DEF Elements
      <4> QED
        BY <4>1, <4>2
    <3>2. \A e \in Elements(s) \ {c} : \E k \in DOMAIN o : o[k] = e
      <4> SUFFICES ASSUME NEW l \in 1..Len(s), s[l] # c
                   PROVE  \E k \in DOMAIN o : o[k] = s[l]
        BY <1>1 DEF Elements
      <4>1. l # at
        BY <2>1
      <4> QED
        BY <2>6, <2>9, <4>1
    <3> HIDE DEF o
    <3>3. Elements(o) \subseteq Elements(s) \ {c}
      BY <3>1 DEF Elements
    <3>4. Elements(s) \ {c} \subseteq Elements(o)
      BY <3>2 DEF Elements
    <3> QED
      BY <3>3, <3>4
  <2>12. \A i, j \in DOMAIN o : i < j =>
             \E k, l \in DOMAIN s : k < l /\ s[k] = o[i] /\ s[l] = o[j]
    <3> SUFFICES ASSUME NEW i \in DOMAIN o, NEW j \in DOMAIN o, i < j
                 PROVE  \E k, l \in DOMAIN s : k < l /\ s[k] = o[i] /\ s[l] = o[j]
      OBVIOUS
    <3>1. m(i) \in DOMAIN s /\ m(j) \in DOMAIN s /\ m(i) < m(j) /\ s[m(i)] = o[i] /\ s[m(j)] = o[j]
      BY <1>1, <2>6, <2>7, <2>8
    <3> QED
      BY <3>1
  <2> HIDE DEF o
  <2> QED
    BY <2>2, <2>5, <2>11, <2>12
<1> QED
  BY <1>2, <1>3

\* Where the listeners that raised their event come first, those that did not are
\* the rest: Waiting is the listeners without an event.
LEMMA WaitingHaveNotRaised ==
    ASSUME WatchTypeOK, RaisedFirst
    PROVE  /\ Waiting(query) \in Seq(Calls)
           /\ Elements(Waiting(query)) = Elements(query.listeners) \ query.raised
           /\ \A i, j \in DOMAIN Waiting(query) : i < j =>
                  \E k, l \in DOMAIN query.listeners :
                      /\ k < l /\ query.listeners[k] = Waiting(query)[i]
                      /\ query.listeners[l] = Waiting(query)[j]
<1> DEFINE ls == query.listeners
           n == Len(ls)
           I == {i \in 1..n : ls[i] \in query.raised}
           f == [i \in I |-> ls[i]]
           k == Cardinality(query.raised)
<1>1. ls \in Seq(Calls) /\ n \in Nat /\ DOMAIN ls = 1..n /\ query.raised \subseteq Elements(ls)
  BY LenProperties DEF WatchTypeOK
<1>2. IsFiniteSet(I) /\ Cardinality(I) \in Nat
  <2>1. IsFiniteSet(1..n)
    BY <1>1, FS_Interval
  <2> QED
    BY <2>1, FS_Subset, FS_CardinalityType
<1>3. Cardinality(I) = k
  <2>1. f \in [I -> query.raised]
    OBVIOUS
  <2>2. \A i, j \in I : f[i] = f[j] => i = j
    BY <1>1 DEF RaisedFirst
  <2>3. \A c \in query.raised : \E i \in I : f[i] = c
    BY <1>1 DEF Elements
  <2>4. f \in Bijection(I, query.raised)
    BY <2>1, <2>2, <2>3 DEF Bijection, Injection, Surjection, IsInjective
  <2>5. ExistsBijection(I, query.raised)
    BY <2>4 DEF ExistsBijection
  <2> QED
    BY <1>2, <2>5, FS_Bijection
<1>4. ASSUME NEW i \in 1..n
      PROVE  i \in I <=> i <= k
  <2>1. CASE i \in I
    <3>1. 1..i \subseteq I
      BY <1>1, <2>1 DEF RaisedFirst
    <3>2. Cardinality(1..i) = i
      BY FS_Interval
    <3> QED
      BY <1>2, <1>3, <2>1, <3>1, <3>2, FS_Subset
  <2>2. CASE i \notin I
    <3>1. I \subseteq 1..(i - 1)
      BY <1>1, <2>2 DEF RaisedFirst
    <3>2. IsFiniteSet(1..(i - 1)) /\ Cardinality(1..(i - 1)) = i - 1
      BY FS_Interval
    <3> QED
      BY <1>2, <1>3, <2>2, <3>1, <3>2, FS_Subset
  <2> QED
    BY <2>1, <2>2
<1>5. k \in Nat /\ k <= n
  <2>1. I \subseteq 1..n /\ IsFiniteSet(1..n) /\ Cardinality(1..n) = n
    BY <1>1, FS_Interval
  <2> QED
    BY <1>2, <1>3, <2>1, FS_Subset
<1> DEFINE w == SubSeq(ls, k + 1, n)
<1> HIDE DEF k, I
<1>6. w \in Seq(Calls) /\ Len(w) = n - k /\ \A i \in 1..(n - k) : w[i] = ls[i + k]
  BY <1>1, <1>5
<1>7. Waiting(query) = w
  BY DEF Waiting, k
<1> HIDE DEF w
<1>8. DOMAIN w = 1..(n - k)
  BY <1>5, <1>6, LenProperties
<1>9. \A i \in 1..n : ls[i] \in query.raised <=> i <= k
  BY <1>4 DEF I
<1>10. Elements(w) \subseteq Elements(ls) \ query.raised
  <2> SUFFICES ASSUME NEW i \in 1..(n - k)
               PROVE  w[i] \in Elements(ls) \ query.raised
    BY <1>8 DEF Elements
  <2>1. i + k \in 1..n /\ ~(i + k <= k)
    BY <1>1, <1>5
  <2> QED
    BY <1>1, <1>6, <1>9, <2>1 DEF Elements
<1>11. Elements(ls) \ query.raised \subseteq Elements(w)
  <2> SUFFICES ASSUME NEW i \in 1..n, ls[i] \notin query.raised
               PROVE  ls[i] \in Elements(w)
    BY <1>1 DEF Elements
  <2>1. i - k \in 1..(n - k) /\ i - k + k = i
    BY <1>1, <1>5, <1>9
  <2> QED
    BY <1>6, <1>8, <2>1 DEF Elements
<1>12. ASSUME NEW i \in DOMAIN w, NEW j \in DOMAIN w, i < j
       PROVE  \E p, q \in DOMAIN ls : p < q /\ ls[p] = w[i] /\ ls[q] = w[j]
  <2>1. i + k \in DOMAIN ls /\ j + k \in DOMAIN ls /\ i + k < j + k
    BY <1>1, <1>5, <1>8, <1>12
  <2> QED
    BY <1>6, <1>8, <2>1
<1> QED
  BY <1>6, <1>7, <1>10, <1>11, <1>12

-----------------------------------------------------------------------------
(* The watch stream: what is on a call.                                      *)

LEMMA AcksAreFinite ==
    ASSUME NEW rs \in Seq(Replies)
    PROVE  IsFiniteSet(Acks(rs)) /\ Cardinality(Acks(rs)) \in Nat
<1>1. IsFiniteSet(DOMAIN rs)
  BY LenProperties, FS_Interval
<1>2. Acks(rs) \subseteq DOMAIN rs
  BY DEF Acks
<1> QED
  BY <1>1, <1>2, FS_Subset, FS_CardinalityType

LEMMA AcksOfAppend ==
    ASSUME NEW rs \in Seq(Replies), NEW r \in Replies
    PROVE  Cardinality(Acks(Append(rs, r))) =
               Cardinality(Acks(rs)) + (IF r.kind = "current" THEN 0 ELSE 1)
<1> DEFINE n == Len(rs)
           a == Append(rs, r)
<1>1. /\ n \in Nat /\ DOMAIN rs = 1..n /\ DOMAIN a = 1..(n + 1)
      /\ \A i \in 1..n : a[i] = rs[i]
      /\ a[n + 1] = r
  BY AppendProperties, AppendedElements, LenProperties
<1> HIDE DEF a
<1>2. n + 1 \notin Acks(rs)
  BY <1>1 DEF Acks
<1>3. \A i : i \in 1..(n + 1) <=> i \in 1..n \/ i = n + 1
  BY <1>1
<1>4. Acks(a) = IF r.kind = "current" THEN Acks(rs) ELSE Acks(rs) \cup {n + 1}
  BY <1>1, <1>3 DEF Acks
<1>5. IsFiniteSet(Acks(rs)) /\ Cardinality(Acks(rs)) \in Nat
  BY AcksAreFinite
<1>6. Cardinality(Acks(rs) \cup {n + 1}) = Cardinality(Acks(rs)) + 1
  BY <1>2, <1>5, FS_AddElement
<1> QED
  BY <1>4, <1>5, <1>6 DEF a

LEMMA AcksOfTail ==
    ASSUME NEW rs \in Seq(Replies), rs # <<>>
    PROVE  Cardinality(Acks(rs)) =
               Cardinality(Acks(Tail(rs))) + (IF rs[1].kind = "current" THEN 0 ELSE 1)
<1> DEFINE t == Tail(rs)
           f == [i \in Acks(t) |-> i + 1]
<1>1. /\ 1 \in DOMAIN rs /\ t \in Seq(Replies) /\ Len(rs) \in Nat
      /\ DOMAIN rs = 1..Len(rs) /\ DOMAIN t = 1..(Len(rs) - 1)
      /\ \A i \in DOMAIN t : i + 1 \in DOMAIN rs /\ t[i] = rs[i + 1]
      /\ \A i \in DOMAIN rs : i # 1 => i - 1 \in DOMAIN t /\ t[i - 1] = rs[i]
  BY TailShifts
<1> HIDE DEF t
<1>2. f \in [Acks(t) -> Acks(rs) \ {1}]
  <2> SUFFICES ASSUME NEW i \in Acks(t)
               PROVE  i + 1 \in Acks(rs) \ {1}
    OBVIOUS
  <2> QED
    BY <1>1 DEF Acks
<1>3. \A i, j \in Acks(t) : f[i] = f[j] => i = j
  BY <1>1 DEF Acks
<1>4. \A i \in Acks(rs) \ {1} : \E j \in Acks(t) : f[j] = i
  <2> SUFFICES ASSUME NEW i \in Acks(rs) \ {1}
               PROVE  i - 1 \in Acks(t) /\ i - 1 + 1 = i
    OBVIOUS
  <2> QED
    BY <1>1 DEF Acks
<1>5. ExistsBijection(Acks(t), Acks(rs) \ {1})
  <2>1. f \in Bijection(Acks(t), Acks(rs) \ {1})
    BY <1>2, <1>3, <1>4 DEF Bijection, Injection, Surjection, IsInjective
  <2> QED
    BY <2>1 DEF ExistsBijection
<1>6. Cardinality(Acks(rs) \ {1}) = Cardinality(Acks(t))
  BY <1>1, <1>5, AcksAreFinite, FS_Bijection
<1>7. 1 \in Acks(rs) <=> rs[1].kind # "current"
  BY <1>1 DEF Acks
<1>8. IsFiniteSet(Acks(rs)) /\ Cardinality(Acks(rs)) \in Nat
  BY AcksAreFinite
<1>9. Cardinality(Acks(rs) \ {1}) =
          IF 1 \in Acks(rs) THEN Cardinality(Acks(rs)) - 1 ELSE Cardinality(Acks(rs))
  BY <1>8, FS_RemoveElement
<1> QED
  BY <1>6, <1>7, <1>8, <1>9 DEF t

NoAcks == Cardinality(Acks(<<>>)) = 0

LEMMA EmptyCall ==
    /\ <<>> \in Seq(Requests) /\ <<>> \in Seq(Replies) /\ Len(<<>>) = 0
    /\ DOMAIN <<>> = {}
    /\ NoAcks
    /\ NoCall \in [listen : Nat, current : BOOLEAN]
<1>1. Acks(<<>>) = {}
  BY DEF Acks
<1> QED
  BY <1>1, EmptySeq, FS_EmptySet DEF NoAcks, NoCall

CallTypes ==
    /\ pending \in Nat /\ listens \in Nat
    /\ requests \in Seq(Requests) /\ replies \in Seq(Replies)
    /\ serving \in [listen : Nat, current : BOOLEAN]

LEMMA CallEnds ==
    ASSUME WatchCallIsOver
    PROVE  CallTypes' /\ WatchCallInv'
BY EmptyCall DEF WatchCallIsOver, CallTypes, WatchCallInv, NoAcks, NewestIsLast, NoWatchAfter,
       SaidOf, NoCall

\* One more request, sent on an open stream: the newest listen if it is one.
LEMMA RequestSent ==
    ASSUME CallTypes, WatchCallInv, NEW r \in Requests,
           requests' = Append(requests, r), pending' = pending + 1,
           \/ listens' = listens + 1 /\ r = [kind |-> "watch", listen |-> listens + 1]
           \/ listens' = listens /\ r = [kind |-> "unwatch"],
           UNCHANGED <<replies, serving>>, IsOpen(watchStream')
    PROVE  CallTypes' /\ WatchCallInv'
<1> DEFINE n == Len(requests)
<1>1. /\ n \in Nat /\ DOMAIN requests = 1..n /\ DOMAIN requests' = 1..(n + 1)
      /\ requests' \in Seq(Requests) /\ Len(requests') = n + 1
      /\ \A i \in 1..n : requests'[i] = requests[i]
      /\ requests'[n + 1] = r
  BY AppendProperties, AppendedElements, LenProperties DEF CallTypes
<1>2. CallTypes'
  BY <1>1 DEF CallTypes
<1>3. pending' = Len(requests') + Cardinality(Acks(replies'))
  <2>1. Cardinality(Acks(replies)) \in Nat
    BY AcksAreFinite DEF CallTypes
  <2> QED
    BY <1>1, <2>1 DEF WatchCallInv, CallTypes
<1>4. \A i \in 1..n : ~NoWatchAfter(requests', i) \/ (r.kind # "watch" /\ NoWatchAfter(requests, i))
  <2> SUFFICES ASSUME NEW i \in 1..n, NoWatchAfter(requests', i)
               PROVE  r.kind # "watch" /\ NoWatchAfter(requests, i)
    OBVIOUS
  <2>1. n + 1 \in DOMAIN requests' /\ i < n + 1
    BY <1>1
  <2> QED
    BY <1>1, <2>1 DEF NoWatchAfter
<1>5. NewestIsLast(requests', listens')
  <2> SUFFICES ASSUME NEW i \in 1..(n + 1), requests'[i].kind = "watch",
                      NoWatchAfter(requests', i)
               PROVE  requests'[i].listen = listens'
    BY <1>1 DEF NewestIsLast
  <2>1. CASE i = n + 1
    BY <1>1, <2>1
  <2>2. CASE i # n + 1
    <3>1. i \in 1..n
      BY <1>1, <2>2
    <3>2. r.kind # "watch" /\ NoWatchAfter(requests, i)
      BY <1>4, <3>1
    <3> QED
      BY <1>1, <3>1, <3>2 DEF WatchCallInv, NewestIsLast
  <2> QED
    BY <2>1, <2>2
<1>6. NoWatchAfter(requests', 0) => serving'.listen \in {0, listens'}
  <2> SUFFICES ASSUME NoWatchAfter(requests', 0)
               PROVE  serving'.listen \in {0, listens'}
    OBVIOUS
  <2>1. r.kind # "watch"
    <3>1. n + 1 \in DOMAIN requests' /\ 0 < n + 1
      BY <1>1
    <3> QED
      BY <1>1, <3>1 DEF NoWatchAfter
  <2>2. NoWatchAfter(requests, 0)
    BY <1>1 DEF NoWatchAfter
  <2> QED
    BY <2>1, <2>2 DEF WatchCallInv
<1>7. SaidOf(replies', serving'.listen)
  BY DEF WatchCallInv
<1> QED
  BY <1>2, <1>3, <1>5, <1>6, <1>7 DEF WatchCallInv

\* The backend answers the oldest request.
LEMMA BackendReadsKeepsCall ==
    ASSUME CallTypes, WatchCallInv, BackendReads
    PROVE  CallTypes' /\ WatchCallInv'
<1> DEFINE r == requests[1]
           a == replies'[Len(replies) + 1]
<1>1. /\ requests \in Seq(Requests) /\ requests # <<>> /\ requests' = Tail(requests)
      /\ UNCHANGED <<watchStream, pending, listens>>
  BY DEF BackendReads, CallTypes
<1>2. /\ 1 \in DOMAIN requests /\ Head(requests) = r /\ r \in Requests
      /\ requests' \in Seq(Requests) /\ Len(requests) \in Nat
      /\ Len(requests') = Len(requests) - 1
      /\ \A i \in DOMAIN requests' : i + 1 \in DOMAIN requests /\ requests'[i] = requests[i + 1]
      /\ \A i \in DOMAIN requests :
             i # 1 => i - 1 \in DOMAIN requests' /\ requests'[i - 1] = requests[i]
      /\ DOMAIN requests = 1..Len(requests) /\ DOMAIN requests' = 1..(Len(requests) - 1)
  BY <1>1, TailShifts
<1>3. PICK reply \in Replies :
          /\ replies' = Append(replies, reply) /\ reply.kind # "current"
          /\ \/ /\ r.kind = "watch" /\ serving' = [listen |-> r.listen, current |-> FALSE]
             \/ /\ r.kind # "watch" /\ serving' = NoCall
  <2>1. CASE r.kind = "watch"
    <3>1. r.listen \in Nat
      BY <1>2, <2>1 DEF Requests
    <3>2. [kind |-> "added", listen |-> r.listen] \in Replies
      BY <3>1 DEF Replies
    <3> QED
      BY <1>2, <2>1, <3>2 DEF BackendReads
  <2>2. CASE r.kind # "watch"
    <3>1. [kind |-> "removed"] \in Replies
      BY DEF Replies
    <3> QED
      BY <1>2, <2>2, <3>1 DEF BackendReads
  <2> QED
    BY <2>1, <2>2
<1>4. serving' \in [listen : Nat, current : BOOLEAN]
  <2>1. r.kind = "watch" => r.listen \in Nat
    BY <1>2 DEF Requests
  <2>2. NoCall \in [listen : Nat, current : BOOLEAN]
    BY EmptyCall
  <2>3. CASE r.kind = "watch"
    <3>1. serving' = [listen |-> r.listen, current |-> FALSE]
      BY <1>3, <2>3
    <3> QED
      BY <2>1, <2>3, <3>1
  <2>4. CASE r.kind # "watch"
    <3>1. serving' = NoCall
      BY <1>3, <2>4
    <3> QED
      BY <2>2, <3>1
  <2> QED
    BY <2>3, <2>4
<1>5. /\ replies \in Seq(Replies) /\ Len(replies) \in Nat
      /\ replies' \in Seq(Replies) /\ DOMAIN replies' = 1..(Len(replies) + 1)
      /\ replies'[Len(replies) + 1] = reply
  BY <1>3, AppendProperties, AppendedElements, LenProperties DEF CallTypes
<1>6. CallTypes'
  BY <1>1, <1>2, <1>4, <1>5 DEF CallTypes
<1>7. IsOpen(watchStream)
  BY <1>1 DEF WatchCallInv
<1>8. pending' = Len(requests') + Cardinality(Acks(replies'))
  <2>1. Cardinality(Acks(replies')) = Cardinality(Acks(replies)) + 1
    BY <1>3, <1>5, AcksOfAppend
  <2> QED
    BY <1>1, <1>2, <1>5, <2>1, AcksAreFinite DEF WatchCallInv, CallTypes
<1>9. \A i \in DOMAIN requests' : NoWatchAfter(requests', i) => NoWatchAfter(requests, i + 1)
  <2> SUFFICES ASSUME NEW i \in DOMAIN requests', NoWatchAfter(requests', i),
                      NEW j \in DOMAIN requests, i + 1 < j
               PROVE  requests[j].kind # "watch"
    BY DEF NoWatchAfter
  <2>1. j # 1 /\ j - 1 \in DOMAIN requests' /\ i < j - 1 /\ requests'[j - 1] = requests[j]
    BY <1>2
  <2> QED
    BY <2>1 DEF NoWatchAfter
<1>10. NewestIsLast(requests', listens')
  <2> SUFFICES ASSUME NEW i \in DOMAIN requests', requests'[i].kind = "watch",
                      NoWatchAfter(requests', i)
               PROVE  requests'[i].listen = listens'
    BY DEF NewestIsLast
  <2>1. NoWatchAfter(requests, i + 1) /\ i + 1 \in DOMAIN requests /\ requests'[i] = requests[i + 1]
    BY <1>2, <1>9
  <2> QED
    BY <1>1, <2>1 DEF WatchCallInv, NewestIsLast
<1>11. NoWatchAfter(requests', 0) => serving'.listen \in {0, listens'}
  <2> SUFFICES ASSUME NoWatchAfter(requests', 0), r.kind = "watch"
               PROVE  r.listen = listens
    BY <1>1, <1>3 DEF NoCall
  <2>1. NoWatchAfter(requests, 1)
    <3> SUFFICES ASSUME NEW j \in DOMAIN requests, 1 < j
                 PROVE  requests[j].kind # "watch"
      BY DEF NoWatchAfter
    <3>1. j # 1 /\ j - 1 \in DOMAIN requests' /\ 0 < j - 1 /\ requests'[j - 1] = requests[j]
      BY <1>2
    <3> QED
      BY <3>1 DEF NoWatchAfter
  <2> QED
    BY <1>2, <2>1 DEF WatchCallInv, NewestIsLast
<1>12. SaidOf(replies', serving'.listen)
  <2> SUFFICES ASSUME NEW i \in 1..(Len(replies) + 1), replies'[i].kind = "current",
                      \A j \in DOMAIN replies' : i < j => replies'[j].kind = "current"
               PROVE  FALSE
    BY <1>5 DEF SaidOf
  <2>1. i # Len(replies) + 1
    BY <1>3, <1>5
  <2>2. i < Len(replies) + 1 /\ Len(replies) + 1 \in DOMAIN replies'
    BY <1>5, <2>1
  <2> QED
    BY <1>3, <1>5, <2>2
<1> QED
  BY <1>1, <1>6, <1>7, <1>8, <1>10, <1>11, <1>12 DEF WatchCallInv

\* The backend says that the listen it serves is current.
LEMMA BackendCatchesUpKeepsCall ==
    ASSUME CallTypes, WatchCallInv, BackendCatchesUp
    PROVE  CallTypes' /\ WatchCallInv'
<1> DEFINE reply == [kind |-> "current", listen |-> serving.listen]
           n == Len(replies)
<1>1. /\ replies' = Append(replies, reply) /\ serving.listen # 0
      /\ serving' = [serving EXCEPT !.current = TRUE]
      /\ UNCHANGED <<watchStream, pending, listens, requests>>
  BY DEF BackendCatchesUp
<1>2. reply \in Replies /\ serving.listen \in Nat /\ serving'.listen = serving.listen
      /\ serving' \in [listen : Nat, current : BOOLEAN]
  BY <1>1 DEF CallTypes, Replies
<1>3. /\ n \in Nat /\ DOMAIN replies = 1..n /\ DOMAIN replies' = 1..(n + 1)
      /\ replies' \in Seq(Replies)
      /\ \A i \in 1..n : replies'[i] = replies[i]
      /\ replies'[n + 1] = reply
  BY <1>1, <1>2, AppendProperties, AppendedElements, LenProperties DEF CallTypes
<1>4. CallTypes'
  BY <1>1, <1>2, <1>3 DEF CallTypes
<1>5. IsOpen(watchStream)
  BY <1>1 DEF WatchCallInv, NoCall
<1>6. Cardinality(Acks(replies')) = Cardinality(Acks(replies))
  BY <1>1, <1>2, AcksOfAppend, AcksAreFinite DEF CallTypes
<1>7. SaidOf(replies', serving'.listen)
  <2> SUFFICES ASSUME NEW i \in 1..(n + 1), replies'[i].kind = "current",
                      \A j \in DOMAIN replies' : i < j => replies'[j].kind = "current"
               PROVE  replies'[i].listen = serving.listen /\ serving.listen # 0
    BY <1>2, <1>3 DEF SaidOf
  <2>1. CASE i = n + 1
    BY <1>1, <1>3, <2>1
  <2>2. CASE i # n + 1
    <3>1. i \in 1..n /\ \A j \in DOMAIN replies : i < j => replies[j].kind = "current"
      BY <1>3, <2>2
    <3> QED
      BY <1>3, <3>1 DEF WatchCallInv, SaidOf
  <2> QED
    BY <2>1, <2>2
<1> QED
  BY <1>1, <1>2, <1>4, <1>5, <1>6, <1>7 DEF WatchCallInv

\* The SDK reads a reply and counts it if it answers a request.
LEMMA ReplyRead ==
    ASSUME CallTypes, WatchCallInv, OnWatchStreamChange
    PROVE  CallTypes' /\ WatchCallInv'
<1>1. /\ replies \in Seq(Replies) /\ replies # <<>> /\ replies' = Tail(replies)
      /\ pending' = AwaitsFewer(Head(replies))
      /\ UNCHANGED <<listens, requests, serving>>
      /\ IsOpen(watchStream) /\ IsOpen(watchStream')
  BY DEF OnWatchStreamChange, CallTypes, ResetBackoff, IsOpen
<1>2. /\ 1 \in DOMAIN replies /\ Head(replies) = replies[1]
      /\ replies' \in Seq(Replies) /\ Len(replies) \in Nat
      /\ DOMAIN replies = 1..Len(replies) /\ DOMAIN replies' = 1..(Len(replies) - 1)
      /\ \A i \in DOMAIN replies' : i + 1 \in DOMAIN replies /\ replies'[i] = replies[i + 1]
      /\ \A i \in DOMAIN replies :
             i # 1 => i - 1 \in DOMAIN replies' /\ replies'[i - 1] = replies[i]
  BY <1>1, TailShifts
<1>3. pending' \in Nat /\ pending' = Len(requests') + Cardinality(Acks(replies'))
  <2>1. Cardinality(Acks(replies)) =
            Cardinality(Acks(replies')) + (IF replies[1].kind = "current" THEN 0 ELSE 1)
    BY <1>1, AcksOfTail
  <2>2. Cardinality(Acks(replies')) \in Nat /\ Len(requests) \in Nat
    BY <1>2, AcksAreFinite, LenProperties DEF CallTypes
  <2> QED
    BY <1>1, <1>2, <2>1, <2>2 DEF WatchCallInv, AwaitsFewer
<1>4. CallTypes'
  BY <1>1, <1>2, <1>3 DEF CallTypes
<1>5. SaidOf(replies', serving'.listen)
  <2> SUFFICES ASSUME NEW i \in DOMAIN replies', replies'[i].kind = "current",
                      \A j \in DOMAIN replies' : i < j => replies'[j].kind = "current"
               PROVE  replies'[i].listen = serving.listen /\ serving.listen # 0
    BY <1>1 DEF SaidOf
  <2>1. i + 1 \in DOMAIN replies /\ replies'[i] = replies[i + 1]
    BY <1>2
  <2>2. \A j \in DOMAIN replies : i + 1 < j => replies[j].kind = "current"
    <3> SUFFICES ASSUME NEW j \in DOMAIN replies, i + 1 < j
                 PROVE  replies[j].kind = "current"
      OBVIOUS
    <3>1. j # 1 /\ j - 1 \in DOMAIN replies' /\ i < j - 1 /\ replies'[j - 1] = replies[j]
      BY <1>2
    <3> QED
      BY <3>1
  <2> QED
    BY <2>1, <2>2 DEF WatchCallInv, SaidOf
<1> QED
  BY <1>1, <1>3, <1>4, <1>5 DEF WatchCallInv

\* A reply that counts is the backend's word on the newest listen.
LEMMA CountedIsNewest ==
    ASSUME CallTypes, WatchCallInv, replies # <<>>, Head(replies).kind = "current", IsActive
    PROVE  Head(replies).listen = listens
<1>1. /\ replies \in Seq(Replies) /\ requests \in Seq(Requests)
      /\ 1 \in DOMAIN replies /\ Head(replies) = replies[1]
      /\ DOMAIN replies = 1..Len(replies) /\ Len(replies) \in Nat
  BY TailShifts DEF CallTypes
<1>2. Len(requests) \in Nat /\ DOMAIN requests = 1..Len(requests)
  BY LenProperties DEF CallTypes
<1>3. Len(requests) = 0 /\ Cardinality(Acks(replies)) = 0
  BY <1>1, <1>2, AcksAreFinite DEF IsActive, WatchCallInv
<1>4. Acks(replies) = {}
  BY <1>1, <1>3, AcksAreFinite, FS_EmptySet
<1>5. \A j \in DOMAIN replies : replies[j].kind = "current"
  BY <1>4 DEF Acks
<1>6. replies[1].listen = serving.listen /\ serving.listen # 0
  BY <1>1, <1>5 DEF WatchCallInv, SaidOf
<1>7. NoWatchAfter(requests, 0)
  BY <1>2, <1>3 DEF NoWatchAfter
<1> QED
  BY <1>1, <1>6, <1>7 DEF WatchCallInv

-----------------------------------------------------------------------------
(* The watch stream: listeners and the online state.                         *)

Trackers == [online : {"unknown", "online", "offline"}, failed : BOOLEAN, timer : BOOLEAN]

QueryTypes ==
    /\ query \in [listeners : Seq(Calls), raised : SUBSET Calls,
                  snapshot : {"none", "cache", "synced"}]
    /\ query.raised \subseteq Elements(query.listeners)
    /\ query.snapshot = "none" <=> query.listeners = <<>>

LEMMA TrackerTypes ==
    ASSUME NEW t \in Trackers
    PROVE  /\ HandleWatchStreamStart(t) \in Trackers
           /\ HandleWatchStreamFailure(t) \in Trackers
           /\ UpdateState("unknown") \in Trackers /\ UpdateState("online") \in Trackers
           /\ [t EXCEPT !.timer = FALSE, !.online = "offline"] \in Trackers
BY DEF Trackers, HandleWatchStreamStart, HandleWatchStreamFailure, UpdateState

LEMMA NobodyListens ==
    ASSUME QueryTypes, ~Listening(query)
    PROVE  Elements(query.listeners) = {} /\ query.raised = {} /\ DOMAIN query.listeners = {}
<1>1. DOMAIN query.listeners = {}
  BY DEF Listening
<1> QED
  BY <1>1 DEF Elements, QueryTypes

\* Every listener is answered by a snapshot or told that the phone is offline.
LEMMA AllRaise ==
    ASSUME QueryTypes, RaisedFirst, Listening(query), NEW snapshot \in {"cache", "synced"},
           query' = [query EXCEPT !.raised = Elements(query.listeners), !.snapshot = snapshot]
    PROVE  /\ QueryTypes' /\ RaisedFirst' /\ NoneLeftWaiting' /\ Listening(query')
           /\ query'.listeners = query.listeners
<1>1. /\ query'.listeners = query.listeners /\ query'.snapshot = snapshot
      /\ query'.raised = Elements(query.listeners)
  BY DEF QueryTypes
<1>2. Elements(query.listeners) \subseteq Calls
  BY LenProperties DEF Elements, QueryTypes
<1>3. QueryTypes'
  <2>1. query' \in [listeners : Seq(Calls), raised : SUBSET Calls,
                    snapshot : {"none", "cache", "synced"}]
    BY <1>2 DEF QueryTypes
  <2> QED
    BY <1>1, <2>1 DEF QueryTypes, Listening
<1>4. RaisedFirst'
  BY <1>1 DEF RaisedFirst, Elements
<1> QED
  BY <1>1, <1>3, <1>4 DEF NoneLeftWaiting, Listening

LEMMA TrackKeeps ==
    ASSUME WatchTypeOK, ListenersInv, NEW t \in Trackers, Track(t),
           UNCHANGED <<made, tasks, muted, completed>>
    PROVE  /\ QueryTypes' /\ events' \in Seq(Calls) /\ tracker' = t /\ untimed' = FALSE
           /\ ListenersInv' /\ query'.listeners = query.listeners
<1>1. QueryTypes /\ events \in Seq(Calls) /\ query.listeners \in Seq(Calls)
  BY DEF WatchTypeOK, QueryTypes
<1>2. tracker' = t /\ untimed' = FALSE
  BY DEF Track
<1>3. CASE t.online = "offline" /\ tracker.online # "offline" /\ Listening(query)
  <2>1. /\ query' = [query EXCEPT !.raised = Elements(query.listeners), !.snapshot = "cache"]
        /\ events' = events \o OfflineEvents
    BY <1>3 DEF Track
  <2>2. /\ QueryTypes' /\ RaisedFirst' /\ NoneLeftWaiting'
        /\ query'.listeners = query.listeners
    BY <1>1, <1>3, <2>1, AllRaise DEF ListenersInv
  <2>3. OfflineEvents \in Seq(Calls)
    BY <1>1, WaitingHaveNotRaised DEF OfflineEvents, ListenersInv
  <2>4. events' \in Seq(Calls)
    BY <1>1, <2>1, <2>3, ConcatProperties
  <2>5. AddersAreFresh'
    BY <2>2 DEF ListenersInv, AddersAreFresh
  <2> QED
    BY <1>2, <2>2, <2>4, <2>5 DEF ListenersInv
<1>4. CASE ~(t.online = "offline" /\ tracker.online # "offline" /\ Listening(query))
  <2>1. UNCHANGED <<query, events>>
    BY <1>4 DEF Track
  <2>2. NoneLeftWaiting'
    <3>1. CASE Listening(query)
      BY <1>2, <1>4, <2>1, <3>1 DEF ListenersInv, NoneLeftWaiting, RaisesFor
    <3>2. CASE ~Listening(query)
      BY <1>1, <2>1, <3>2, NobodyListens DEF NoneLeftWaiting
    <3> QED
      BY <3>1, <3>2
  <2>3. QueryTypes' /\ RaisedFirst' /\ AddersAreFresh'
    BY <1>1, <2>1 DEF QueryTypes, RaisedFirst, AddersAreFresh, ListenersInv
  <2> QED
    BY <1>1, <1>2, <2>1, <2>2, <2>3 DEF ListenersInv
<1> QED
  BY <1>3, <1>4

\* A task is taken: those behind it stay as they were.
LEMMA TaskTaken ==
    ASSUME tasks \in Seq(Tasks), tasks # <<>>, tasks' = Tail(tasks)
    PROVE  /\ tasks' \in Seq(Tasks) /\ Head(tasks) = tasks[1] /\ 1 \in DOMAIN tasks
           /\ Head(tasks).call \in Calls
           /\ \A i \in DOMAIN tasks' :
                  /\ i + 1 \in DOMAIN tasks /\ tasks'[i] = tasks[i + 1]
                  /\ 1 < i + 1
                  /\ \A j \in DOMAIN tasks' : i < j => i + 1 < j + 1
<1>1. /\ 1 \in DOMAIN tasks /\ Head(tasks) = tasks[1] /\ tasks[1] \in Tasks
      /\ tasks' \in Seq(Tasks) /\ DOMAIN tasks' = 1..(Len(tasks) - 1) /\ Len(tasks) \in Nat
      /\ \A i \in DOMAIN tasks' : i + 1 \in DOMAIN tasks /\ tasks'[i] = tasks[i + 1]
  BY TailShifts
<1>2. tasks[1].call \in Calls
  BY <1>1 DEF Tasks
<1> QED
  BY <1>1, <1>2

\* A new listener joins: after it the others are as they were, and it raises its
\* event if nobody has to wait.
LEMMA ListenerJoins ==
    ASSUME WatchTypeOK, ListenersInv, tasks # <<>>, Head(tasks).kind = "add",
           tasks' = Tail(tasks), UNCHANGED <<made, muted, completed>>,
           query' = IF Listening(query) THEN Joins(Head(tasks).call, query)
                    ELSE FirstListener(Head(tasks).call),
           events' = IF Head(tasks).call \in query'.raised
                     THEN Append(events, Head(tasks).call) ELSE events,
           tracker'.online = "offline" => tracker.online = "offline"
    PROVE  /\ QueryTypes' /\ tasks' \in Seq(Tasks) /\ events' \in Seq(Calls)
           /\ ListenersInv' /\ Listening(query')
<1> DEFINE c == Head(tasks).call
           n == Len(query.listeners)
<1>1. /\ tasks' \in Seq(Tasks) /\ Head(tasks) = tasks[1] /\ 1 \in DOMAIN tasks /\ c \in Calls
      /\ \A i \in DOMAIN tasks' :
             /\ i + 1 \in DOMAIN tasks /\ tasks'[i] = tasks[i + 1] /\ 1 < i + 1
             /\ \A j \in DOMAIN tasks' : i < j => i + 1 < j + 1
  BY TaskTaken DEF WatchTypeOK
<1>2. /\ c <= made /\ c \notin Elements(query.listeners)
      /\ \A j \in DOMAIN tasks : 1 < j /\ tasks[j].kind = "add" => tasks[j].call # c
  BY <1>1 DEF ListenersInv, AddersAreFresh
<1> HIDE DEF c
<1>3. /\ query \in [listeners : Seq(Calls), raised : SUBSET Calls,
                    snapshot : {"none", "cache", "synced"}]
      /\ query.raised \subseteq Elements(query.listeners)
      /\ QueryTypes
  BY DEF WatchTypeOK, QueryTypes
<1> DEFINE snapshot == IF Listening(query) THEN query.snapshot ELSE "cache"
           raised == IF RaisesFor(snapshot, tracker.online) THEN query.raised \cup {c}
                     ELSE query.raised
<1>4. query' = [listeners |-> Append(query.listeners, c), raised |-> raised,
                snapshot |-> snapshot]
  <2>1. CASE Listening(query)
    BY <1>3, <2>1 DEF Joins, c
  <2>2. CASE ~Listening(query)
    BY <1>3, <2>2 DEF FirstListener, Joins, c
  <2> QED
    BY <2>1, <2>2
<1>5. snapshot \in {"cache", "synced"}
  BY <1>3 DEF QueryTypes, Listening
<1>6. raised \in SUBSET Calls /\ raised \subseteq Elements(query.listeners) \cup {c}
  BY <1>1, <1>3
<1>7. /\ n \in Nat /\ DOMAIN query.listeners = 1..n /\ DOMAIN query'.listeners = 1..(n + 1)
      /\ Append(query.listeners, c) \in Seq(Calls) /\ query'.listeners # <<>>
      /\ \A i \in 1..n : query'.listeners[i] = query.listeners[i]
      /\ query'.listeners[n + 1] = c
      /\ Elements(query'.listeners) = Elements(query.listeners) \cup {c}
  <2>1. query'.listeners = Append(query.listeners, c) /\ query.listeners \in Seq(Calls)
    BY <1>3, <1>4
  <2>2. n \in Nat /\ DOMAIN query.listeners = 1..n
    BY <2>1, LenProperties
  <2>3. /\ Append(query.listeners, c) \in Seq(Calls) /\ Append(query.listeners, c) # <<>>
        /\ \A i \in 1..n : Append(query.listeners, c)[i] = query.listeners[i]
        /\ Append(query.listeners, c)[n + 1] = c
    BY <1>1, <2>1, AppendProperties
  <2>4. /\ DOMAIN Append(query.listeners, c) = 1..(n + 1)
        /\ Elements(Append(query.listeners, c)) = Elements(query.listeners) \cup {c}
    BY <1>1, <2>1, AppendedElements
  <2> QED
    BY <2>1, <2>2, <2>3, <2>4
<1>8. /\ query'.raised = raised /\ query'.snapshot = snapshot
      /\ query' \in [listeners : Seq(Calls), raised : SUBSET Calls,
                     snapshot : {"none", "cache", "synced"}]
  <2> DEFINE ls == Append(query.listeners, c)
  <2>1. ls \in Seq(Calls)
    BY <1>7
  <2>2. raised \in SUBSET Calls
    BY <1>6
  <2>3. snapshot \in {"none", "cache", "synced"}
    BY <1>5
  <2>4. query' = [listeners |-> ls, raised |-> raised, snapshot |-> snapshot]
    BY <1>4
  <2> HIDE DEF snapshot, raised, ls
  <2>5. query' \in [listeners : Seq(Calls), raised : SUBSET Calls,
                    snapshot : {"none", "cache", "synced"}]
    BY <2>1, <2>2, <2>3, <2>4
  <2> QED
    BY <2>4, <2>5
<1> HIDE DEF snapshot
<1>9. QueryTypes'
  BY <1>5, <1>6, <1>7, <1>8 DEF QueryTypes
<1>10. events' \in Seq(Calls)
  BY <1>1, AppendProperties DEF WatchTypeOK, c
<1>11. ASSUME RaisesFor(snapshot, tracker.online)
       PROVE  Elements(query.listeners) \subseteq query.raised
  BY <1>3, <1>11, NobodyListens DEF ListenersInv, NoneLeftWaiting, snapshot
<1>12. NoneLeftWaiting'
  <2> SUFFICES ASSUME RaisesFor(query'.snapshot, tracker'.online)
               PROVE  Elements(query'.listeners) \subseteq query'.raised
    BY DEF NoneLeftWaiting
  <2>1. RaisesFor(snapshot, tracker.online)
    BY <1>8 DEF RaisesFor
  <2> QED
    BY <1>7, <1>8, <1>11, <2>1
<1>13. RaisedFirst'
  <2> SUFFICES ASSUME NEW i \in 1..(n + 1), NEW j \in 1..(n + 1), i < j
               PROVE  /\ query'.listeners[i] # query'.listeners[j]
                      /\ query'.listeners[j] \in query'.raised =>
                             query'.listeners[i] \in query'.raised
    BY <1>7 DEF RaisedFirst
  <2> HIDE DEF n
  <2>1. /\ i \in 1..n /\ query'.listeners[i] = query.listeners[i]
        /\ query.listeners[i] \in Elements(query.listeners)
    <3>1. i \in 1..n
      BY <1>7
    <3> QED
      BY <1>7, <3>1 DEF Elements
  <2>2. CASE j = n + 1
    BY <1>2, <1>7, <1>8, <1>11, <1>3, <2>1, <2>2
  <2>3. CASE j # n + 1
    <3>1. /\ j \in 1..n /\ query'.listeners[j] = query.listeners[j]
          /\ query.listeners[j] \in Elements(query.listeners)
      <4>1. j \in 1..n
        BY <1>7, <2>3
      <4> QED
        BY <1>7, <4>1 DEF Elements
    <3>2. query.listeners[j] \in raised => query.listeners[j] \in query.raised
      BY <1>2, <3>1
    <3>3. query.raised \subseteq raised
      OBVIOUS
    <3>4. /\ query.listeners[i] # query.listeners[j]
          /\ query.listeners[j] \in query.raised => query.listeners[i] \in query.raised
      BY <1>7, <2>1, <3>1 DEF ListenersInv, RaisedFirst
    <3> QED
      BY <1>8, <2>1, <3>1, <3>2, <3>3, <3>4
  <2> QED
    BY <2>2, <2>3
<1>14. AddersAreFresh'
  <2>1. \A d \in Elements(query'.listeners) : d <= made'
    BY <1>2, <1>7 DEF ListenersInv, AddersAreFresh
  <2>2. ASSUME NEW i \in DOMAIN tasks', tasks'[i].kind = "add"
        PROVE  /\ tasks'[i].call <= made' /\ tasks'[i].call \notin Elements(query'.listeners)
               /\ \A j \in DOMAIN tasks' :
                      i < j /\ tasks'[j].kind = "add" => tasks'[j].call # tasks'[i].call
    <3>1. i + 1 \in DOMAIN tasks /\ tasks'[i] = tasks[i + 1] /\ 1 < i + 1
      BY <1>1
    <3>2. /\ tasks[i + 1].call <= made /\ tasks[i + 1].call \notin Elements(query.listeners)
          /\ \A j \in DOMAIN tasks : i + 1 < j /\ tasks[j].kind = "add" =>
                 tasks[j].call # tasks[i + 1].call
      BY <2>2, <3>1 DEF ListenersInv, AddersAreFresh
    <3>3. tasks[i + 1].call # c
      BY <1>2, <2>2, <3>1
    <3>4. \A j \in DOMAIN tasks' :
              i < j /\ tasks'[j].kind = "add" => tasks'[j].call # tasks'[i].call
      BY <1>1, <3>1, <3>2
    <3> QED
      BY <1>7, <3>1, <3>2, <3>3, <3>4
  <2> QED
    BY <2>1, <2>2 DEF AddersAreFresh
<1> QED
  BY <1>1, <1>7, <1>9, <1>10, <1>12, <1>13, <1>14 DEF ListenersInv, Listening

\* A listener is removed; one that is not there any more, if any, changes nothing.
LEMMA ListenerLeaves ==
    ASSUME WatchTypeOK, ListenersInv, NEW c \in Calls,
           tasks # <<>>, tasks' = Tail(tasks), UNCHANGED <<made, muted, completed>>,
           LET left == Others(query.listeners, c)
           IN  query' = [listeners |-> left, raised |-> query.raised \ {c},
                         snapshot |-> IF left = <<>> THEN "none" ELSE query.snapshot],
           Listening(query') => UNCHANGED tracker
    PROVE  /\ QueryTypes' /\ tasks' \in Seq(Tasks)
           /\ ListenersInv' /\ (Listening(query') => Listening(query))
<1> DEFINE left == Others(query.listeners, c)
<1>1. /\ query \in [listeners : Seq(Calls), raised : SUBSET Calls,
                    snapshot : {"none", "cache", "synced"}]
      /\ query.raised \subseteq Elements(query.listeners)
      /\ query.snapshot = "none" <=> query.listeners = <<>>
  BY DEF WatchTypeOK
<1>2. /\ left \in Seq(Calls) /\ Elements(left) = Elements(query.listeners) \ {c}
      /\ \A i, j \in DOMAIN left : i < j =>
             \E k, l \in DOMAIN query.listeners :
                 k < l /\ query.listeners[k] = left[i] /\ query.listeners[l] = left[j]
  BY <1>1, OthersLeft DEF ListenersInv, RaisedFirst
<1> HIDE DEF left
<1>3. query' = [listeners |-> left, raised |-> query.raised \ {c},
                snapshot |-> IF left = <<>> THEN "none" ELSE query.snapshot]
  BY DEF left
<1>4. /\ query'.listeners = left /\ query'.raised = query.raised \ {c}
      /\ query'.snapshot = IF left = <<>> THEN "none" ELSE query.snapshot
  BY <1>3
<1>5. left # <<>> => query.listeners # <<>>
  <2> SUFFICES ASSUME query.listeners = <<>>
               PROVE  left = <<>>
    OBVIOUS
  <2>1. DOMAIN query.listeners = {}
    OBVIOUS
  <2>2. Elements(query.listeners) = {}
    BY <2>1 DEF Elements
  <2> QED
    BY <2>2 DEF left, Others
<1>6. QueryTypes'
  <2>1. query' \in [listeners : Seq(Calls), raised : SUBSET Calls,
                    snapshot : {"none", "cache", "synced"}]
    BY <1>1, <1>2, <1>3
  <2> QED
    BY <1>1, <1>2, <1>4, <1>5, <2>1 DEF QueryTypes
<1>7. \A i \in DOMAIN left : left[i] \in Elements(query.listeners) \ {c}
  BY <1>2 DEF Elements
<1>8. RaisedFirst'
  <2> SUFFICES ASSUME NEW i \in DOMAIN left, NEW j \in DOMAIN left, i < j
               PROVE  /\ left[i] # left[j]
                      /\ left[j] \in query.raised \ {c} => left[i] \in query.raised \ {c}
    BY <1>4 DEF RaisedFirst
  <2>1. PICK k \in DOMAIN query.listeners, l \in DOMAIN query.listeners :
            k < l /\ query.listeners[k] = left[i] /\ query.listeners[l] = left[j]
    BY <1>2
  <2> QED
    BY <1>7, <2>1 DEF ListenersInv, RaisedFirst
<1>9. NoneLeftWaiting'
  <2>1. CASE left = <<>>
    <3>1. DOMAIN left = {}
      BY <2>1
    <3> QED
      BY <1>4, <3>1 DEF NoneLeftWaiting, Elements
  <2>2. CASE left # <<>>
    BY <1>2, <1>4, <2>2 DEF ListenersInv, NoneLeftWaiting, Listening
  <2> QED
    BY <2>1, <2>2
<1>10. /\ tasks' \in Seq(Tasks)
       /\ \A i \in DOMAIN tasks' :
              /\ i + 1 \in DOMAIN tasks /\ tasks'[i] = tasks[i + 1] /\ 1 < i + 1
              /\ \A j \in DOMAIN tasks' : i < j => i + 1 < j + 1
  BY TaskTaken DEF WatchTypeOK
<1>11. AddersAreFresh'
  <2>1. \A d \in Elements(query'.listeners) : d <= made'
    BY <1>2, <1>4 DEF ListenersInv, AddersAreFresh
  <2>2. ASSUME NEW i \in DOMAIN tasks', tasks'[i].kind = "add"
        PROVE  /\ tasks'[i].call <= made' /\ tasks'[i].call \notin Elements(query'.listeners)
               /\ \A j \in DOMAIN tasks' :
                      i < j /\ tasks'[j].kind = "add" => tasks'[j].call # tasks'[i].call
    <3>1. i + 1 \in DOMAIN tasks /\ tasks'[i] = tasks[i + 1]
      BY <1>10
    <3>2. /\ tasks[i + 1].call <= made /\ tasks[i + 1].call \notin Elements(query.listeners)
          /\ \A j \in DOMAIN tasks : i + 1 < j /\ tasks[j].kind = "add" =>
                 tasks[j].call # tasks[i + 1].call
      BY <2>2, <3>1 DEF ListenersInv, AddersAreFresh
    <3> QED
      BY <1>2, <1>4, <1>10, <3>1, <3>2
  <2> QED
    BY <2>1, <2>2 DEF AddersAreFresh
<1> QED
  BY <1>4, <1>5, <1>6, <1>8, <1>9, <1>10, <1>11 DEF ListenersInv, Listening

\* A task is queued: a new call, or a removal.
LEMMA TaskQueued ==
    ASSUME WatchTypeOK, AddersAreFresh, NEW task \in Tasks, tasks' = Append(tasks, task),
           \/ task.kind = "add" /\ task.call = made + 1 /\ made' = made + 1
           \/ task.kind = "remove" /\ made' = made,
           UNCHANGED query
    PROVE  tasks' \in Seq(Tasks) /\ AddersAreFresh'
<1> DEFINE n == Len(tasks)
<1>1. /\ n \in Nat /\ DOMAIN tasks = 1..n /\ DOMAIN tasks' = 1..(n + 1)
      /\ tasks' \in Seq(Tasks)
      /\ \A i \in 1..n : tasks'[i] = tasks[i]
      /\ tasks'[n + 1] = task
  BY AppendProperties, AppendedElements, LenProperties DEF WatchTypeOK
<1>2. made \in Nat /\ made <= made' /\ made' \in Nat
  BY DEF WatchTypeOK
<1>3. \A c \in Elements(query.listeners) : c <= made /\ c \in Nat
  <2>1. \A c \in Elements(query.listeners) : c \in Calls
    BY ElementOfSeq, LenProperties DEF Elements, WatchTypeOK
  <2> QED
    BY <2>1, CallsAssumption DEF AddersAreFresh, Calls
<1>4. \A i \in 1..n : tasks[i].call \in Nat
  <2>1. \A i \in 1..n : tasks[i] \in Tasks
    BY <1>1, ElementOfSeq DEF WatchTypeOK
  <2> QED
    BY <2>1, CallsAssumption DEF Tasks, Calls
<1>5. \A c \in Elements(query'.listeners) : c <= made'
  BY <1>2, <1>3
<1>6. ASSUME NEW i \in DOMAIN tasks', tasks'[i].kind = "add"
      PROVE  /\ tasks'[i].call <= made' /\ tasks'[i].call \notin Elements(query'.listeners)
             /\ \A j \in DOMAIN tasks' :
                    i < j /\ tasks'[j].kind = "add" => tasks'[j].call # tasks'[i].call
  <2>1. CASE i = n + 1
    <3>1. task.call = made + 1 /\ made' = made + 1
      BY <1>1, <1>6, <2>1
    <3>2. made + 1 \notin Elements(query'.listeners)
      BY <1>2, <1>3
    <3> QED
      BY <1>1, <1>2, <2>1, <3>1, <3>2
  <2>2. CASE i # n + 1
    <3>1. i \in 1..n /\ tasks'[i] = tasks[i]
      BY <1>1, <2>2
    <3>2. /\ tasks[i].call <= made /\ tasks[i].call \notin Elements(query.listeners)
          /\ \A j \in DOMAIN tasks :
                 i < j /\ tasks[j].kind = "add" => tasks[j].call # tasks[i].call
      BY <1>1, <1>6, <3>1 DEF AddersAreFresh
    <3>3. \A j \in 1..(n + 1) :
              i < j /\ tasks'[j].kind = "add" => tasks'[j].call # tasks'[i].call
      <4> SUFFICES ASSUME NEW j \in 1..(n + 1), i < j, tasks'[j].kind = "add"
                   PROVE  tasks'[j].call # tasks[i].call
        BY <3>1
      <4>1. CASE j = n + 1
        <5>1. tasks'[j].call = made + 1
          BY <1>1, <4>1
        <5> QED
          BY <1>2, <1>4, <3>1, <3>2, <5>1
      <4>2. CASE j # n + 1
        BY <1>1, <3>2, <4>2
      <4> QED
        BY <4>1, <4>2
    <3> QED
      BY <1>1, <1>2, <1>4, <3>1, <3>2, <3>3
  <2> QED
    BY <2>1, <2>2
<1> QED
  BY <1>1, <1>5, <1>6 DEF AddersAreFresh

-----------------------------------------------------------------------------
(* The watch stream: the stream and the online state.                        *)

\* When a stream is started: from Start to Close.
LEMMA StartedShapes ==
    ASSUME NEW s \in Streams
    PROVE  /\ IsStarted(Start(s)) /\ IsStarted(Restart(s))
           /\ IsOpen(OnStreamStart(s)) /\ OnStreamStart(s).idle = s.idle
           /\ IsOpen(s) => IsStarted(s)
           /\ IsStarted(MarkIdle(s)) = IsStarted(s)
           /\ IsStarted(CancelIdleCheck(s)) = IsStarted(s)
           /\ IsStarted(ResetBackoff(s)) = IsStarted(s)
           /\ \A status : ~IsStarted(Close(s, status))
BY DEF Streams, Start, Restart, BackoffAndTryRestarting, OnStreamStart, MarkIdle, IsOpen,
       IsStarted, CancelIdleCheck, ResetBackoff, Close

StreamAndTracker ==
    tracker \in Trackers /\ untimed \in BOOLEAN /\ watchStream \in Streams

\* The tracker when the stream starts: offline only if it was, with the timer if not.
LEMMA StartTracked ==
    ASSUME NEW t \in Trackers, t.failed => t.online = "offline"
    PROVE  LET u == HandleWatchStreamStart(t)
           IN  /\ u \in Trackers
               /\ u.online = "offline" => t.online = "offline"
               /\ u.failed => u.online = "offline"
               /\ u.online = "unknown" => u.timer
               /\ (t.timer => ~t.failed) => (u.timer => u.online = "unknown" /\ ~u.failed)
BY DEF Trackers, HandleWatchStreamStart

LEMMA FailureTracked ==
    ASSUME NEW t \in Trackers, t.failed => t.online = "offline",
           t.timer => t.online = "unknown" /\ ~t.failed
    PROVE  LET u == HandleWatchStreamFailure(t)
           IN  /\ u \in Trackers
               /\ u.failed => u.online = "offline"
               /\ u.timer => ~u.failed
BY DEF Trackers, HandleWatchStreamFailure

\* Listen for the first listener: the stream is started, whatever it was.
LEMMA ListenKeeps ==
    ASSUME StreamAndTracker, CallTypes, TrackerInv, WatchCallInv, ~Listening(query), Listen,
           UNCHANGED <<replies, serving>>
    PROVE  /\ StreamAndTracker' /\ CallTypes' /\ WatchCallInv'
           /\ tracker'.online = "offline" => tracker.online = "offline"
           /\ Listening(query') => TrackerInv'
<1>1. CASE ~IsStarted(watchStream)
  <2>1. /\ watchStream' = Start(watchStream) /\ tracker' = HandleWatchStreamStart(tracker)
        /\ untimed' = FALSE
        /\ UNCHANGED <<pending, listens, requests>>
    BY <1>1 DEF Listen, StartWatchStream
  <2>2. ~IsOpen(watchStream) /\ ~watchStream.idle
    BY <1>1, StartedShapes DEF StreamAndTracker, TrackerInv
  <2>3. StreamAndTracker'
    BY <2>1, StreamTypes, TrackerTypes DEF StreamAndTracker
  <2>4. CallTypes' /\ WatchCallInv'
    BY <2>1, <2>2, StreamShapes DEF CallTypes, WatchCallInv, StreamAndTracker
  <2>5. /\ tracker'.online = "offline" => tracker.online = "offline"
        /\ tracker'.failed => tracker'.online = "offline"
        /\ tracker'.online = "unknown" => tracker'.timer
        /\ tracker'.timer => tracker'.online = "unknown" /\ ~tracker'.failed
    BY <2>1, StartTracked DEF StreamAndTracker, TrackerInv, TimerIsSound
  <2>6. IsStarted(watchStream') /\ ~watchStream'.idle
    BY <2>1, <2>2, StartedShapes, StreamShapes DEF StreamAndTracker
  <2> QED
    BY <2>3, <2>4, <2>5, <2>6 DEF TrackerInv, TimerIsSound
<1>2. CASE IsStarted(watchStream) /\ IsOpen(watchStream)
  <2>1. /\ pending' = pending + 1 /\ listens' = listens + 1
        /\ requests' = Append(requests, Watch)
        /\ watchStream' = CancelIdleCheck(watchStream)
        /\ UNCHANGED <<tracker, untimed>>
    BY <1>2 DEF Listen, trackVars
  <2>2. Watch \in Requests /\ Watch = [kind |-> "watch", listen |-> listens + 1]
    BY DEF Watch, Requests, CallTypes
  <2>3. /\ IsOpen(watchStream') /\ IsStarted(watchStream') /\ ~watchStream'.idle
        /\ watchStream' \in Streams
    BY <1>2, <2>1, StreamTypes, StreamShapes, StartedShapes DEF StreamAndTracker
  <2>4. CallTypes' /\ WatchCallInv'
    BY <1>2, <2>1, <2>2, <2>3, RequestSent
  <2> QED
    BY <1>2, <2>1, <2>3, <2>4 DEF StreamAndTracker, TrackerInv, TimerIsSound
<1>3. CASE IsStarted(watchStream) /\ ~IsOpen(watchStream)
  <2>1. UNCHANGED <<pending, listens, requests, watchStream, tracker, untimed>>
    BY <1>3 DEF Listen, trackVars
  <2> QED
    BY <1>3, <2>1 DEF StreamAndTracker, CallTypes, WatchCallInv, TrackerInv, TimerIsSound
<1> QED
  BY <1>1, <1>2, <1>3

\* StopListening after the last listener: an open stream goes idle.
LEMMA StopKeeps ==
    ASSUME StreamAndTracker, CallTypes, TrackerInv, WatchCallInv, StopListening,
           UNCHANGED <<listens, replies, serving>>
    PROVE  /\ StreamAndTracker' /\ CallTypes' /\ WatchCallInv'
           /\ ~Listening(query') => TrackerInv'
<1>1. CASE IsOpen(watchStream)
  <2>1. /\ pending' = pending + 1 /\ requests' = Append(requests, [kind |-> "unwatch"])
        /\ watchStream' = MarkIdle(CancelIdleCheck(watchStream))
        /\ UNCHANGED <<tracker, untimed>>
    BY <1>1 DEF StopListening, Unwatch, trackVars
  <2>2. [kind |-> "unwatch"] \in Requests
    BY DEF Requests
  <2>3. CancelIdleCheck(watchStream) \in Streams /\ IsOpen(CancelIdleCheck(watchStream))
    BY <1>1, StreamTypes, StreamShapes DEF StreamAndTracker
  <2>4. watchStream' \in Streams /\ IsOpen(watchStream') /\ IsStarted(watchStream')
    BY <2>1, <2>3, StreamTypes, StreamShapes, StartedShapes
  <2>5. CallTypes' /\ WatchCallInv'
    BY <1>1, <2>1, <2>2, <2>4, RequestSent
  <2>6. IsStarted(watchStream)
    BY <1>1, StartedShapes DEF StreamAndTracker
  <2> QED
    BY <2>1, <2>4, <2>5, <2>6 DEF StreamAndTracker, TrackerInv, TimerIsSound
<1>2. CASE ~IsOpen(watchStream)
  <2>1. /\ tracker' = UpdateState("unknown") /\ untimed' = IsStarted(watchStream)
        /\ UNCHANGED <<pending, requests, watchStream>>
    BY <1>2 DEF StopListening
  <2>2. CallTypes' /\ WatchCallInv'
    BY <1>2, <2>1 DEF CallTypes, WatchCallInv
  <2>3. untimed' \in BOOLEAN
    BY <2>1 DEF IsStarted
  <2>4. StreamAndTracker'
    BY <2>1, <2>3, TrackerTypes DEF StreamAndTracker
  <2>5. ~tracker'.timer /\ ~tracker'.failed
    BY <2>1 DEF UpdateState
  <2>6. ~watchStream.idle
    BY <1>2 DEF TrackerInv
  <2> QED
    BY <2>1, <2>2, <2>4, <2>5, <2>6 DEF TrackerInv, TimerIsSound
<1> QED
  BY <1>1, <1>2

-----------------------------------------------------------------------------
(* The watch stream: each action keeps what is inductive.                     *)

LEMMA WatchTypesApart ==
    WatchTypeOK <=> /\ made \in 0..MaxCalls
                    /\ tasks \in Seq(Tasks)
                    /\ QueryTypes
                    /\ events \in Seq(Calls) /\ muted \subseteq Calls
                    /\ completed \in [Calls -> Nat]
                    /\ StreamAndTracker
                    /\ CallTypes
BY DEF WatchTypeOK, QueryTypes, StreamAndTracker, CallTypes, Trackers

LEMMA WatchTypesApartNext ==
    WatchTypeOK' <=> /\ made' \in 0..MaxCalls
                     /\ tasks' \in Seq(Tasks)
                     /\ QueryTypes'
                     /\ events' \in Seq(Calls) /\ muted' \subseteq Calls
                     /\ completed' \in [Calls -> Nat]
                     /\ StreamAndTracker'
                     /\ CallTypes'
BY DEF WatchTypeOK, QueryTypes, StreamAndTracker, CallTypes, Trackers

StreamSide == <<trackVars, watchStream, pending, listens, watchCallVars>>

LEMMA StreamSideStays ==
    ASSUME StreamAndTracker, CallTypes, TrackerInv, WatchCallInv, UNCHANGED StreamSide
    PROVE  /\ StreamAndTracker' /\ CallTypes' /\ WatchCallInv'
           /\ Listening(query') = Listening(query) => TrackerInv'
BY DEF StreamSide, trackVars, watchCallVars, StreamAndTracker, CallTypes, TrackerInv,
       WatchCallInv, TimerIsSound

AppSide == <<made, tasks, query, events, muted, completed>>

LEMMA AppSideStays ==
    ASSUME WatchTypeOK, ListenersInv, UNCHANGED AppSide,
           tracker'.online = "offline" => tracker.online = "offline"
    PROVE  /\ made' \in 0..MaxCalls /\ tasks' \in Seq(Tasks) /\ QueryTypes'
           /\ events' \in Seq(Calls) /\ muted' \subseteq Calls /\ completed' \in [Calls -> Nat]
           /\ ListenersInv' /\ Listening(query') = Listening(query)
BY DEF AppSide, WatchTypeOK, QueryTypes, ListenersInv, AddersAreFresh, RaisedFirst,
       NoneLeftWaiting, RaisesFor, Listening

LEMMA GetDocumentsKeepsWatch ==
    ASSUME WatchIInv, GetDocuments
    PROVE  WatchIInv'
<1> DEFINE task == [kind |-> "add", call |-> made + 1]
<1>1. /\ made < MaxCalls /\ made' = made + 1 /\ tasks' = Append(tasks, task)
      /\ UNCHANGED <<query, events, muted, completed>> /\ UNCHANGED StreamSide
  BY DEF GetDocuments, StreamSide
<1>2. made' \in 0..MaxCalls /\ task \in Tasks
  BY <1>1, CallsAssumption DEF WatchIInv, WatchTypeOK, Tasks, Calls
<1>3. tasks' \in Seq(Tasks) /\ AddersAreFresh'
  BY <1>1, <1>2, TaskQueued DEF WatchIInv, ListenersInv
<1>4. ListenersInv'
  BY <1>1, <1>3 DEF WatchIInv, ListenersInv, RaisedFirst, NoneLeftWaiting, RaisesFor,
                    StreamSide, trackVars
<1>5. StreamAndTracker' /\ CallTypes' /\ WatchCallInv' /\ TrackerInv'
  BY <1>1, StreamSideStays, WatchTypesApart DEF WatchIInv
<1>6. WatchTypeOK'
  BY <1>1, <1>2, <1>3, <1>5, WatchTypesApart, WatchTypesApartNext DEF WatchIInv, QueryTypes
<1> QED
  BY <1>4, <1>5, <1>6 DEF WatchIInv

LEMMA RunEventKeepsWatch ==
    ASSUME WatchIInv, RunEvent
    PROVE  WatchIInv'
<1> DEFINE c == Head(events)
           task == [kind |-> "remove", call |-> c]
<1>1. /\ events # <<>> /\ events' = Tail(events)
      /\ UNCHANGED <<made, query>> /\ UNCHANGED StreamSide
      /\ IF c \in muted THEN UNCHANGED <<muted, tasks, completed>>
         ELSE /\ muted' = muted \cup {c}
              /\ tasks' = Append(tasks, task)
              /\ completed' = [completed EXCEPT ![c] = @ + 1]
  BY DEF RunEvent, StreamSide
<1>2. c \in Calls /\ events' \in Seq(Calls)
  BY <1>1, TailShifts DEF WatchIInv, WatchTypeOK
<1>3. tasks' \in Seq(Tasks) /\ AddersAreFresh'
  <2>1. CASE c \in muted
    BY <1>1, <2>1 DEF WatchIInv, WatchTypeOK, ListenersInv, AddersAreFresh
  <2>2. CASE c \notin muted
    <3>1. task \in Tasks
      BY <1>2 DEF Tasks
    <3> QED
      BY <1>1, <2>2, <3>1, TaskQueued DEF WatchIInv, ListenersInv
  <2> QED
    BY <2>1, <2>2
<1>4. /\ muted' \subseteq Calls /\ completed' \in [Calls -> Nat]
      /\ \A d \in Calls : completed'[d] = IF d \in muted' THEN 1 ELSE 0
  <2>1. /\ muted \subseteq Calls /\ completed \in [Calls -> Nat]
        /\ \A d \in Calls : completed[d] = IF d \in muted THEN 1 ELSE 0
    BY DEF WatchIInv, WatchTypeOK, ListenersInv
  <2> QED
    BY <1>1, <1>2, <2>1
<1>5. ListenersInv'
  BY <1>1, <1>3, <1>4 DEF WatchIInv, ListenersInv, RaisedFirst, NoneLeftWaiting, RaisesFor,
                          StreamSide, trackVars
<1>6. StreamAndTracker' /\ CallTypes' /\ WatchCallInv' /\ TrackerInv'
  BY <1>1, StreamSideStays, WatchTypesApart DEF WatchIInv
<1>7. WatchTypeOK'
  BY <1>1, <1>2, <1>3, <1>4, <1>6, WatchTypesApart, WatchTypesApartNext
     DEF WatchIInv, QueryTypes
<1> QED
  BY <1>5, <1>6, <1>7 DEF WatchIInv

LEMMA AddListenerKeepsWatch ==
    ASSUME WatchIInv, AddListener
    PROVE  WatchIInv'
<1>1. /\ tasks # <<>> /\ Head(tasks).kind = "add" /\ tasks' = Tail(tasks)
      /\ query' = IF Listening(query) THEN Joins(Head(tasks).call, query)
                  ELSE FirstListener(Head(tasks).call)
      /\ events' = IF Head(tasks).call \in query'.raised
                   THEN Append(events, Head(tasks).call) ELSE events
      /\ UNCHANGED <<made, muted, completed, replies, serving>>
  BY DEF AddListener
<1>2. StreamAndTracker /\ CallTypes
  BY WatchTypesApart DEF WatchIInv
<1>3. /\ StreamAndTracker' /\ CallTypes' /\ WatchCallInv'
      /\ tracker'.online = "offline" => tracker.online = "offline"
      /\ Listening(query') => TrackerInv'
  <2>1. CASE Listening(query)
    <3>1. UNCHANGED StreamSide
      BY <1>1, <2>1 DEF AddListener, StreamSide, trackVars, watchCallVars
    <3>2. UNCHANGED tracker
      BY <3>1 DEF StreamSide, trackVars
    <3> QED
      BY <1>2, <2>1, <3>1, <3>2, StreamSideStays DEF WatchIInv
  <2>2. CASE ~Listening(query)
    BY <1>1, <1>2, <2>2, ListenKeeps DEF AddListener, WatchIInv
  <2> QED
    BY <2>1, <2>2
<1>4. /\ QueryTypes' /\ tasks' \in Seq(Tasks) /\ events' \in Seq(Calls)
      /\ ListenersInv' /\ Listening(query')
  BY <1>1, <1>3, ListenerJoins DEF WatchIInv
<1>5. WatchTypeOK'
  BY <1>1, <1>3, <1>4, WatchTypesApart, WatchTypesApartNext DEF WatchIInv
<1> QED
  BY <1>3, <1>4, <1>5 DEF WatchIInv

LEMMA RemoveListenerKeepsWatch ==
    ASSUME WatchIInv, RemoveListener
    PROVE  WatchIInv'
<1> DEFINE c == Head(tasks).call
           left == Others(query.listeners, c)
<1>1. /\ tasks # <<>> /\ tasks' = Tail(tasks)
      /\ query' = [listeners |-> left, raised |-> query.raised \ {c},
                   snapshot |-> IF left = <<>> THEN "none" ELSE query.snapshot]
      /\ IF left = <<>> THEN StopListening
         ELSE UNCHANGED <<pending, requests, watchStream, trackVars>>
      /\ UNCHANGED <<made, events, muted, completed, listens, replies, serving>>
  BY DEF RemoveListener
<1>2. StreamAndTracker /\ CallTypes
  BY WatchTypesApart DEF WatchIInv
<1>3. c \in Calls
  BY <1>1, TaskTaken DEF WatchIInv, WatchTypeOK
<1>4. Listening(query') <=> left # <<>>
  BY <1>1 DEF Listening
<1>5. /\ QueryTypes' /\ tasks' \in Seq(Tasks)
      /\ ListenersInv' /\ (Listening(query') => Listening(query))
  <2>1. Listening(query') => UNCHANGED tracker
    BY <1>1, <1>4 DEF trackVars
  <2> QED
    BY <1>1, <1>3, <2>1, ListenerLeaves DEF WatchIInv
<1>6. StreamAndTracker' /\ CallTypes' /\ WatchCallInv' /\ TrackerInv'
  <2>1. CASE left = <<>>
    BY <1>1, <1>2, <1>4, <2>1, StopKeeps DEF WatchIInv
  <2>2. CASE left # <<>>
    <3>1. UNCHANGED StreamSide
      BY <1>1, <2>2 DEF StreamSide, watchCallVars
    <3>2. Listening(query') = Listening(query)
      BY <1>4, <1>5, <2>2 DEF Listening
    <3> QED
      BY <1>2, <3>1, <3>2, StreamSideStays DEF WatchIInv
  <2> QED
    BY <2>1, <2>2
<1>7. WatchTypeOK'
  BY <1>1, <1>5, <1>6, WatchTypesApart, WatchTypesApartNext DEF WatchIInv
<1> QED
  BY <1>5, <1>6, <1>7 DEF WatchIInv

\* The stream opens: the call is empty, and the query is watched on it.
LEMMA OnWatchStreamOpenKeepsWatch ==
    ASSUME WatchIInv, OnWatchStreamOpen
    PROVE  WatchIInv'
<1>1. /\ watchStream.state = "starting" /\ watchStream' = OnStreamStart(watchStream)
      /\ UNCHANGED AppSide /\ UNCHANGED <<tracker, untimed, replies, serving>>
  BY DEF OnWatchStreamOpen, AppSide, trackVars
<1>2. StreamAndTracker /\ CallTypes
  BY WatchTypesApart DEF WatchIInv
<1>3. ~IsOpen(watchStream) /\ ~watchStream.idle /\ IsStarted(watchStream)
  BY <1>1 DEF IsOpen, IsStarted, WatchIInv, TrackerInv
<1>4. /\ watchStream' \in Streams /\ IsOpen(watchStream') /\ IsStarted(watchStream')
      /\ ~watchStream'.idle
  BY <1>1, <1>2, <1>3, StreamTypes, StartedShapes DEF StreamAndTracker
<1>5. requests = <<>>
  BY <1>3 DEF WatchIInv, WatchCallInv
<1>6. CallTypes' /\ WatchCallInv'
  <2>1. CASE Listening(query)
    <3>1. Watch \in Requests /\ Watch = [kind |-> "watch", listen |-> listens + 1]
      BY <1>2 DEF Watch, Requests, CallTypes
    <3>2. pending' = pending + 1 /\ listens' = listens + 1 /\ requests' = <<Watch>>
      BY <2>1 DEF OnWatchStreamOpen
    <3>3. requests' = Append(requests, Watch)
      BY <1>5, <3>2
    <3> QED
      BY <1>1, <1>2, <1>4, <3>1, <3>2, <3>3, RequestSent DEF WatchIInv
  <2>2. CASE ~Listening(query)
    <3>1. UNCHANGED <<pending, listens, requests>>
      BY <2>2 DEF OnWatchStreamOpen
    <3> QED
      BY <1>1, <1>2, <1>4, <3>1 DEF WatchIInv, WatchCallInv, CallTypes
  <2> QED
    BY <2>1, <2>2
<1>7. /\ made' \in 0..MaxCalls /\ tasks' \in Seq(Tasks) /\ QueryTypes'
      /\ events' \in Seq(Calls) /\ muted' \subseteq Calls /\ completed' \in [Calls -> Nat]
      /\ ListenersInv' /\ Listening(query') = Listening(query)
  BY <1>1, AppSideStays DEF WatchIInv
<1>8. StreamAndTracker'
  BY <1>1, <1>2, <1>4 DEF StreamAndTracker
<1>9. TrackerInv'
  BY <1>1, <1>3, <1>4, <1>7 DEF WatchIInv, TrackerInv, TimerIsSound
<1> QED
  BY <1>6, <1>7, <1>8, <1>9, WatchTypesApartNext DEF WatchIInv

LEMMA WatchBackoffElapsesKeepsWatch ==
    ASSUME WatchIInv, WatchBackoffElapses
    PROVE  WatchIInv'
<1>1. /\ watchStream.state = "backoff" /\ watchStream' = Restart(watchStream)
      /\ UNCHANGED AppSide /\ UNCHANGED <<tracker, untimed, pending, listens>>
      /\ UNCHANGED <<requests, replies, serving>>
  BY DEF WatchBackoffElapses, AppSide, trackVars, watchCallVars
<1>2. StreamAndTracker /\ CallTypes
  BY WatchTypesApart DEF WatchIInv
<1>3. ~IsOpen(watchStream) /\ ~watchStream.idle /\ IsStarted(watchStream)
  BY <1>1 DEF IsOpen, IsStarted, WatchIInv, TrackerInv
<1>4. /\ watchStream' \in Streams /\ ~IsOpen(watchStream') /\ IsStarted(watchStream')
      /\ ~watchStream'.idle
  BY <1>1, <1>2, <1>3, StreamTypes, StreamShapes, StartedShapes DEF StreamAndTracker
<1>5. CallTypes' /\ WatchCallInv'
  BY <1>1, <1>2, <1>3, <1>4 DEF WatchIInv, WatchCallInv, CallTypes
<1>6. /\ made' \in 0..MaxCalls /\ tasks' \in Seq(Tasks) /\ QueryTypes'
      /\ events' \in Seq(Calls) /\ muted' \subseteq Calls /\ completed' \in [Calls -> Nat]
      /\ ListenersInv' /\ Listening(query') = Listening(query)
  BY <1>1, AppSideStays DEF WatchIInv
<1>7. StreamAndTracker'
  BY <1>1, <1>2, <1>4 DEF StreamAndTracker
<1>8. TrackerInv'
  BY <1>1, <1>3, <1>4, <1>6 DEF WatchIInv, TrackerInv, TimerIsSound
<1> QED
  BY <1>5, <1>6, <1>7, <1>8, WatchTypesApartNext DEF WatchIInv

\* A step that tells the listeners of the tracker.
LEMMA TrackedKeepsWatch ==
    ASSUME WatchIInv, NEW t \in Trackers, Track(t), UNCHANGED <<made, tasks, muted, completed>>,
           watchStream' \in Streams, CallTypes', WatchCallInv',
           t.failed => t.online = "offline",
           t.timer => t.online = "unknown" /\ ~t.failed /\ IsStarted(watchStream'),
           t.online = "unknown" /\ IsStarted(watchStream') => t.timer,
           Listening(query) => IsStarted(watchStream'),
           watchStream'.idle => IsOpen(watchStream') /\ ~Listening(query)
    PROVE  WatchIInv'
<1>1. /\ QueryTypes' /\ events' \in Seq(Calls) /\ tracker' = t /\ untimed' = FALSE
      /\ ListenersInv' /\ query'.listeners = query.listeners
  BY TrackKeeps DEF WatchIInv
<1>2. Listening(query') = Listening(query)
  BY <1>1 DEF Listening
<1>3. StreamAndTracker'
  BY <1>1 DEF StreamAndTracker
<1>4. TrackerInv'
  BY <1>1, <1>2 DEF TrackerInv, TimerIsSound
<1>5. WatchTypeOK'
  BY <1>1, <1>3, WatchTypesApart, WatchTypesApartNext DEF WatchIInv
<1> QED
  BY <1>1, <1>4, <1>5 DEF WatchIInv

LEMMA OnWatchStreamBrokenKeepsWatch ==
    ASSUME WatchIInv, NEW status \in Failures, OnWatchStreamBroken(status)
    PROVE  WatchIInv'
<1>1. /\ WatchCallIsOver /\ UNCHANGED <<made, tasks, muted, completed>>
  BY DEF OnWatchStreamBroken
<1>2. CallTypes' /\ WatchCallInv'
  BY <1>1, CallEnds
<1>3. tracker \in Trackers /\ watchStream \in Streams
  BY WatchTypesApart DEF WatchIInv, StreamAndTracker
<1>4. /\ Close(watchStream, status) \in Streams
      /\ ~IsStarted(Close(watchStream, status)) /\ ~Close(watchStream, status).idle
  BY <1>3, StreamTypes, StreamShapes, StartedShapes
<1>5. CASE Listening(query)
  <2> DEFINE u == HandleWatchStreamFailure(tracker)
             t == HandleWatchStreamStart(u)
  <2>1. watchStream' = Start(Close(watchStream, status)) /\ Track(t)
    BY <1>5 DEF OnWatchStreamBroken
  <2>2. watchStream' \in Streams /\ IsStarted(watchStream') /\ ~watchStream'.idle
    BY <1>4, <2>1, StreamTypes, StreamShapes, StartedShapes
  <2>3. /\ u \in Trackers
        /\ u.failed => u.online = "offline"
        /\ u.timer => ~u.failed
    BY <1>3, FailureTracked DEF WatchIInv, TrackerInv, TimerIsSound
  <2> HIDE DEF u
  <2>4. /\ t \in Trackers /\ (t.failed => t.online = "offline")
        /\ t.online = "unknown" => t.timer
        /\ t.timer => t.online = "unknown" /\ ~t.failed
    BY <2>3, StartTracked
  <2> HIDE DEF t
  <2> QED
    BY <1>1, <1>2, <2>1, <2>2, <2>4, TrackedKeepsWatch
<1>6. CASE ~Listening(query)
  <2> DEFINE t == UpdateState("unknown")
  <2>1. watchStream' = Close(watchStream, status) /\ Track(t)
    BY <1>6 DEF OnWatchStreamBroken
  <2>2. t \in Trackers /\ ~t.failed /\ ~t.timer
    BY <1>3, TrackerTypes DEF UpdateState
  <2> HIDE DEF t
  <2> QED
    BY <1>1, <1>2, <1>4, <1>6, <2>1, <2>2, TrackedKeepsWatch
<1> QED
  BY <1>5, <1>6

LEMMA WatchIdleTimeoutKeepsWatch ==
    ASSUME WatchIInv, WatchIdleTimeout
    PROVE  WatchIInv'
<1> DEFINE t == UpdateState("unknown")
<1>1. /\ watchStream.idle /\ WatchCallIsOver /\ UNCHANGED <<made, tasks, muted, completed>>
      /\ watchStream' = Close(watchStream, "ok") /\ Track(t)
  BY DEF WatchIdleTimeout
<1>2. CallTypes' /\ WatchCallInv'
  BY <1>1, CallEnds
<1>3. tracker \in Trackers /\ watchStream \in Streams
  BY WatchTypesApart DEF WatchIInv, StreamAndTracker
<1>4. watchStream' \in Streams /\ ~IsStarted(watchStream') /\ ~watchStream'.idle
  BY <1>1, <1>3, StreamTypes, StreamShapes, StartedShapes
<1>5. t \in Trackers /\ ~t.failed /\ ~t.timer
  BY <1>3, TrackerTypes DEF UpdateState
<1>6. ~Listening(query)
  BY <1>1 DEF WatchIInv, TrackerInv
<1> HIDE DEF t
<1> QED
  BY <1>1, <1>2, <1>4, <1>5, <1>6, TrackedKeepsWatch

LEMMA OnlineStateTimeoutKeepsWatch ==
    ASSUME WatchIInv, OnlineStateTimeout
    PROVE  WatchIInv'
<1> DEFINE t == [tracker EXCEPT !.timer = FALSE, !.online = "offline"]
<1>1. /\ Track(t) /\ UNCHANGED <<made, tasks, muted, completed>>
      /\ UNCHANGED <<watchStream, pending, listens, requests, replies, serving>>
  BY DEF OnlineStateTimeout, watchCallVars
<1>2. tracker \in Trackers /\ watchStream \in Streams /\ CallTypes
  BY WatchTypesApart DEF WatchIInv, StreamAndTracker
<1>3. CallTypes' /\ WatchCallInv'
  BY <1>1, <1>2 DEF WatchIInv, CallTypes, WatchCallInv
<1>4. t \in Trackers /\ t.online = "offline" /\ ~t.timer
  BY <1>2, TrackerTypes DEF Trackers
<1> HIDE DEF t
<1> QED
  BY <1>1, <1>2, <1>3, <1>4, TrackedKeepsWatch DEF WatchIInv, TrackerInv

LEMMA OnWatchStreamChangeKeepsWatch ==
    ASSUME WatchIInv, OnWatchStreamChange
    PROVE  WatchIInv'
<1>1. /\ IsOpen(watchStream) /\ watchStream' = ResetBackoff(watchStream)
      /\ tracker' = UpdateState("online") /\ untimed' = FALSE
      /\ UNCHANGED <<made, tasks, muted, completed>>
  BY DEF OnWatchStreamChange
<1>2. /\ StreamAndTracker /\ CallTypes /\ QueryTypes /\ events \in Seq(Calls)
      /\ query.listeners \in Seq(Calls)
  BY WatchTypesApart DEF WatchIInv, QueryTypes
<1>3. CallTypes' /\ WatchCallInv'
  BY <1>2, ReplyRead DEF WatchIInv
<1>4. /\ StreamAndTracker' /\ IsStarted(watchStream') /\ IsOpen(watchStream')
      /\ watchStream'.idle = watchStream.idle
  <2>1. /\ watchStream' \in Streams /\ IsStarted(watchStream') /\ IsOpen(watchStream')
        /\ watchStream'.idle = watchStream.idle
    BY <1>1, <1>2, StreamTypes, StreamShapes, StartedShapes DEF StreamAndTracker
  <2>2. tracker' \in Trackers
    BY <1>1, <1>2, TrackerTypes DEF StreamAndTracker
  <2> QED
    BY <1>1, <2>1, <2>2 DEF StreamAndTracker
<1>5. tracker'.online = "online" /\ ~tracker'.failed /\ ~tracker'.timer
  BY <1>1 DEF UpdateState
<1>6. /\ QueryTypes' /\ events' \in Seq(Calls) /\ RaisedFirst' /\ NoneLeftWaiting'
      /\ query'.listeners = query.listeners
  <2>1. CASE Head(replies).kind = "current" /\ IsActive /\ query.snapshot = "cache"
    <3>1. /\ query' = [query EXCEPT !.raised = Elements(query.listeners),
                                    !.snapshot = "synced"]
          /\ events' = events \o query.listeners
      BY <2>1 DEF OnWatchStreamChange
    <3>2. Listening(query)
      BY <1>2, <2>1 DEF QueryTypes, Listening
    <3>3. events' \in Seq(Calls)
      BY <1>2, <3>1, ConcatProperties
    <3> QED
      BY <1>2, <3>1, <3>2, <3>3, AllRaise DEF WatchIInv, ListenersInv
  <2>2. CASE ~(Head(replies).kind = "current" /\ IsActive /\ query.snapshot = "cache")
    <3>1. UNCHANGED <<query, events>>
      BY <2>2 DEF OnWatchStreamChange
    <3>2. NoneLeftWaiting'
      BY <1>5, <3>1 DEF WatchIInv, ListenersInv, NoneLeftWaiting, RaisesFor
    <3> QED
      BY <1>2, <3>1, <3>2 DEF WatchIInv, ListenersInv, RaisedFirst, QueryTypes
  <2> QED
    BY <2>1, <2>2
<1>7. ListenersInv'
  BY <1>1, <1>6 DEF WatchIInv, ListenersInv, AddersAreFresh
<1>8. TrackerInv'
  BY <1>1, <1>4, <1>5, <1>6 DEF WatchIInv, TrackerInv, TimerIsSound, Listening
<1>9. WatchTypeOK'
  BY <1>1, <1>3, <1>4, <1>6, WatchTypesApart, WatchTypesApartNext DEF WatchIInv
<1> QED
  BY <1>3, <1>7, <1>8, <1>9 DEF WatchIInv

\* What the backend does leaves the phone alone.
LEMMA BackendKeepsWatch ==
    ASSUME WatchIInv, BackendReads \/ BackendCatchesUp
    PROVE  WatchIInv'
<1>1. UNCHANGED AppSide /\ UNCHANGED <<tracker, untimed, watchStream>>
  BY DEF BackendReads, BackendCatchesUp, AppSide, trackVars
<1>2. StreamAndTracker /\ CallTypes
  BY WatchTypesApart DEF WatchIInv
<1>3. CallTypes' /\ WatchCallInv'
  BY <1>2, BackendReadsKeepsCall, BackendCatchesUpKeepsCall DEF WatchIInv
<1>4. /\ made' \in 0..MaxCalls /\ tasks' \in Seq(Tasks) /\ QueryTypes'
      /\ events' \in Seq(Calls) /\ muted' \subseteq Calls /\ completed' \in [Calls -> Nat]
      /\ ListenersInv' /\ Listening(query') = Listening(query)
  BY <1>1, AppSideStays DEF WatchIInv
<1>5. StreamAndTracker' /\ TrackerInv'
  BY <1>1, <1>2, <1>4 DEF StreamAndTracker, WatchIInv, TrackerInv, TimerIsSound
<1> QED
  BY <1>3, <1>4, <1>5, WatchTypesApartNext DEF WatchIInv

LEMMA WatchStarts ==
    ASSUME WatchInit
    PROVE  WatchIInv
<1>1. /\ <<>> \in Seq(Tasks) /\ <<>> \in Seq(Calls) /\ DOMAIN <<>> = {}
      /\ Elements(<<>>) = {}
  BY EmptySeq DEF Elements
<1>2. /\ made = 0 /\ tasks = <<>> /\ events = <<>> /\ muted = {}
      /\ query = [listeners |-> <<>>, raised |-> {}, snapshot |-> "none"]
      /\ completed = [c \in Calls |-> 0]
      /\ tracker = [online |-> "unknown", failed |-> FALSE, timer |-> FALSE]
      /\ untimed = FALSE /\ watchStream = NewStream
      /\ pending = 0 /\ listens = 0
      /\ requests = <<>> /\ replies = <<>> /\ serving = NoCall
  BY DEF WatchInit
<1>3. QueryTypes /\ query.listeners = <<>>
  BY <1>1, <1>2 DEF QueryTypes
<1>4. /\ StreamAndTracker /\ ~IsStarted(watchStream) /\ ~IsOpen(watchStream)
      /\ ~watchStream.idle /\ ~tracker.timer /\ ~tracker.failed
  <2>1. 0 \in Levels
    BY LevelAssumption DEF Levels
  <2> QED
    BY <1>2, <2>1 DEF StreamAndTracker, Trackers, Streams, NewStream, IsStarted, IsOpen
<1>5. CallTypes /\ WatchCallInv
  BY <1>2, EmptyCall DEF CallTypes, WatchCallInv, NoAcks, NewestIsLast, NoWatchAfter, SaidOf,
                         NoCall
<1>6. 0 \in 0..MaxCalls /\ completed \in [Calls -> Nat]
  BY <1>2, CallsAssumption
<1>7. WatchTypeOK
  BY <1>1, <1>2, <1>3, <1>4, <1>5, <1>6, WatchTypesApart
<1>8. ListenersInv
  BY <1>1, <1>2, <1>3 DEF ListenersInv, AddersAreFresh, RaisedFirst, NoneLeftWaiting
<1>9. TrackerInv
  BY <1>3, <1>4 DEF TrackerInv, TimerIsSound, Listening
<1> QED
  BY <1>5, <1>7, <1>8, <1>9 DEF WatchIInv

LEMMA WatchStep ==
    ASSUME WatchIInv, [WatchNext]_watchVars
    PROVE  WatchIInv'
<1>1. CASE AppNext
  BY <1>1, GetDocumentsKeepsWatch, RunEventKeepsWatch, AddListenerKeepsWatch,
     RemoveListenerKeepsWatch DEF AppNext
<1>2. CASE StreamNext
  BY <1>2, OnWatchStreamOpenKeepsWatch, WatchBackoffElapsesKeepsWatch,
     WatchIdleTimeoutKeepsWatch, OnlineStateTimeoutKeepsWatch DEF StreamNext
<1>3. CASE NetworkNext
  BY <1>3, OnWatchStreamChangeKeepsWatch, BackendKeepsWatch, OnWatchStreamBrokenKeepsWatch
     DEF NetworkNext
<1>4. CASE UNCHANGED watchVars
  <2>1. UNCHANGED AppSide /\ UNCHANGED StreamSide /\ UNCHANGED tracker
    BY <1>4 DEF watchVars, AppSide, StreamSide, trackVars, watchCallVars
  <2>2. /\ made' \in 0..MaxCalls /\ tasks' \in Seq(Tasks) /\ QueryTypes'
        /\ events' \in Seq(Calls) /\ muted' \subseteq Calls /\ completed' \in [Calls -> Nat]
        /\ ListenersInv' /\ Listening(query') = Listening(query)
    BY <2>1, AppSideStays DEF WatchIInv
  <2>3. StreamAndTracker' /\ CallTypes' /\ WatchCallInv' /\ TrackerInv'
    BY <2>1, <2>2, StreamSideStays, WatchTypesApart DEF WatchIInv
  <2> QED
    BY <2>2, <2>3, WatchTypesApartNext DEF WatchIInv
<1> QED
  BY <1>1, <1>2, <1>3, <1>4 DEF WatchNext

LEMMA WatchAlways == WatchSpec => []WatchIInv
<1>1. WatchInit => WatchIInv
  BY WatchStarts
<1>2. WatchIInv /\ [WatchNext]_watchVars => WatchIInv'
  BY WatchStep
<1> QED
  BY <1>1, <1>2, PTL DEF WatchSpec

\* The timers fit what is waited for and nobody who could be answered waits, for any
\* number of calls and whatever breaks.
THEOREM ReadSideIsSound == WatchSpec => []WatchStreamInv
<1>1. WatchIInv => WatchStreamInv
  BY DEF WatchIInv, ListenersInv, TrackerInv, WatchStreamInv, AnsweredOnce, UnknownHasTimer,
         IdleIsUnwatched
<1> QED
  BY <1>1, WatchAlways, PTL

\* A getDocuments call's completion never runs twice, however many events its listener
\* raised before it was removed.
THEOREM CompletionsRunOnce == WatchSpec => []AnsweredOnce
<1>1. WatchIInv => AnsweredOnce
  BY DEF WatchIInv, ListenersInv, AnsweredOnce
<1> QED
  BY <1>1, WatchAlways, PTL

\* Counting replies is enough: whatever the SDK takes for the backend's word on the
\* query is about its newest listen, never about one it has since ended.
THEOREM CountingRepliesIsEnough == WatchSpec => SyncedByNewestListen
<1> DEFINE A == query.snapshot = "cache" /\ query'.snapshot = "synced" =>
                    Head(replies).listen = listens
<1>1. WatchIInv /\ [WatchNext]_watchVars => [A]_watchVars
  <2> SUFFICES ASSUME WatchIInv, WatchNext, query.snapshot = "cache",
                      query'.snapshot = "synced"
               PROVE  Head(replies).listen = listens
    OBVIOUS
  <2>1. QueryTypes /\ CallTypes
    BY WatchTypesApart DEF WatchIInv
  <2>2. ASSUME NEW t, Track(t) PROVE FALSE
    BY <2>1, <2>2 DEF Track, QueryTypes
  <2>3. CASE AppNext
    <3>1. CASE AddListener
      BY <2>1, <3>1 DEF AddListener, Joins, FirstListener, QueryTypes
    <3>2. CASE RemoveListener
      BY <3>2 DEF RemoveListener
    <3>3. CASE GetDocuments \/ RunEvent
      BY <3>3 DEF GetDocuments, RunEvent
    <3> QED
      BY <2>3, <3>1, <3>2, <3>3 DEF AppNext
  <2>4. CASE StreamNext
    BY <2>2, <2>4 DEF StreamNext, OnWatchStreamOpen, WatchBackoffElapses, WatchIdleTimeout,
                      OnlineStateTimeout
  <2>5. CASE OnWatchStreamChange
    <3>1. replies # <<>> /\ Head(replies).kind = "current" /\ IsActive
      BY <2>5 DEF OnWatchStreamChange
    <3> QED
      BY <2>1, <3>1, CountedIsNewest DEF WatchIInv
  <2>6. CASE BackendReads \/ BackendCatchesUp
    BY <2>6 DEF BackendReads, BackendCatchesUp
  <2>7. CASE \E status \in Failures : OnWatchStreamBroken(status)
    BY <2>2, <2>7 DEF OnWatchStreamBroken
  <2> QED
    BY <2>3, <2>4, <2>5, <2>6, <2>7 DEF WatchNext, NetworkNext
<1> QED
  BY <1>1, WatchAlways, PTL DEF WatchSpec, SyncedByNewestListen

-----------------------------------------------------------------------------
(* The watch stream: the order of the calls.                                 *)

ToBeAdded == {tasks[i].call : i \in {j \in DOMAIN tasks : tasks[j].kind = "add"}}

\* Calls become listeners in their order, and stay in it.
AddedInOrder ==
    /\ \A c \in 1..made : c \in muted \cup Elements(query.listeners) \cup ToBeAdded
    /\ \A i \in DOMAIN tasks : tasks[i].kind = "add" =>
           /\ \A c \in muted \cup Elements(query.listeners) : c < tasks[i].call
           /\ \A j \in DOMAIN tasks :
                  i < j /\ tasks[j].kind = "add" => tasks[i].call < tasks[j].call

Increasing(s) == \A i, j \in DOMAIN s : i < j => s[i] < s[j]

\* An event whose call is not done comes after those of all earlier calls not done.
EventsInOrder(es, done) == \A i \in DOMAIN es : es[i] \notin done =>
    \A b \in 1..(es[i] - 1) : b \in done \/ \E j \in DOMAIN es : j < i /\ es[j] = b

\* What a listener has raised is under way or was called back, and the calls called
\* back are the oldest.
EventsInv ==
    /\ query.raised \subseteq Elements(events) \cup muted
    /\ Elements(events) \subseteq query.raised \cup muted
    /\ EventsInOrder(events, muted)
    /\ \A c \in muted : c <= made /\ 1..(c - 1) \subseteq muted
    /\ \A i \in DOMAIN tasks : tasks[i].kind = "remove" => tasks[i].call \in muted

OrderInv == AddedInOrder /\ Increasing(query.listeners) /\ EventsInv

\* Events that come in the order of their calls, and leave out none before them, go
\* to the end of those there are.
LEMMA EventsAppended ==
    ASSUME NEW es \in Seq(Calls), NEW new \in Seq(Calls), NEW done,
           EventsInOrder(es, done), Increasing(new),
           \A c \in Elements(new) : \A b \in 1..(c - 1) :
               b \in done \cup Elements(es) \cup Elements(new)
    PROVE  /\ EventsInOrder(es \o new, done)
           /\ Elements(es \o new) = Elements(es) \cup Elements(new)
<1> DEFINE n == Len(es)
           m == Len(new)
           all == es \o new
<1>1. /\ n \in Nat /\ m \in Nat /\ DOMAIN es = 1..n /\ DOMAIN new = 1..m
      /\ all \in Seq(Calls) /\ DOMAIN all = 1..(n + m)
      /\ \A i \in 1..n : all[i] = es[i]
      /\ \A i \in 1..m : all[n + i] = new[i]
  <2>1. /\ n \in Nat /\ m \in Nat /\ DOMAIN es = 1..n /\ DOMAIN new = 1..m
    BY LenProperties
  <2>2. /\ all \in Seq(Calls) /\ Len(all) = n + m
        /\ \A i \in 1..(n + m) : all[i] = IF i <= n THEN es[i] ELSE new[i - n]
    BY ConcatProperties
  <2>3. DOMAIN all = 1..(n + m)
    BY <2>2, LenProperties
  <2> HIDE DEF all
  <2>4. \A i \in 1..n : all[i] = es[i]
    BY <2>1, <2>2
  <2>5. ASSUME NEW i \in 1..m
        PROVE  all[n + i] = new[i]
    <3>1. n + i \in 1..(n + m) /\ ~(n + i <= n) /\ n + i - n = i
      BY <2>1
    <3> QED
      BY <2>2, <3>1
  <2> QED
    BY <2>1, <2>2, <2>3, <2>4, <2>5
<1> HIDE DEF all, n, m
<1>2. \A i \in 1..(n + m) : i \in 1..n \/ (i - n \in 1..m /\ n + (i - n) = i)
  BY <1>1
<1>3. \A i \in 1..n : i \in 1..(n + m)
  BY <1>1
<1>4. \A i \in 1..m : n + i \in 1..(n + m)
  BY <1>1
<1>5. Elements(all) = Elements(es) \cup Elements(new)
  <2>1. \A i \in 1..(n + m) : all[i] \in Elements(es) \cup Elements(new)
    BY <1>1, <1>2 DEF Elements
  <2>2. \A c \in Elements(es) \cup Elements(new) : \E i \in 1..(n + m) : all[i] = c
    BY <1>1, <1>3, <1>4 DEF Elements
  <2>3. Elements(all) \subseteq Elements(es) \cup Elements(new)
    BY <1>1, <2>1 DEF Elements
  <2>4. Elements(es) \cup Elements(new) \subseteq Elements(all)
    <3> SUFFICES ASSUME NEW c \in Elements(es) \cup Elements(new)
                 PROVE  c \in Elements(all)
      OBVIOUS
    <3>1. PICK i \in 1..(n + m) : all[i] = c
      BY <2>2
    <3> QED
      BY <1>1, <3>1 DEF Elements
  <2> QED
    BY <2>3, <2>4
<1>6. EventsInOrder(all, done)
  <2> SUFFICES ASSUME NEW i \in DOMAIN all, all[i] \notin done, NEW b \in 1..(all[i] - 1),
                      b \notin done
               PROVE  \E j \in DOMAIN all : j < i /\ all[j] = b
    BY DEF EventsInOrder
  <2> i \in 1..(n + m)
    BY <1>1
  <2>1. CASE i \in 1..n
    <3>1. PICK j \in 1..n : j < i /\ es[j] = b
      BY <1>1, <2>1 DEF EventsInOrder
    <3> QED
      BY <1>1, <1>3, <3>1
  <2>2. CASE i \notin 1..n
    <3> DEFINE k == i - n
    <3>1. k \in 1..m /\ n + k = i /\ all[i] = new[k]
      BY <1>1, <1>2, <2>2
    <3> HIDE DEF k
    <3>2. b \in Elements(es) \cup Elements(new)
      BY <1>1, <3>1 DEF Elements
    <3>3. CASE b \in Elements(es)
      <4>1. PICK j \in 1..n : es[j] = b
        BY <1>1, <3>3 DEF Elements
      <4>2. j < i
        BY <1>1, <2>2, <4>1
      <4> QED
        BY <1>1, <1>3, <4>1, <4>2
    <3>4. CASE b \in Elements(new)
      <4>1. PICK j \in 1..m : new[j] = b
        BY <1>1, <3>4 DEF Elements
      <4>2. new[j] \in Nat /\ new[k] \in Nat /\ new[j] < new[k]
        <5>1. new[j] \in Calls /\ new[k] \in Calls
          BY <1>1, <3>1, ElementOfSeq
        <5> QED
          BY <3>1, <4>1, <5>1, CallsAssumption DEF Calls
      <4>3. j < k
        <5> SUFFICES ASSUME ~(j < k)
                     PROVE  FALSE
          OBVIOUS
        <5>1. CASE k = j
          BY <4>2, <5>1
        <5>2. CASE k # j
          <6>1. k < j
            BY <1>1, <3>1, <5>2
          <6>2. new[k] < new[j]
            BY <1>1, <3>1, <6>1 DEF Increasing
          <6> QED
            BY <4>2, <6>2
        <5> QED
          BY <5>1, <5>2
      <4>4. n + j < i
        BY <1>1, <3>1, <4>3
      <4> QED
        BY <1>1, <1>4, <4>1, <4>4
    <3> QED
      BY <3>2, <3>3, <3>4
  <2> QED
    BY <2>1, <2>2
<1> QED
  BY <1>5, <1>6 DEF all

\* The calls before a listener's are listeners too, or were called back.
LEMMA BeforeListeners ==
    ASSUME WatchTypeOK, AddersAreFresh, AddedInOrder, NEW c \in Elements(query.listeners),
           NEW b \in 1..(c - 1)
    PROVE  b \in muted \cup Elements(query.listeners)
<1>1. c \in Calls /\ c \in Nat /\ c <= made /\ made \in Nat
  <2>1. c \in Calls
    BY LenProperties, ElementOfSeq DEF Elements, WatchTypeOK
  <2> QED
    BY <2>1, CallsAssumption DEF Calls, AddersAreFresh, WatchTypeOK
<1>2. b \in 1..made /\ b < c
  BY <1>1
<1>3. b \notin ToBeAdded
  <2> SUFFICES ASSUME NEW i \in DOMAIN tasks, tasks[i].kind = "add", tasks[i].call = b
               PROVE  FALSE
    BY DEF ToBeAdded
  <2>1. c < b
    BY DEF AddedInOrder
  <2> QED
    BY <1>1, <1>2, <2>1
<1> QED
  BY <1>2, <1>3 DEF AddedInOrder

\* All listeners have raised their event: those that had not do it in their order.
LEMMA ListenersRaise ==
    ASSUME WatchTypeOK, ListenersInv, OrderInv,
           UNCHANGED <<made, tasks, muted>>, query'.listeners = query.listeners,
           query'.raised = Elements(query.listeners),
           NEW new \in {query.listeners, Waiting(query)}, events' = events \o new
    PROVE  OrderInv'
<1>1. /\ query.listeners \in Seq(Calls) /\ events \in Seq(Calls)
      /\ query.raised \subseteq Elements(query.listeners)
  BY DEF WatchTypeOK
<1>2. /\ new \in Seq(Calls)
      /\ Elements(query.listeners) \ query.raised \subseteq Elements(new)
      /\ Elements(new) \subseteq Elements(query.listeners)
      /\ Increasing(new)
  <2>1. CASE new = query.listeners
    BY <1>1, <2>1 DEF OrderInv
  <2>2. CASE new = Waiting(query)
    BY <1>1, <2>2, WaitingHaveNotRaised DEF ListenersInv, OrderInv, Increasing
  <2> QED
    BY <2>1, <2>2
<1>3. \A c \in Elements(new) : \A b \in 1..(c - 1) :
          b \in muted \cup Elements(events) \cup Elements(new)
  <2> SUFFICES ASSUME NEW c \in Elements(new), NEW b \in 1..(c - 1)
               PROVE  b \in muted \cup Elements(events) \cup Elements(new)
    OBVIOUS
  <2>1. b \in muted \cup Elements(query.listeners)
    BY <1>2, BeforeListeners DEF OrderInv, ListenersInv
  <2> QED
    BY <1>2, <2>1 DEF OrderInv, EventsInv
<1>4. /\ EventsInOrder(events', muted)
      /\ Elements(events') = Elements(events) \cup Elements(new)
  BY <1>1, <1>2, <1>3, EventsAppended DEF OrderInv, EventsInv
<1>5. AddedInOrder' /\ Increasing(query'.listeners)
  BY DEF OrderInv, AddedInOrder, ToBeAdded
<1>6. EventsInv'
  <2>1. /\ EventsInOrder(events', muted')
        /\ \A c \in muted' : c <= made' /\ 1..(c - 1) \subseteq muted'
        /\ \A i \in DOMAIN tasks' : tasks'[i].kind = "remove" => tasks'[i].call \in muted'
    BY <1>4 DEF OrderInv, EventsInv
  <2>2. /\ query'.raised \subseteq Elements(events') \cup muted'
        /\ Elements(events') \subseteq query'.raised \cup muted'
    BY <1>1, <1>2, <1>4 DEF OrderInv, EventsInv
  <2> QED
    BY <2>1, <2>2 DEF EventsInv
<1> QED
  BY <1>5, <1>6 DEF OrderInv

LEMMA OrderStays ==
    ASSUME OrderInv, UNCHANGED <<made, tasks, query, events, muted>>
    PROVE  OrderInv'
BY DEF OrderInv, AddedInOrder, ToBeAdded, Increasing, EventsInv, EventsInOrder

LEMMA TrackKeepsOrder ==
    ASSUME WatchTypeOK, ListenersInv, OrderInv, NEW t, Track(t),
           UNCHANGED <<made, tasks, muted>>
    PROVE  OrderInv'
<1>1. CASE UNCHANGED <<query, events>>
  BY <1>1, OrderStays
<1>2. CASE ~UNCHANGED <<query, events>>
  <2>1. /\ query' = [query EXCEPT !.raised = Elements(query.listeners), !.snapshot = "cache"]
        /\ events' = events \o OfflineEvents
    BY <1>2 DEF Track
  <2>2. query'.listeners = query.listeners /\ query'.raised = Elements(query.listeners)
    BY <2>1 DEF WatchTypeOK
  <2>3. OfflineEvents \in {query.listeners, Waiting(query)}
    BY DEF OfflineEvents
  <2> QED
    BY <2>1, <2>2, <2>3, ListenersRaise
<1> QED
  BY <1>1, <1>2

\* The first task is taken: what is still to be added is what was, without it.
LEMMA TaskTakenToBeAdded ==
    ASSUME tasks \in Seq(Tasks), tasks # <<>>, tasks' = Tail(tasks)
    PROVE  ToBeAdded \subseteq ToBeAdded' \cup
               (IF Head(tasks).kind = "add" THEN {Head(tasks).call} ELSE {})
<1>1. /\ Head(tasks) = tasks[1]
      /\ \A i \in DOMAIN tasks : i # 1 => i - 1 \in DOMAIN tasks' /\ tasks'[i - 1] = tasks[i]
  BY TailShifts
<1>2. SUFFICES ASSUME NEW i \in DOMAIN tasks, tasks[i].kind = "add",
                      ~(Head(tasks).kind = "add" /\ Head(tasks).call = tasks[i].call)
               PROVE  tasks[i].call \in ToBeAdded'
  BY DEF ToBeAdded
<1>3. i - 1 \in DOMAIN tasks' /\ tasks'[i - 1] = tasks[i]
  BY <1>1, <1>2
<1> QED
  BY <1>2, <1>3 DEF ToBeAdded

\* What is added behind the first task stays in order when that is taken, as long as
\* nobody but its call joins.
LEMMA TasksStayInOrder ==
    ASSUME tasks \in Seq(Tasks), tasks # <<>>, tasks' = Tail(tasks), AddedInOrder,
           UNCHANGED <<made, muted>>,
           \A c \in Elements(query'.listeners) :
               c \in Elements(query.listeners) \/ (Head(tasks).kind = "add" /\ c = Head(tasks).call),
           \A c \in Elements(query.listeners) : c \in muted \cup Elements(query'.listeners),
           Head(tasks).kind = "add" => Head(tasks).call \in Elements(query'.listeners)
    PROVE  AddedInOrder'
<1>1. /\ Head(tasks) = tasks[1] /\ 1 \in DOMAIN tasks
      /\ \A i \in DOMAIN tasks' :
             /\ i + 1 \in DOMAIN tasks /\ tasks'[i] = tasks[i + 1]
             /\ 1 < i + 1
             /\ \A j \in DOMAIN tasks' : i < j => i + 1 < j + 1
  BY TaskTaken
<1>2. \A c \in 1..made' : c \in muted' \cup Elements(query'.listeners) \cup ToBeAdded'
  BY TaskTakenToBeAdded DEF AddedInOrder
<1>3. ASSUME NEW i \in DOMAIN tasks', tasks'[i].kind = "add"
      PROVE  /\ \A c \in muted' \cup Elements(query'.listeners) : c < tasks'[i].call
             /\ \A j \in DOMAIN tasks' :
                    i < j /\ tasks'[j].kind = "add" => tasks'[i].call < tasks'[j].call
  <2>1. i + 1 \in DOMAIN tasks /\ tasks'[i] = tasks[i + 1] /\ 1 < i + 1
    BY <1>1, <1>3
  <2>2. /\ \A c \in muted \cup Elements(query.listeners) : c < tasks[i + 1].call
        /\ \A j \in DOMAIN tasks :
               i + 1 < j /\ tasks[j].kind = "add" => tasks[i + 1].call < tasks[j].call
    BY <1>3, <2>1 DEF AddedInOrder
  <2>3. Head(tasks).kind = "add" => Head(tasks).call < tasks[i + 1].call
    BY <1>1, <1>3, <2>1 DEF AddedInOrder
  <2>4. \A c \in muted' \cup Elements(query'.listeners) : c < tasks'[i].call
    BY <2>1, <2>2, <2>3
  <2>5. \A j \in DOMAIN tasks' :
            i < j /\ tasks'[j].kind = "add" => tasks'[i].call < tasks'[j].call
    BY <1>1, <2>1, <2>2
  <2> QED
    BY <2>4, <2>5
<1> QED
  BY <1>2, <1>3 DEF AddedInOrder

\* A call goes behind all that were made.
LEMMA GetDocumentsKeepsOrder ==
    ASSUME WatchIInv, OrderInv, GetDocuments
    PROVE  OrderInv'
<1> DEFINE task == [kind |-> "add", call |-> made + 1]
           n == Len(tasks)
<1>1. /\ made' = made + 1 /\ tasks' = Append(tasks, task) /\ made \in Nat
      /\ UNCHANGED <<query, events, muted>>
      /\ tasks \in Seq(Tasks) /\ task \in Tasks
  BY CallsAssumption DEF GetDocuments, WatchIInv, WatchTypeOK, Tasks, Calls
<1>2. /\ n \in Nat /\ DOMAIN tasks = 1..n /\ DOMAIN tasks' = 1..(n + 1)
      /\ \A i \in 1..n : tasks'[i] = tasks[i] /\ tasks[i] \in Tasks
      /\ tasks'[n + 1] = task
  <2>1. n \in Nat /\ DOMAIN tasks = 1..n
    BY <1>1, LenProperties
  <2>2. DOMAIN tasks' = 1..(n + 1)
    BY <1>1, AppendedElements
  <2>3. /\ \A i \in 1..n : tasks'[i] = tasks[i]
        /\ tasks'[n + 1] = task
    BY <1>1, AppendProperties
  <2>4. \A i \in 1..n : tasks[i] \in Tasks
    BY <1>1, <2>1, ElementOfSeq
  <2> QED
    BY <2>1, <2>2, <2>3, <2>4
<1> HIDE DEF n
<1>3. /\ \A i \in 1..n : i \in 1..(n + 1)
      /\ n + 1 \in 1..(n + 1)
      /\ \A i \in 1..(n + 1) : i \in 1..n \/ i = n + 1
      /\ \A i \in 1..n : i < n + 1 /\ ~(n + 1 < i)
      /\ ~(n + 1 < n + 1)
  BY <1>2
<1>4. ToBeAdded' = ToBeAdded \cup {made + 1}
  <2>1. task.kind = "add" /\ task.call = made + 1
    OBVIOUS
  <2> HIDE DEF task
  <2>2. ToBeAdded' \subseteq ToBeAdded \cup {made + 1}
    BY <1>2, <1>3, <2>1 DEF ToBeAdded
  <2>3. made + 1 \in ToBeAdded'
    BY <1>2, <1>3, <2>1 DEF ToBeAdded
  <2>4. ToBeAdded \subseteq ToBeAdded'
    BY <1>2, <1>3 DEF ToBeAdded
  <2> QED
    BY <2>2, <2>3, <2>4
<1>5. \A c \in muted \cup Elements(query.listeners) : c <= made /\ c \in Nat
  <2>1. \A c \in Elements(query.listeners) : c \in Calls
    BY LenProperties, ElementOfSeq DEF Elements, WatchIInv, WatchTypeOK
  <2> QED
    BY <2>1, CallsAssumption
    DEF WatchIInv, WatchTypeOK, ListenersInv, AddersAreFresh, OrderInv, EventsInv, Calls
<1>6. \A i \in 1..n : tasks[i].kind = "add" => tasks[i].call <= made /\ tasks[i].call \in Nat
  BY <1>2, CallsAssumption DEF WatchIInv, ListenersInv, AddersAreFresh, Tasks, Calls
<1>7. AddedInOrder'
  <2>1. \A c \in 1..made' : c \in muted' \cup Elements(query'.listeners) \cup ToBeAdded'
    <3> SUFFICES ASSUME NEW c \in 1..(made + 1)
                 PROVE  c \in muted \cup Elements(query.listeners) \cup ToBeAdded'
      BY <1>1
    <3>1. c \in 1..made \/ c = made + 1
      BY <1>1
    <3> QED
      BY <1>4, <3>1 DEF OrderInv, AddedInOrder
  <2>2. ASSUME NEW i \in DOMAIN tasks', tasks'[i].kind = "add"
        PROVE  /\ \A c \in muted' \cup Elements(query'.listeners) : c < tasks'[i].call
               /\ \A j \in DOMAIN tasks' :
                      i < j /\ tasks'[j].kind = "add" => tasks'[i].call < tasks'[j].call
    <3>1. CASE i = n + 1
      <4>1. tasks'[i].call = made + 1
        BY <1>2, <3>1
      <4>2. \A c \in muted \cup Elements(query.listeners) : c < made + 1
        BY <1>1, <1>5
      <4> QED
        BY <1>1, <1>2, <1>3, <3>1, <4>1, <4>2
    <3>2. CASE i # n + 1
      <4>1. i \in 1..n /\ tasks'[i] = tasks[i] /\ tasks[i].kind = "add"
        BY <1>2, <1>3, <2>2, <3>2
      <4>2. /\ \A c \in muted \cup Elements(query.listeners) : c < tasks[i].call
            /\ \A j \in 1..n : i < j /\ tasks[j].kind = "add" => tasks[i].call < tasks[j].call
        BY <1>2, <4>1 DEF OrderInv, AddedInOrder
      <4>3. tasks[i].call < made + 1
        BY <1>1, <1>6, <4>1
      <4>4. \A j \in 1..(n + 1) :
                i < j /\ tasks'[j].kind = "add" => tasks'[i].call < tasks'[j].call
        <5> SUFFICES ASSUME NEW j \in 1..(n + 1), i < j, tasks'[j].kind = "add"
                     PROVE  tasks[i].call < tasks'[j].call
          BY <4>1
        <5>1. CASE j = n + 1
          <6>1. tasks'[j].call = made + 1
            BY <1>2, <5>1
          <6> QED
            BY <4>3, <6>1
        <5>2. CASE j # n + 1
          BY <1>2, <1>3, <4>2, <5>2
        <5> QED
          BY <5>1, <5>2
      <4> QED
        BY <1>1, <1>2, <4>1, <4>2, <4>4
    <3> QED
      BY <3>1, <3>2
  <2> QED
    BY <2>1, <2>2 DEF AddedInOrder
<1>8. EventsInv'
  <2>1. \A c \in muted' : c <= made' /\ 1..(c - 1) \subseteq muted'
    BY <1>1, <1>5 DEF OrderInv, EventsInv
  <2>2. ASSUME NEW i \in DOMAIN tasks', tasks'[i].kind = "remove" PROVE tasks'[i].call \in muted'
    <3>1. i \in 1..n
      BY <1>2, <1>3, <2>2
    <3> QED
      BY <1>1, <1>2, <2>2, <3>1 DEF OrderInv, EventsInv
  <2> QED
    BY <1>1, <2>1, <2>2 DEF OrderInv, EventsInv
<1> QED
  BY <1>1, <1>7, <1>8 DEF OrderInv

\* A call becomes a listener: the last one, whose event, if it is raised at once,
\* comes after those of the others.
LEMMA AddListenerKeepsOrder ==
    ASSUME WatchIInv, OrderInv, AddListener
    PROVE  OrderInv'
<1> DEFINE c == Head(tasks).call
           n == Len(query.listeners)
<1>1. /\ tasks # <<>> /\ Head(tasks).kind = "add" /\ tasks' = Tail(tasks)
      /\ query' = IF Listening(query) THEN Joins(c, query) ELSE FirstListener(c)
      /\ events' = IF c \in query'.raised THEN Append(events, c) ELSE events
      /\ UNCHANGED <<made, muted>>
  BY DEF AddListener
<1>2. /\ tasks \in Seq(Tasks) /\ Head(tasks) = tasks[1] /\ 1 \in DOMAIN tasks /\ c \in Calls
      /\ \A i \in DOMAIN tasks' : i + 1 \in DOMAIN tasks /\ tasks'[i] = tasks[i + 1]
  BY <1>1, TaskTaken DEF WatchIInv, WatchTypeOK
<1>3. /\ query.listeners \in Seq(Calls) /\ events \in Seq(Calls)
      /\ query.raised \subseteq Elements(query.listeners)
  BY DEF WatchIInv, WatchTypeOK
<1>4. /\ query'.listeners = Append(query.listeners, c)
      /\ query'.raised = query.raised \/ query'.raised = query.raised \cup {c}
  <2>1. CASE Listening(query)
    BY <1>1, <2>1 DEF Joins, WatchIInv, WatchTypeOK
  <2>2. CASE ~Listening(query)
    BY <1>1, <2>2 DEF FirstListener, Joins, WatchIInv, WatchTypeOK
  <2> QED
    BY <2>1, <2>2
<1>5. /\ \A d \in muted \cup Elements(query.listeners) : d < c
      /\ \A i \in DOMAIN tasks : 1 < i /\ tasks[i].kind = "add" => c < tasks[i].call
  BY <1>1, <1>2 DEF OrderInv, AddedInOrder
<1>6. c <= made /\ c \in Nat /\ made \in Nat
  BY <1>1, <1>2, CallsAssumption
  DEF WatchIInv, ListenersInv, AddersAreFresh, WatchTypeOK, Calls
<1> HIDE DEF c
<1>7. /\ n \in Nat /\ DOMAIN query.listeners = 1..n /\ DOMAIN query'.listeners = 1..(n + 1)
      /\ \A i \in 1..n : query'.listeners[i] = query.listeners[i]
      /\ query'.listeners[n + 1] = c
      /\ Elements(query'.listeners) = Elements(query.listeners) \cup {c}
  <2>1. n \in Nat /\ DOMAIN query.listeners = 1..n
    BY <1>3, LenProperties
  <2>2. /\ DOMAIN query'.listeners = 1..(n + 1)
        /\ Elements(query'.listeners) = Elements(query.listeners) \cup {c}
    BY <1>2, <1>3, <1>4, AppendedElements
  <2>3. /\ \A i \in 1..n : query'.listeners[i] = query.listeners[i]
        /\ query'.listeners[n + 1] = c
    BY <1>2, <1>3, <1>4, AppendProperties
  <2> QED
    BY <2>1, <2>2, <2>3
<1>8. AddedInOrder'
  BY <1>1, <1>2, <1>7, TasksStayInOrder DEF c, OrderInv
<1> HIDE DEF n
<1>9. Increasing(query'.listeners)
  <2> SUFFICES ASSUME NEW i \in 1..(n + 1), NEW j \in 1..(n + 1), i < j
               PROVE  query'.listeners[i] < query'.listeners[j]
    BY <1>7 DEF Increasing
  <2>1. i \in 1..n /\ query.listeners[i] \in Elements(query.listeners)
    BY <1>7 DEF Elements
  <2>2. CASE j = n + 1
    BY <1>5, <1>7, <2>1, <2>2
  <2>3. CASE j # n + 1
    <3>1. j \in 1..n
      BY <1>7, <2>3
    <3> QED
      BY <1>7, <2>1, <3>1 DEF OrderInv, Increasing
  <2> QED
    BY <2>2, <2>3
<1>10. \A i \in DOMAIN tasks' : tasks'[i].kind = "remove" => tasks'[i].call \in muted'
  BY <1>1, <1>2 DEF OrderInv, EventsInv
<1>11. CASE c \notin query'.raised
  <2>1. query'.raised = query.raised /\ events' = events
    BY <1>1, <1>4, <1>11
  <2>2. EventsInv'
    BY <1>1, <1>10, <2>1 DEF OrderInv, EventsInv
  <2> QED
    BY <1>8, <1>9, <2>2 DEF OrderInv
<1>12. CASE c \in query'.raised
  <2> DEFINE new == <<c>>
  <2>1. new \in Seq(Calls) /\ DOMAIN new = {1} /\ new[1] = c
    BY <1>2
  <2> HIDE DEF new
  <2>2. Increasing(new) /\ Elements(new) = {c}
    BY <2>1 DEF Increasing, Elements
  <2>3. events' = events \o new
    BY <1>1, <1>2, <1>3, <1>12 DEF new
  <2>4. ASSUME NEW b \in 1..(c - 1) PROVE b \in muted \cup Elements(events)
    <3>1. b \in 1..made /\ b < c
      BY <1>6
    <3>2. b \notin ToBeAdded
      <4> SUFFICES ASSUME NEW i \in DOMAIN tasks, tasks[i].kind = "add", tasks[i].call = b
                   PROVE  FALSE
        BY DEF ToBeAdded
      <4>1. i = 1 \/ 1 < i
        BY <1>2, LenProperties
      <4>2. b = c \/ c < b
        BY <1>2, <1>5, <4>1 DEF c
      <4> QED
        BY <1>6, <3>1, <4>2
    <3>3. b \in muted \cup Elements(query.listeners)
      BY <3>1, <3>2 DEF OrderInv, AddedInOrder
    <3>4. ASSUME b \in Elements(query.listeners) PROVE b \in query.raised
      <4>1. PICK i \in 1..n : query.listeners[i] = b
        BY <1>7, <3>4 DEF Elements
      <4>2. RaisedFirst'
        BY AddListenerKeepsWatch DEF WatchIInv, ListenersInv
      <4>3. i \in 1..(n + 1) /\ n + 1 \in 1..(n + 1) /\ i < n + 1
        BY <1>7
      <4>4. b \in query'.raised
        BY <1>7, <1>12, <4>1, <4>2, <4>3 DEF RaisedFirst
      <4>5. b # c
        BY <1>6, <3>1
      <4> QED
        BY <1>4, <4>4, <4>5
    <3> QED
      BY <3>3, <3>4 DEF OrderInv, EventsInv
  <2>5. /\ EventsInOrder(events', muted)
        /\ Elements(events') = Elements(events) \cup {c}
    BY <1>3, <2>1, <2>2, <2>3, <2>4, EventsAppended DEF OrderInv, EventsInv
  <2>6. query'.raised = query.raised \cup {c}
    BY <1>4, <1>12
  <2>7. EventsInv'
    BY <1>1, <1>10, <2>5, <2>6 DEF OrderInv, EventsInv
  <2> QED
    BY <1>8, <1>9, <2>7 DEF OrderInv
<1> QED
  BY <1>11, <1>12

\* A listener goes once its call was called back.
LEMMA RemoveListenerKeepsOrder ==
    ASSUME WatchIInv, OrderInv, RemoveListener
    PROVE  OrderInv' /\ query'.raised \cup muted' = query.raised \cup muted
<1> DEFINE c == Head(tasks).call
           left == Others(query.listeners, c)
<1>1. /\ tasks # <<>> /\ Head(tasks).kind = "remove" /\ tasks' = Tail(tasks)
      /\ query'.listeners = left /\ query'.raised = query.raised \ {c}
      /\ UNCHANGED <<made, events, muted>>
  BY DEF RemoveListener
<1>2. /\ tasks \in Seq(Tasks) /\ Head(tasks) = tasks[1] /\ 1 \in DOMAIN tasks
      /\ \A i \in DOMAIN tasks' : i + 1 \in DOMAIN tasks /\ tasks'[i] = tasks[i + 1]
  BY <1>1, TaskTaken DEF WatchIInv, WatchTypeOK
<1>3. c \in muted
  BY <1>1, <1>2 DEF OrderInv, EventsInv
<1>4. /\ Elements(left) = Elements(query.listeners) \ {c}
      /\ \A i, j \in DOMAIN left : i < j =>
             \E k, l \in DOMAIN query.listeners :
                 k < l /\ query.listeners[k] = left[i] /\ query.listeners[l] = left[j]
  BY OthersLeft DEF WatchIInv, WatchTypeOK, ListenersInv, RaisedFirst
<1>5. AddedInOrder'
  BY <1>1, <1>2, <1>3, <1>4, TasksStayInOrder DEF OrderInv
<1> HIDE DEF left, c
<1>6. Increasing(query'.listeners)
  BY <1>1, <1>4 DEF OrderInv, Increasing
<1>7. \A i \in DOMAIN tasks' : tasks'[i].kind = "remove" => tasks'[i].call \in muted'
  BY <1>1, <1>2 DEF OrderInv, EventsInv
<1>8. EventsInv'
  BY <1>1, <1>3, <1>7 DEF OrderInv, EventsInv
<1> QED
  BY <1>1, <1>3, <1>5, <1>6, <1>8 DEF OrderInv

\* An event is run: its call is the oldest that was not called back, or was called
\* back before.
LEMMA FirstEvent ==
    ASSUME NEW es \in Seq(Calls), NEW done, EventsInOrder(es, done), es # <<>>
    PROVE  /\ EventsInOrder(Tail(es), done \cup {Head(es)})
           /\ Elements(es) = Elements(Tail(es)) \cup {Head(es)}
           /\ Head(es) \notin done => 1..(Head(es) - 1) \subseteq done
<1> DEFINE t == Tail(es)
           c == Head(es)
<1>1. /\ 1 \in DOMAIN es /\ c = es[1] /\ Len(es) \in Nat
      /\ DOMAIN es = 1..Len(es) /\ DOMAIN t = 1..(Len(es) - 1)
      /\ \A i \in DOMAIN t : i + 1 \in DOMAIN es /\ t[i] = es[i + 1]
      /\ \A i \in DOMAIN es : i # 1 => i - 1 \in DOMAIN t /\ t[i - 1] = es[i]
  BY TailShifts
<1> HIDE DEF t, c
<1>2. Elements(es) = Elements(t) \cup {c}
  <2>1. \A i \in DOMAIN es : es[i] \in Elements(t) \cup {c}
    BY <1>1 DEF Elements
  <2>2. \A d \in Elements(t) \cup {c} : \E i \in DOMAIN es : es[i] = d
    BY <1>1 DEF Elements
  <2>3. Elements(es) \subseteq Elements(t) \cup {c}
    BY <2>1 DEF Elements
  <2>4. Elements(t) \cup {c} \subseteq Elements(es)
    BY <2>2 DEF Elements
  <2> QED
    BY <2>3, <2>4
<1>3. ASSUME NEW i \in DOMAIN t, t[i] \notin done, t[i] # c, NEW b \in 1..(t[i] - 1),
             b \notin done, b # c
      PROVE  \E j \in DOMAIN t : j < i /\ t[j] = b
  <2>1. i + 1 \in DOMAIN es /\ t[i] = es[i + 1]
    BY <1>1
  <2>2. PICK j \in DOMAIN es : j < i + 1 /\ es[j] = b
    BY <1>3, <2>1 DEF EventsInOrder
  <2>3. j # 1
    BY <1>1, <1>3, <2>2
  <2>4. j - 1 \in DOMAIN t /\ t[j - 1] = b /\ j - 1 < i
    BY <1>1, <2>2, <2>3
  <2> QED
    BY <2>4
<1>4. EventsInOrder(t, done \cup {c})
  BY <1>3 DEF EventsInOrder
<1>5. ASSUME c \notin done, NEW b \in 1..(c - 1), b \notin done
      PROVE  FALSE
  <2>1. PICK j \in DOMAIN es : j < 1 /\ es[j] = b
    BY <1>1, <1>5 DEF EventsInOrder
  <2> QED
    BY <1>1, <2>1
<1> QED
  BY <1>2, <1>4, <1>5 DEF t, c

LEMMA RunEventKeepsOrder ==
    ASSUME WatchIInv, OrderInv, RunEvent
    PROVE  /\ OrderInv'
           /\ query'.raised \cup muted' = query.raised \cup muted
           /\ Head(events) \in query.raised \cup muted
           /\ Head(events) \notin muted => 1..(Head(events) - 1) \subseteq muted
<1> DEFINE c == Head(events)
           task == [kind |-> "remove", call |-> c]
<1>1. /\ events # <<>> /\ events' = Tail(events) /\ UNCHANGED <<made, query>>
      /\ muted' = muted \cup {c}
      /\ tasks' = tasks \/ tasks' = Append(tasks, task)
  BY DEF RunEvent
<1>2. events \in Seq(Calls) /\ tasks \in Seq(Tasks)
  BY DEF WatchIInv, WatchTypeOK
<1>3. /\ EventsInOrder(events', muted')
      /\ Elements(events) = Elements(events') \cup {c}
      /\ c \notin muted => 1..(c - 1) \subseteq muted
  BY <1>1, <1>2, FirstEvent DEF OrderInv, EventsInv
<1>4. c \in query.raised \cup muted /\ c \in Calls
  BY <1>1, <1>2, <1>3, TailShifts DEF OrderInv, EventsInv
<1>5. task \in Tasks /\ task.kind = "remove" /\ task.call = c
  BY <1>4 DEF Tasks
<1> HIDE DEF task, c
<1>6. query'.raised \cup muted' = query.raised \cup muted
  BY <1>1, <1>4
<1>7. c \in muted \cup Elements(query.listeners)
  BY <1>4 DEF WatchIInv, WatchTypeOK
<1>8. c <= made
  BY <1>7 DEF WatchIInv, ListenersInv, AddersAreFresh, OrderInv, EventsInv
<1>9. \A d \in muted' : d <= made' /\ 1..(d - 1) \subseteq muted'
  BY <1>1, <1>3, <1>8 DEF OrderInv, EventsInv
<1>10. /\ DOMAIN tasks \subseteq DOMAIN tasks'
       /\ \A i \in DOMAIN tasks : tasks'[i] = tasks[i]
       /\ \A i \in DOMAIN tasks' : i \in DOMAIN tasks \/ tasks'[i] = task
  <2>1. CASE tasks' = tasks
    BY <2>1
  <2>2. CASE tasks' = Append(tasks, task)
    <3> DEFINE n == Len(tasks)
    <3>1. n \in Nat /\ DOMAIN tasks = 1..n /\ DOMAIN tasks' = 1..(n + 1)
      BY <1>2, <1>5, <2>2, LenProperties, AppendedElements
    <3>2. /\ \A i \in 1..n : tasks'[i] = tasks[i]
          /\ tasks'[n + 1] = task
      BY <1>2, <1>5, <2>2, AppendProperties
    <3> HIDE DEF n
    <3>3. \A i \in 1..(n + 1) : i \in 1..n \/ i = n + 1
      BY <3>1
    <3>4. 1..n \subseteq 1..(n + 1)
      BY <3>1
    <3> QED
      BY <3>1, <3>2, <3>3, <3>4
  <2> QED
    BY <1>1, <2>1, <2>2
<1>11. ToBeAdded' = ToBeAdded
  BY <1>5, <1>10 DEF ToBeAdded
<1>12. AddedInOrder'
  <2>1. \A d \in 1..made' : d \in muted' \cup Elements(query'.listeners) \cup ToBeAdded'
    BY <1>1, <1>11 DEF OrderInv, AddedInOrder
  <2>2. ASSUME NEW i \in DOMAIN tasks', tasks'[i].kind = "add"
        PROVE  /\ \A d \in muted' \cup Elements(query'.listeners) : d < tasks'[i].call
               /\ \A j \in DOMAIN tasks' :
                      i < j /\ tasks'[j].kind = "add" => tasks'[i].call < tasks'[j].call
    <3>1. /\ i \in DOMAIN tasks /\ tasks'[i] = tasks[i]
          /\ \A j \in DOMAIN tasks' : tasks'[j].kind = "add" =>
                 j \in DOMAIN tasks /\ tasks'[j] = tasks[j]
      BY <1>5, <1>10, <2>2
    <3> QED
      BY <1>1, <1>7, <2>2, <3>1 DEF OrderInv, AddedInOrder
  <2> QED
    BY <2>1, <2>2 DEF AddedInOrder
<1>13. EventsInv'
  <2>1. \A i \in DOMAIN tasks' : tasks'[i].kind = "remove" => tasks'[i].call \in muted'
    BY <1>1, <1>5, <1>10 DEF OrderInv, EventsInv
  <2>2. /\ query'.raised \subseteq Elements(events') \cup muted'
        /\ Elements(events') \subseteq query'.raised \cup muted'
    BY <1>1, <1>3, <1>6 DEF OrderInv, EventsInv
  <2> QED
    BY <1>3, <1>9, <2>1, <2>2 DEF EventsInv
<1> QED
  BY <1>1, <1>3, <1>4, <1>6, <1>12, <1>13 DEF OrderInv, c

\* A snapshot that syncs the view is an event for every listener, in their order.
LEMMA OnWatchStreamChangeKeepsOrder ==
    ASSUME WatchIInv, OrderInv, OnWatchStreamChange
    PROVE  OrderInv'
<1>1. UNCHANGED <<made, tasks, muted>>
  BY DEF OnWatchStreamChange
<1>2. CASE Head(replies).kind = "current" /\ IsActive /\ query.snapshot = "cache"
  <2>1. /\ query' = [query EXCEPT !.raised = Elements(query.listeners), !.snapshot = "synced"]
        /\ events' = events \o query.listeners
    BY <1>2 DEF OnWatchStreamChange
  <2>2. query'.listeners = query.listeners /\ query'.raised = Elements(query.listeners)
    BY <2>1 DEF WatchIInv, WatchTypeOK
  <2> QED
    BY <1>1, <2>1, <2>2, ListenersRaise DEF WatchIInv
<1>3. CASE ~(Head(replies).kind = "current" /\ IsActive /\ query.snapshot = "cache")
  <2>1. UNCHANGED <<query, events>>
    BY <1>3 DEF OnWatchStreamChange
  <2> QED
    BY <1>1, <2>1, OrderStays
<1> QED
  BY <1>2, <1>3

LEMMA WatchStartsInOrder ==
    ASSUME WatchInit
    PROVE  OrderInv
<1>1. DOMAIN <<>> = {} /\ Elements(<<>>) = {}
  BY EmptySeq DEF Elements
<1>2. /\ made = 0 /\ tasks = <<>> /\ events = <<>> /\ muted = {}
      /\ query.listeners = <<>> /\ query.raised = {}
  BY DEF WatchInit
<1>3. AddedInOrder
  BY <1>1, <1>2 DEF AddedInOrder
<1>4. Increasing(query.listeners)
  BY <1>1, <1>2 DEF Increasing
<1>5. EventsInv
  BY <1>1, <1>2 DEF EventsInv, EventsInOrder
<1> QED
  BY <1>3, <1>4, <1>5 DEF OrderInv

LEMMA OrderStep ==
    ASSUME WatchIInv, OrderInv, [WatchNext]_watchVars
    PROVE  OrderInv'
<1>1. CASE AppNext
  BY <1>1, GetDocumentsKeepsOrder, RunEventKeepsOrder, AddListenerKeepsOrder,
     RemoveListenerKeepsOrder DEF AppNext
<1>2. ASSUME NEW t, Track(t), UNCHANGED <<made, tasks, muted>> PROVE OrderInv'
  BY <1>2, TrackKeepsOrder DEF WatchIInv
<1>3. CASE OnWatchStreamOpen \/ WatchBackoffElapses \/ BackendReads \/ BackendCatchesUp
  BY <1>3, OrderStays DEF OnWatchStreamOpen, WatchBackoffElapses, BackendReads,
                          BackendCatchesUp
<1>4. CASE WatchIdleTimeout \/ OnlineStateTimeout
  BY <1>2, <1>4 DEF WatchIdleTimeout, OnlineStateTimeout
<1>5. CASE \E status \in Failures : OnWatchStreamBroken(status)
  BY <1>2, <1>5 DEF OnWatchStreamBroken
<1>6. CASE UNCHANGED watchVars
  BY <1>6, OrderStays DEF watchVars
<1> QED
  BY <1>1, <1>3, <1>4, <1>5, <1>6, OnWatchStreamChangeKeepsOrder
     DEF WatchNext, StreamNext, NetworkNext

-----------------------------------------------------------------------------
(* The watch stream keeps its promise.                                       *)

\* The calls answered: their listeners have raised an event, or were called back.
Answered == query.raised \cup muted

\* They are the oldest calls.
OldestAnswered ==
    /\ made \in 0..MaxCalls /\ Cardinality(Answered) \in 0..made
    /\ Answered = 1..Cardinality(Answered)

LEMMA AnsweredAreOldest ==
    ASSUME WatchIInv, OrderInv
    PROVE  OldestAnswered
<1> DEFINE k == Cardinality(Answered)
<1>1. made \in 0..MaxCalls /\ made \in Nat
  BY CallsAssumption DEF WatchIInv, WatchTypeOK
<1>2. \A c \in Elements(query.listeners) : c \in 1..made
  <2>1. Elements(query.listeners) \subseteq Calls
    BY LenProperties, ElementOfSeq DEF Elements, WatchIInv, WatchTypeOK
  <2> QED
    BY <1>1, <2>1 DEF WatchIInv, ListenersInv, AddersAreFresh, Calls
<1>3. Answered \subseteq 1..made
  <2>1. query.raised \subseteq Elements(query.listeners) /\ muted \subseteq Calls
    BY DEF WatchIInv, WatchTypeOK
  <2>2. \A c \in muted : c <= made
    BY DEF OrderInv, EventsInv
  <2>3. \A c \in muted : c \in 1..made
    BY <1>1, <2>1, <2>2, CallsAssumption DEF Calls
  <2> QED
    BY <1>2, <2>1, <2>3 DEF Answered
<1>4. ASSUME NEW c \in Answered, NEW b \in 1..(c - 1)
      PROVE  b \in Answered
  <2>1. CASE c \in muted
    BY <2>1 DEF OrderInv, EventsInv, Answered
  <2>2. CASE c \in query.raised
    <3>1. c \in Elements(query.listeners) /\ c \in Nat
      BY <1>2, <2>2 DEF WatchIInv, WatchTypeOK
    <3>2. b \in muted \cup Elements(query.listeners)
      BY <3>1, BeforeListeners DEF WatchIInv, ListenersInv, OrderInv
    <3>3. ASSUME b \in Elements(query.listeners) PROVE b \in query.raised
      <4>1. PICK i \in DOMAIN query.listeners : query.listeners[i] = b
        BY <3>3 DEF Elements
      <4>2. PICK j \in DOMAIN query.listeners : query.listeners[j] = c
        BY <3>1 DEF Elements
      <4>3. b < c /\ b \in Nat
        BY <3>1
      <4>4. i < j
        <5>1. i \in Nat /\ j \in Nat
          BY LenProperties DEF WatchIInv, WatchTypeOK
        <5>2. ~(j < i) /\ i # j
          BY <3>1, <4>1, <4>2, <4>3 DEF OrderInv, Increasing
        <5> QED
          BY <5>1, <5>2
      <4> QED
        BY <2>2, <4>1, <4>2, <4>4 DEF WatchIInv, ListenersInv, RaisedFirst
    <3> QED
      BY <3>2, <3>3 DEF Answered
  <2> QED
    BY <2>1, <2>2 DEF Answered
<1>5. /\ IsFiniteSet(Answered) /\ k \in Nat /\ k <= made
  <2>1. IsFiniteSet(1..made) /\ Cardinality(1..made) = made
    BY <1>1, FS_Interval
  <2> QED
    BY <1>3, <2>1, FS_Subset, FS_CardinalityType
<1>6. ASSUME NEW i \in 1..made
      PROVE  i \in Answered <=> i \in 1..k
  <2>1. CASE i \in Answered
    <3>1. 1..i \subseteq Answered
      BY <1>4, <2>1
    <3>2. Cardinality(1..i) = i
      BY FS_Interval
    <3>3. i <= k
      BY <1>5, <3>1, <3>2, FS_Subset
    <3> QED
      BY <1>5, <2>1, <3>3
  <2>2. CASE i \notin Answered
    <3>1. Answered \subseteq 1..(i - 1)
      BY <1>3, <1>4, <2>2
    <3>2. IsFiniteSet(1..(i - 1)) /\ Cardinality(1..(i - 1)) = i - 1
      BY FS_Interval
    <3>3. k <= i - 1
      BY <1>5, <3>1, <3>2, FS_Subset
    <3> QED
      BY <1>5, <2>2, <3>3
  <2> QED
    BY <2>1, <2>2
<1> HIDE DEF k
<1>7. 1..k \subseteq 1..made
  BY <1>1, <1>5
<1>8. Answered = 1..k
  BY <1>3, <1>6, <1>7
<1> QED
  BY <1>1, <1>5, <1>8 DEF k, OldestAnswered

\* A step after which more calls are answered answers the next ones.
LEMMA MoreAreAnswered ==
    ASSUME OldestAnswered, OldestAnswered', made' = made, completed' = completed,
           Answered \subseteq Answered'
    PROVE  [Promise!ReadCallsNext]_(Promise!readCallsVars)
<1> DEFINE k == Cardinality(Answered)
           l == Cardinality(Answered')
<1>1. k \in 0..made /\ Answered = 1..k /\ made \in Nat
  BY CallsAssumption DEF OldestAnswered
<1>2. l \in 0..made' /\ Answered' = 1..l
  BY DEF OldestAnswered
<1>3. Cardinality(query.raised \cup muted) = k /\ Cardinality(query.raised \cup muted)' = l
  BY DEF Answered
<1> HIDE DEF k, l
<1>4. l = k \/ l \in (k + 1)..made
  BY <1>1, <1>2
<1>5. CASE l = k
  BY <1>3, <1>5 DEF Promise!readCallsVars
<1>6. CASE l \in (k + 1)..made
  <2>1. Promise!Answer
    BY <1>3, <1>6 DEF Promise!Answer
  <2> QED
    BY <2>1 DEF Promise!ReadCallsNext
<1> QED
  BY <1>4, <1>5, <1>6

\* The oldest call not called back is, or its listener is muted and nothing happens.
LEMMA EventsCallBack ==
    ASSUME WatchIInv, OrderInv, OldestAnswered, RunEvent
    PROVE  [Promise!ReadCallsNext]_(Promise!readCallsVars)
<1> DEFINE c == Head(events)
           k == Cardinality(Answered)
<1>1. /\ Answered' = Answered /\ c \in Answered
      /\ c \notin muted => 1..(c - 1) \subseteq muted
  BY RunEventKeepsOrder DEF Answered
<1>2. /\ k \in 0..made /\ Answered = 1..k /\ made \in Nat /\ made \in 0..MaxCalls
  BY CallsAssumption DEF OldestAnswered
<1>3. Cardinality(query.raised \cup muted) = k /\ Cardinality(query.raised \cup muted)' = k
  BY <1>1 DEF Answered
<1>4. /\ c \in muted => completed' = completed
      /\ c \notin muted => completed' = [completed EXCEPT ![c] = @ + 1]
      /\ made' = made
  BY DEF RunEvent
<1>5. \A b \in Calls : completed[b] = IF b \in muted THEN 1 ELSE 0
  BY DEF WatchIInv, ListenersInv
<1> HIDE DEF c, k
<1>6. c \in Calls /\ c \in Nat /\ c <= k /\ 1..(c - 1) \subseteq Calls
  BY <1>1, <1>2, CallsAssumption DEF Calls
<1>7. CASE c \in muted
  BY <1>3, <1>4, <1>7 DEF Promise!readCallsVars
<1>8. CASE c \notin muted
  <2>1. completed[c] = 0 /\ \A b \in 1..(c - 1) : completed[b] = 1
    BY <1>1, <1>5, <1>6, <1>8
  <2>2. completed' = [completed EXCEPT ![c] = 1]
    BY <1>4, <1>8, <2>1
  <2>3. Promise!CallBack(c)
    BY <1>3, <1>4, <1>6, <2>1, <2>2 DEF Promise!CallBack
  <2> QED
    BY <1>6, <2>3 DEF Promise!ReadCallsNext, Calls
<1> QED
  BY <1>7, <1>8

\* Every step is one of the promise's or changes nothing it knows of.
LEMMA StepKeepsPromise ==
    ASSUME WatchIInv, OrderInv, OldestAnswered, OldestAnswered', [WatchNext]_watchVars
    PROVE  [Promise!ReadCallsNext]_(Promise!readCallsVars)
<1>1. CASE GetDocuments
  <2>1. Promise!Call
    BY <1>1 DEF GetDocuments, Promise!Call
  <2> QED
    BY <2>1 DEF Promise!ReadCallsNext
<1>2. CASE RunEvent
  BY <1>2, EventsCallBack
<1>3. query.raised \subseteq Elements(query.listeners)
  BY DEF WatchIInv, WatchTypeOK
<1>4. CASE AddListener
  <2>1. query.raised \subseteq query'.raised
    <3> DEFINE c == Head(tasks).call
    <3>1. query' = IF Listening(query) THEN Joins(c, query) ELSE FirstListener(c)
      BY <1>4 DEF AddListener
    <3> HIDE DEF c
    <3> QED
      BY <3>1 DEF FirstListener, Joins, WatchIInv, WatchTypeOK
  <2>2. made' = made /\ completed' = completed /\ muted' = muted
    BY <1>4 DEF AddListener
  <2> QED
    BY <2>1, <2>2, MoreAreAnswered DEF Answered
<1>5. CASE RemoveListener
  <2>1. made' = made /\ completed' = completed
    BY <1>5 DEF RemoveListener
  <2>2. Answered \subseteq Answered'
    BY <1>5, RemoveListenerKeepsOrder DEF Answered
  <2> QED
    BY <2>1, <2>2, MoreAreAnswered
<1>6. ASSUME NEW t, Track(t), UNCHANGED <<made, muted, completed>>
      PROVE  [Promise!ReadCallsNext]_(Promise!readCallsVars)
  <2>1. query' = query \/ query' = [query EXCEPT !.raised = Elements(query.listeners),
                                               !.snapshot = "cache"]
    BY <1>6 DEF Track
  <2>2. query.raised \subseteq query'.raised
    <3>1. query' # query => query'.raised = Elements(query.listeners)
      BY <2>1 DEF WatchIInv, WatchTypeOK
    <3> QED
      BY <1>3, <3>1
  <2> QED
    BY <1>6, <2>2, MoreAreAnswered DEF Answered
<1>7. CASE OnWatchStreamOpen \/ WatchBackoffElapses \/ BackendReads \/ BackendCatchesUp
  <2>1. UNCHANGED <<made, query, muted, completed>>
    BY <1>7 DEF OnWatchStreamOpen, WatchBackoffElapses, BackendReads, BackendCatchesUp
  <2> QED
    BY <2>1, MoreAreAnswered DEF Answered
<1>8. CASE WatchIdleTimeout \/ OnlineStateTimeout
  BY <1>6, <1>8 DEF WatchIdleTimeout, OnlineStateTimeout
<1>9. CASE \E status \in Failures : OnWatchStreamBroken(status)
  BY <1>6, <1>9 DEF OnWatchStreamBroken
<1>10. CASE OnWatchStreamChange
  <2>1. query' = query \/ query' = [query EXCEPT !.raised = Elements(query.listeners),
                                               !.snapshot = "synced"]
    BY <1>10 DEF OnWatchStreamChange
  <2>2. query.raised \subseteq query'.raised
    <3>1. query' # query => query'.raised = Elements(query.listeners)
      BY <2>1 DEF WatchIInv, WatchTypeOK
    <3> QED
      BY <1>3, <3>1
  <2>3. made' = made /\ completed' = completed /\ muted' = muted
    BY <1>10 DEF OnWatchStreamChange
  <2> QED
    BY <2>2, <2>3, MoreAreAnswered DEF Answered
<1>11. CASE UNCHANGED watchVars
  <2>1. UNCHANGED <<made, query, muted, completed>>
    BY <1>11 DEF watchVars
  <2> QED
    BY <2>1, MoreAreAnswered DEF Answered
<1> QED
  BY <1>1, <1>2, <1>4, <1>5, <1>7, <1>8, <1>9, <1>10, <1>11
     DEF WatchNext, AppNext, StreamNext, NetworkNext

LEMMA StartKeepsPromise ==
    ASSUME WatchInit
    PROVE  Promise!ReadCallsInit
<1>1. query.raised \cup muted = {} /\ made = 0 /\ completed = [c \in 1..MaxCalls |-> 0]
  BY DEF WatchInit, Calls
<1> QED
  BY <1>1, FS_EmptySet DEF Promise!ReadCallsInit

\* Calls are answered oldest first, some of them by one snapshot or on going offline,
\* and their completions run once and in the order of the calls, whichever listeners
\* came and went and however often the stream broke.
THEOREM CallsAreInOrder == WatchSpec => ImplementsReadCalls
<1>1. WatchInit => OrderInv
  BY WatchStartsInOrder
<1>2. WatchInit => Promise!ReadCallsInit
  BY StartKeepsPromise
<1>3. WatchIInv /\ OrderInv /\ [WatchNext]_watchVars => OrderInv'
  BY OrderStep
<1>4. WatchIInv /\ OrderInv => OldestAnswered
  BY AnsweredAreOldest
<1>5. /\ WatchIInv /\ OrderInv /\ OldestAnswered /\ OldestAnswered'
      /\ [WatchNext]_watchVars
      => [Promise!ReadCallsNext]_(Promise!readCallsVars)
  BY StepKeepsPromise
<1> QED
  BY <1>1, <1>2, <1>3, <1>4, <1>5, WatchAlways, PTL
     DEF WatchSpec, ImplementsReadCalls, Promise!ReadCallsSpec

=============================================================================
