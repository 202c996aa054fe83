----------------------------- MODULE UploadProofs -----------------------------
(***************************************************************************)
(* Proofs about Upload, for any number of editors and places.               *)
(***************************************************************************)
EXTENDS Upload, SequenceTheorems, TLAPS

-----------------------------------------------------------------------------
(* The inductive invariant.                                                  *)

\* What the editors know: one that was never opened has nothing under way, and
\* one that may send has a location.
EditorsSound ==
    /\ open # Closed => open \in used
    /\ \A e \in Editors : puts[e] # "none" => e \in used
    /\ \A e \in Editors : canSend[e] => location[e] # Nowhere

\* Where the pictures are: an accepted put has stored its picture, and a
\* document was made by a put that is over.
PicturesSound ==
    /\ \A e \in Editors : puts[e] = "accepted" => e \in bucket
    /\ \A i \in DOMAIN adds : puts[adds[i].image] = "posted"
    /\ \A i \in DOMAIN yaks : puts[yaks[i].image] = "posted"

UploadInv ==
    /\ TypeOK
    /\ SentWithLocation
    /\ EditorsSound
    /\ PicturesSound
    /\ OneYakPerImage
    /\ YakHasImage

LEMMA InitHolds == Init => UploadInv
BY UploadAssumption DEF Init, UploadInv, TypeOK, SentWithLocation, EditorsSound,
   PicturesSound, OneYakPerImage, YakHasImage, Documents, PutStates

-----------------------------------------------------------------------------
(* Every document names an editor's picture.                                 *)

LEMMA DocumentTypes ==
    ASSUME TypeOK
    PROVE  /\ \A i \in DOMAIN adds : adds[i].image \in Editors
           /\ \A i \in DOMAIN yaks : yaks[i].image \in Editors
<1>1. adds \in Seq(Yaks) /\ yaks \in Seq(Yaks)
  BY DEF TypeOK
<1>2. /\ \A i \in DOMAIN adds : adds[i] \in Yaks
      /\ \A i \in DOMAIN yaks : yaks[i] \in Yaks
  BY <1>1
<1> QED
  BY <1>2 DEF Yaks

-----------------------------------------------------------------------------
(* Steps of the editor leave the documents and the pictures alone.           *)

LEMMA EditKeepsClouds ==
    ASSUME PicturesSound, OneYakPerImage, YakHasImage, TypeOK, UNCHANGED cloudVars,
           \/ UNCHANGED puts
           \/ \E e \in Editors : puts[e] \in {"none", "running"}
                                 /\ puts' = [puts EXCEPT ![e] = "running"]
    PROVE  PicturesSound' /\ OneYakPerImage' /\ YakHasImage'
<1>1. OneYakPerImage' /\ YakHasImage'
  BY DEF OneYakPerImage, YakHasImage, Documents, cloudVars
<1>2. PicturesSound'
  <2>1. /\ \A i \in DOMAIN adds : adds[i].image \in Editors
        /\ \A i \in DOMAIN yaks : yaks[i].image \in Editors
    BY DocumentTypes
  <2> QED
    BY <2>1 DEF PicturesSound, TypeOK, cloudVars
<1> QED
  BY <1>1, <1>2

\* An editor's put is started only once: while it is on the screen it has none.
OpenIsIdle == open # Closed => puts[open] = "none"

LEMMA EditStep ==
    ASSUME UploadInv, OpenIsIdle, NEW e \in Editors, Edit(e)
    PROVE  UploadInv'
<1> USE DEF UploadInv
<1>1. CASE OpenEditor(e)
  <2>1. puts[e] = "none"
    BY <1>1 DEF OpenEditor, EditorsSound
  <2>2. TypeOK' /\ SentWithLocation' /\ EditorsSound'
    BY <1>1, <2>1 DEF OpenEditor, TypeOK, SentWithLocation, EditorsSound, phoneVars, cloudVars
  <2> QED
    BY <1>1, <2>2, EditKeepsClouds DEF OpenEditor
<1>2. CASE GoBack(e)
  <2>1. TypeOK' /\ SentWithLocation' /\ EditorsSound'
    BY <1>2 DEF GoBack, TypeOK, SentWithLocation, EditorsSound, phoneVars, cloudVars
  <2> QED
    BY <1>2, <2>1, EditKeepsClouds DEF GoBack
<1>3. CASE LocationArrives(e)
  <2>1. TypeOK' /\ SentWithLocation' /\ EditorsSound'
    BY <1>3, UploadAssumption
    DEF LocationArrives, TypeOK, SentWithLocation, EditorsSound, cloudVars
  <2> QED
    BY <1>3, <2>1, EditKeepsClouds DEF LocationArrives
<1>4. CASE LocationFails(e)
  <2>1. TypeOK' /\ SentWithLocation' /\ EditorsSound'
    BY <1>4 DEF LocationFails, TypeOK, SentWithLocation, EditorsSound, phoneVars, cloudVars
  <2> QED
    BY <1>4, <2>1, EditKeepsClouds DEF LocationFails
<1>5. CASE Send(e)
  <2>1. /\ open = e /\ e # Closed /\ e \in used /\ puts[e] = "none" /\ location[e] # Nowhere
    BY <1>5, UploadAssumption DEF Send, EditorsSound, OpenIsIdle
  <2>2. TypeOK' /\ SentWithLocation' /\ EditorsSound'
    BY <1>5, <2>1
    DEF Send, TypeOK, SentWithLocation, EditorsSound, phoneVars, cloudVars, PutStates
  <2>3. UNCHANGED puts \/ puts' = [puts EXCEPT ![e] = "running"]
    BY <1>5 DEF Send
  <2> QED
    BY <1>5, <2>1, <2>2, <2>3, EditKeepsClouds DEF Send
<1> QED
  BY <1>1, <1>2, <1>3, <1>4, <1>5 DEF Edit

-----------------------------------------------------------------------------
(* Steps of Storage and Firestore.                                           *)

\* A put that stores a picture, or ends, without making a document.
LEMMA PutWithoutYak ==
    ASSUME UploadInv, NEW e \in Editors, StoreImage(e) \/ RefuseImage(e) \/ PutFailed(e)
    PROVE  UploadInv'
<1> USE DEF UploadInv, StoreImage, RefuseImage, PutFailed
<1>1. /\ puts[e] \in {"running", "refused"} /\ bucket \subseteq bucket'
      /\ bucket' \subseteq bucket \cup {e}
      /\ \E end \in {"accepted", "refused", "lost"} :
            /\ puts' = [puts EXCEPT ![e] = end]
            /\ end = "accepted" => e \in bucket' /\ puts[e] = "running"
      /\ UNCHANGED <<phoneVars, editorVars, adds, yaks>>
  BY DEF cloudVars
<1>2. TypeOK'
  BY <1>1 DEF TypeOK, phoneVars, editorVars, PutStates
<1>3. SentWithLocation' /\ EditorsSound'
  BY <1>1 DEF SentWithLocation, EditorsSound, editorVars, TypeOK
<1>4. PicturesSound'
  <2>1. /\ \A i \in DOMAIN adds : adds[i].image \in Editors
        /\ \A i \in DOMAIN yaks : yaks[i].image \in Editors
    BY DocumentTypes
  <2> QED
    BY <1>1, <2>1 DEF PicturesSound, TypeOK
<1>5. OneYakPerImage' /\ YakHasImage'
  BY <1>1 DEF OneYakPerImage, YakHasImage, Documents
<1> QED
  BY <1>2, <1>3, <1>4, <1>5

\* The document is new, its picture is stored, and its location is known.
LEMMA PutMakesYak ==
    ASSUME UploadInv, NEW e \in Editors, PutSucceeded(e)
    PROVE  UploadInv'
<1> DEFINE y == [image |-> e, location |-> location[e]]
<1> USE DEF UploadInv
<1>1. /\ puts[e] = "accepted" /\ puts' = [puts EXCEPT ![e] = "posted"]
      /\ adds' = Append(adds, y)
      /\ UNCHANGED <<phoneVars, editorVars, bucket, yaks>>
  BY DEF PutSucceeded
<1>2. e \in bucket /\ location[e] \in Places
  BY <1>1 DEF PicturesSound, SentWithLocation, TypeOK
<1>3. y \in Yaks /\ y.image = e
  BY <1>2 DEF Yaks
<1> HIDE DEF y
<1>4. adds \in Seq(Yaks) /\ adds' \in Seq(Yaks)
  BY <1>1, <1>3 DEF TypeOK
<1>5. /\ DOMAIN adds = 1 .. Len(adds) /\ DOMAIN adds' = 1 .. (Len(adds) + 1)
      /\ Len(adds) \in Nat
      /\ \A i \in 1 .. Len(adds) : adds'[i] = adds[i]
      /\ adds'[Len(adds) + 1] = y
  BY <1>1, <1>3, <1>4
<1>6. /\ \A i \in DOMAIN adds : adds[i].image \in Editors /\ adds[i].image # e
      /\ \A i \in DOMAIN yaks : yaks[i].image \in Editors /\ yaks[i].image # e
  BY <1>1, DocumentTypes DEF PicturesSound
<1>7. TypeOK'
  BY <1>1, <1>4 DEF TypeOK, phoneVars, editorVars, PutStates
<1>8. SentWithLocation' /\ EditorsSound'
  BY <1>1 DEF SentWithLocation, EditorsSound, editorVars, TypeOK
<1>9. PicturesSound'
  BY <1>1, <1>3, <1>5, <1>6 DEF PicturesSound, TypeOK
<1>10. OneYakPerImage'
  BY <1>1, <1>3, <1>5, <1>6 DEF OneYakPerImage
<1>11. YakHasImage'
  BY <1>1, <1>2, <1>3, <1>5 DEF YakHasImage, Documents
<1> QED
  BY <1>7, <1>8, <1>9, <1>10, <1>11

\* The backend's documents take over the oldest of the added ones.
LEMMA CommitStep ==
    ASSUME UploadInv, CommitAdd
    PROVE  UploadInv'
<1> DEFINE y == Head(adds)
<1> USE DEF UploadInv
<1>1. /\ adds # <<>> /\ adds' = Tail(adds) /\ yaks' = Append(yaks, y)
      /\ UNCHANGED <<phoneVars, editorVars, puts, bucket>>
      /\ adds \in Seq(Yaks) /\ yaks \in Seq(Yaks)
  BY DEF CommitAdd, TypeOK
<1>2. /\ DOMAIN adds = 1 .. Len(adds) /\ Len(adds) \in Nat \ {0}
      /\ DOMAIN adds' = 1 .. (Len(adds) - 1)
      /\ \A i \in 1 .. (Len(adds) - 1) : adds'[i] = adds[i + 1]
      /\ y = adds[1] /\ y \in Yaks /\ adds' \in Seq(Yaks)
  BY <1>1
<1> HIDE DEF y
<1>3. /\ DOMAIN yaks = 1 .. Len(yaks) /\ Len(yaks) \in Nat
      /\ DOMAIN yaks' = 1 .. (Len(yaks) + 1)
      /\ \A i \in 1 .. Len(yaks) : yaks'[i] = yaks[i]
      /\ yaks'[Len(yaks) + 1] = y /\ yaks' \in Seq(Yaks)
  BY <1>1, <1>2
<1>4. TypeOK' /\ SentWithLocation' /\ EditorsSound'
  BY <1>1, <1>2, <1>3 DEF TypeOK, SentWithLocation, EditorsSound, phoneVars, editorVars
<1>5. \A i \in DOMAIN adds' : i + 1 \in DOMAIN adds /\ adds'[i] = adds[i + 1] /\ i + 1 # 1
  BY <1>2
<1>6. \A i \in DOMAIN yaks' : (i \in DOMAIN yaks /\ yaks'[i] = yaks[i]) \/ yaks'[i] = adds[1]
  BY <1>2, <1>3
<1>7. 1 \in DOMAIN adds
  BY <1>2
<1>8. PicturesSound'
  BY <1>1, <1>5, <1>6, <1>7 DEF PicturesSound
<1>9. OneYakPerImage'
  <2>1. ASSUME NEW i \in DOMAIN adds', NEW j \in DOMAIN adds', adds'[i].image = adds'[j].image
        PROVE  i = j
    <3>1. i + 1 = j + 1
      BY <1>5, <2>1 DEF OneYakPerImage
    <3> QED
      BY <1>2, <3>1
  <2>2. ASSUME NEW i \in DOMAIN yaks', NEW j \in DOMAIN yaks', yaks'[i].image = yaks'[j].image
        PROVE  i = j
    <3>1. \A k \in DOMAIN yaks : yaks[k].image # adds[1].image
      BY <1>7 DEF OneYakPerImage
    <3> QED
      BY <1>2, <1>3, <2>2, <3>1 DEF OneYakPerImage
  <2>3. ASSUME NEW i \in DOMAIN adds', NEW j \in DOMAIN yaks'
        PROVE  adds'[i].image # yaks'[j].image
    BY <1>5, <1>6, <1>7 DEF OneYakPerImage
  <2> QED
    BY <2>1, <2>2, <2>3 DEF OneYakPerImage
<1>10. YakHasImage'
  BY <1>1, <1>5, <1>6, <1>7 DEF YakHasImage, Documents
<1> QED
  BY <1>4, <1>8, <1>9, <1>10

LEMMA RelaunchStep ==
    ASSUME UploadInv, Relaunch
    PROVE  UploadInv'
<1> USE DEF UploadInv
<1>1. /\ \A e \in Editors :
            \/ puts'[e] = puts[e] /\ puts[e] \in {"none", "posted", "lost"}
            \/ puts'[e] = "lost" /\ puts[e] # "none" /\ puts[e] # "posted"
      /\ UNCHANGED <<location, canSend, used, cloudVars>>
  BY DEF Relaunch, TypeOK, PutStates
<1>2. TypeOK'
  BY DEF Relaunch, TypeOK, PutStates, cloudVars
<1>3. SentWithLocation' /\ EditorsSound'
  BY <1>1 DEF SentWithLocation, EditorsSound, Relaunch
<1>4. PicturesSound'
  <2>1. /\ \A i \in DOMAIN adds : adds[i].image \in Editors
        /\ \A i \in DOMAIN yaks : yaks[i].image \in Editors
    BY DocumentTypes
  <2> QED
    BY <1>1, <2>1 DEF PicturesSound, cloudVars
<1>5. OneYakPerImage' /\ YakHasImage'
  BY <1>1 DEF OneYakPerImage, YakHasImage, Documents, cloudVars
<1> QED
  BY <1>2, <1>3, <1>4, <1>5

LEMMA IdleStep == OpenIsIdle /\ UploadInv /\ [Next]_vars => OpenIsIdle'
<1> SUFFICES ASSUME OpenIsIdle, UploadInv, [Next]_vars PROVE OpenIsIdle'
  OBVIOUS
<1>1. ASSUME NEW e \in Editors, Edit(e) PROVE OpenIsIdle'
  BY <1>1 DEF Edit, OpenEditor, GoBack, LocationArrives, LocationFails, Send, OpenIsIdle,
              UploadInv, EditorsSound
<1>2. ASSUME NEW e \in Editors, Put(e) PROVE OpenIsIdle'
  BY <1>2 DEF Put, StoreImage, RefuseImage, PutSucceeded, PutFailed, OpenIsIdle, UploadInv,
              TypeOK, editorVars
<1> QED
  BY <1>1, <1>2 DEF Next, vars, editorVars, Authorize, Move, CommitAdd, Relaunch, OpenIsIdle

LEMMA InvStep == OpenIsIdle /\ UploadInv /\ [Next]_vars => UploadInv'
<1> SUFFICES ASSUME OpenIsIdle, UploadInv, [Next]_vars PROVE UploadInv'
  OBVIOUS
<1>1. CASE UNCHANGED <<editorVars, puts, cloudVars>> /\ TypeOK'
  BY <1>1 DEF UploadInv, SentWithLocation, EditorsSound, PicturesSound, OneYakPerImage,
              YakHasImage, Documents, editorVars, cloudVars
<1>2. CASE UNCHANGED vars
  <2>1. TypeOK'
    BY <1>2 DEF UploadInv, TypeOK, vars, phoneVars, editorVars, cloudVars
  <2> QED
    BY <1>1, <1>2, <2>1 DEF vars
<1>3. CASE Authorize \/ Move
  <2>1. TypeOK'
    BY <1>3 DEF UploadInv, TypeOK, Authorize, Move, editorVars, cloudVars
  <2> QED
    BY <1>1, <1>3, <2>1 DEF Authorize, Move
<1>4. ASSUME NEW e \in Editors, Edit(e) PROVE UploadInv'
  BY <1>4, EditStep
<1>5. ASSUME NEW e \in Editors, Put(e) PROVE UploadInv'
  BY <1>5, PutWithoutYak, PutMakesYak DEF Put
<1> QED
  BY <1>2, <1>3, <1>4, <1>5, CommitStep, RelaunchStep DEF Next

-----------------------------------------------------------------------------

LEMMA Invariance == Spec => []UploadInv
<1>1. Init => OpenIsIdle
  BY DEF Init, OpenIsIdle
<1> QED
  BY <1>1, InitHolds, IdleStep, InvStep, PTL DEF Spec

\* Every variable of the upload model stays in its type: in particular every
\* document added has a location.
THEOREM TypeCorrect == Spec => []TypeOK
BY Invariance, PTL DEF UploadInv

\* However puts, relaunches and the pipeline of added documents interleave, a
\* document is never there before its picture.
THEOREM YaksHaveImages == Spec => []YakHasImage
BY Invariance, PTL DEF UploadInv

\* No failure, retry or relaunch posts a picture twice.
THEOREM YaksAreUnique == Spec => []OneYakPerImage
BY Invariance, PTL DEF UploadInv

\* The completion of a put always finds a location to post the yak at.
THEOREM LocationIsKnown == Spec => []SentWithLocation
BY Invariance, PTL DEF UploadInv

=============================================================================
