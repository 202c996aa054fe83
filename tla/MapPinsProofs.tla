--------------------------- MODULE MapPinsProofs ---------------------------
(***************************************************************************)
(* Proofs about MapPins, for any yaks and radii and any number of fetches   *)
(* and messages under way.                                                 *)
(***************************************************************************)
EXTENDS MapPins, FiniteSetTheorems, TLAPS

-----------------------------------------------------------------------------
(* Type correctness.                                                         *)

\* The sequences of a finite set are sequences of its elements.
LEMMA SeqsOfSet ==
    ASSUME NEW S, IsFiniteSet(S), NEW s \in SetToSeqs(S)
    PROVE  s \in Seq(S)
<1>1. Cardinality(S) \in Nat
  BY FS_CardinalityType
<1>2. s \in [1 .. Cardinality(S) -> S]
  BY DEF SetToSeqs
<1> QED
  BY <1>1, <1>2

LEMMA EffectiveType == \A r \in Nat : Effective(r) \in Nat \ {0} /\ (r # 0 => Effective(r) = r)
BY MapAssumption DEF Effective

LEMMA RefreshType ==
    ASSUME TypeOK, NEW calls \in Nat, Refresh(calls)
    PROVE  /\ messages' \in Seq(Yaks) /\ pins' \in Seq(Yaks) /\ dropped' \in BOOLEAN
           /\ asked' \in Nat
<1>1. CASE located /\ asked' = asked + calls /\ UNCHANGED pinVars
  BY <1>1 DEF TypeOK, pinVars
<1>2. CASE messages' = <<>> /\ dropped' = TRUE /\ UNCHANGED <<pins, asked>>
  <2>1. messages' \in Seq(Yaks)
    BY <1>2
  <2> QED
    BY <1>2, <2>1 DEF TypeOK
<1> QED
  BY <1>1, <1>2 DEF Refresh

\* TypeOK is inductive.
LEMMA TypeStep == TypeOK /\ [Next]_vars => TypeOK'
<1> SUFFICES ASSUME TypeOK, [Next]_vars PROVE TypeOK'
  OBVIOUS
<1> USE DEF radiusVars, pinVars, callVars, touchVars, Screens
<1>1. CASE UNCHANGED vars
  BY <1>1 DEF TypeOK, vars
<1>2. CASE LoadMap
  <2>1. radius' \in Nat /\ mapRadius' \in Nat
    BY <1>2, EffectiveType DEF LoadMap, TypeOK
  <2>2. /\ messages' \in Seq(Yaks) /\ pins' \in Seq(Yaks) /\ dropped' \in BOOLEAN
        /\ asked' \in Nat
    BY <1>2, RefreshType DEF LoadMap
  <2> QED
    BY <1>2, <2>1, <2>2 DEF LoadMap, TypeOK
<1>3. CASE AppearMap
  <2>1. /\ messages' \in Seq(Yaks) /\ pins' \in Seq(Yaks) /\ dropped' \in BOOLEAN
        /\ asked' \in Nat
    BY <1>3, RefreshType DEF AppearMap
  <2> QED
    BY <1>3, <2>1 DEF AppearMap, TypeOK
<1>4. CASE AppearList
  <2>1. radius' \in Nat /\ listRadius' \in Nat \ {0}
    BY <1>4, EffectiveType DEF AppearList, TypeOK
  <2> QED
    BY <1>4, <2>1 DEF AppearList, TypeOK
<1>5. CASE OpenSettings
  <2>1. radius' \in Nat
    BY <1>5, EffectiveType DEF OpenSettings, TypeOK
  <2> QED
    BY <1>5, <2>1 DEF OpenSettings, TypeOK
<1>6. CASE SaveRadius
  BY <1>6, MapAssumption DEF SaveRadius, TypeOK
<1>7. CASE Locate
  BY <1>7 DEF Locate, TypeOK
<1>8. CASE Answer
  <2>0. PICK near \in SUBSET Yaks : \E yaks \in SetToSeqs(near) :
          answered' = Append(answered, yaks)
    BY <1>8 DEF Answer
  <2>1. PICK yaks \in SetToSeqs(near) : answered' = Append(answered, yaks)
    BY <2>0
  <2>2. yaks \in Seq(near)
    BY <2>1, MapAssumption, FS_Subset, SeqsOfSet
  <2>3. yaks \in Seq(Yaks)
    BY <2>2
  <2>4. answered' \in Seq(Seq(Yaks))
    BY <2>1, <2>3 DEF TypeOK
  <2> QED
    BY <1>8, <2>4 DEF Answer, TypeOK
<1>9. CASE FailCalls
  BY <1>9 DEF FailCalls, TypeOK
<1>10. CASE DeliverFetch
  <2>1. answered \in Seq(Seq(Yaks)) /\ answered # <<>>
    BY <1>10 DEF DeliverFetch, TypeOK
  <2>2. Head(answered) \in Seq(Yaks) /\ Tail(answered) \in Seq(Seq(Yaks))
    BY <2>1
  <2> QED
    BY <1>10, <2>2 DEF DeliverFetch, DisplayYaks, TypeOK
<1>11. ASSUME NEW i \in DOMAIN pins, TouchPin(i) PROVE TypeOK'
  <2>1. pins[i] \in Yaks
    BY DEF TypeOK
  <2>2. i \in DOMAIN messages => messages[i] \in Yaks
    BY DEF TypeOK
  <2>3. i \in DOMAIN messages => [pin |-> pins[i], yak |-> messages[i]] \in Touches
    BY <2>1, <2>2 DEF Touches
  <2>4. touched' \in Touches \cup {NoTouch}
    BY <1>11, <2>3 DEF TouchPin, TypeOK
  <2>5. opening' \in Nat
    <3>1. opening' = opening + 1 \/ opening' = opening
      BY <1>11 DEF TouchPin
    <3> QED
      BY <3>1 DEF TypeOK
  <2>6. crashed' \in BOOLEAN
    <3>1. crashed' = crashed \/ crashed' = TRUE
      BY <1>11 DEF TouchPin
    <3> QED
      BY <3>1 DEF TypeOK
  <2> QED
    BY <1>11, <2>4, <2>5, <2>6 DEF TouchPin, TypeOK
<1>12. CASE ShowMessage
  BY <1>12 DEF ShowMessage, TypeOK
<1> QED
  BY <1>1, <1>2, <1>3, <1>4, <1>5, <1>6, <1>7, <1>8, <1>9, <1>10, <1>11, <1>12 DEF Next

LEMMA TypeInit == Init => TypeOK
<1> SUFFICES ASSUME Init PROVE TypeOK
  OBVIOUS
<1>1. radius \in Nat \ {0}
  BY MapAssumption, EffectiveType DEF Init
<1>2. messages \in Seq(Yaks) /\ pins \in Seq(Yaks) /\ answered \in Seq(Seq(Yaks))
  BY DEF Init
<1> QED
  BY <1>1, <1>2 DEF Init, TypeOK, Screens

\* Every variable of the map stays in its type.
THEOREM TypeCorrect == Spec => []TypeOK
BY TypeInit, TypeStep, PTL DEF Spec

-----------------------------------------------------------------------------
(* The pins.                                                                 *)

\* The pins are those of the messages, unless the messages were emptied alone.
PinsInv ==
    /\ messages = pins \/ (messages = <<>> /\ dropped)
    /\ PinOpensItsYak
    /\ IndexOutOfRangeHasCause

LEMMA PinsStep == TypeOK /\ PinsInv /\ [Next]_vars => PinsInv'
<1> SUFFICES ASSUME TypeOK, PinsInv, [Next]_vars PROVE PinsInv'
  OBVIOUS
<1> USE DEF PinsInv, PinOpensItsYak, IndexOutOfRangeHasCause, radiusVars, pinVars,
            callVars, touchVars
<1>1. CASE UNCHANGED <<pinVars, touched, crashed>>
  BY <1>1
<1>2. ASSUME NEW calls \in Nat, Refresh(calls), UNCHANGED touchVars PROVE PinsInv'
  BY <1>2 DEF Refresh
<1>3. CASE LoadMap \/ AppearMap
  BY <1>2, <1>3 DEF LoadMap, AppearMap
<1>4. CASE Next /\ DeliverFetch
  BY <1>4 DEF Next, DeliverFetch, DisplayYaks
<1>5. ASSUME NEW i \in DOMAIN pins, TouchPin(i) PROVE PinsInv'
  <2>1. CASE i \in DOMAIN messages
    <3>1. messages = pins
      BY <2>1
    <3> QED
      BY <1>5, <2>1, <3>1 DEF TouchPin
  <2>2. CASE i \notin DOMAIN messages
    <3>1. dropped
      BY <2>2
    <3> QED
      BY <1>5, <2>2, <3>1 DEF TouchPin
  <2> QED
    BY <2>1, <2>2
<1> QED
  BY <1>1, <1>3, <1>4, <1>5
     DEF Next, vars, AppearList, OpenSettings, SaveRadius, Locate, Answer, FailCalls,
         ShowMessage

LEMMA PinsInit == Init => PinsInv
BY DEF Init, PinsInv, PinOpensItsYak, IndexOutOfRangeHasCause

\* A touched pin opens the yak it was drawn for, whatever fetches came between.
THEOREM PinsAreRight == Spec => []PinOpensItsYak
<1>1. PinsInv => PinOpensItsYak
  BY DEF PinsInv
<1> QED
  BY <1>1, PinsInit, PinsStep, TypeInit, TypeStep, PTL DEF Spec

\* The app ends by a touch on a pin only after the map has appeared without a
\* location, with no fetch come back since.
THEOREM OutOfRangeIsCaused == Spec => []IndexOutOfRangeHasCause
<1>1. PinsInv => IndexOutOfRangeHasCause
  BY DEF PinsInv
<1> QED
  BY <1>1, PinsInit, PinsStep, TypeInit, TypeStep, PTL DEF Spec

-----------------------------------------------------------------------------
(* The radii.                                                                *)

\* What the map has read is what is saved, until something else is; the list has
\* read what is saved whenever it is in front.
RadiusInv ==
    /\ mapRadius # 0 /\ ~resaved => radius = mapRadius
    /\ front = "list" => radius = listRadius

LEMMA RadiusStep == TypeOK /\ RadiusInv /\ [Next]_vars => RadiusInv'
<1> SUFFICES ASSUME TypeOK, RadiusInv, [Next]_vars PROVE RadiusInv'
  OBVIOUS
<1> USE DEF RadiusInv, radiusVars
<1>0. radius \in Nat /\ mapRadius \in Nat
  BY DEF TypeOK
<1>1. CASE UNCHANGED <<radiusVars, front>>
  BY <1>1
<1>2. CASE LoadMap
  BY <1>2 DEF LoadMap
<1>3. CASE AppearMap \/ ShowMessage
  BY <1>3 DEF AppearMap, ShowMessage
<1>4. CASE AppearList
  BY <1>0, <1>4, EffectiveType DEF AppearList
<1>5. CASE OpenSettings
  BY <1>0, <1>5, EffectiveType DEF OpenSettings
<1>6. CASE SaveRadius
  BY <1>6 DEF SaveRadius
<1> QED
  BY <1>1, <1>2, <1>3, <1>4, <1>5, <1>6
     DEF Next, vars, Locate, Answer, FailCalls, DeliverFetch, TouchPin

\* Until a radius is saved in Settings after the map was loaded, the list in
\* front and the map show yaks of the same radius.
THEOREM RadiiDoAgree == Spec => []RadiiAgree
<1>1. Init => RadiusInv
  BY DEF Init, RadiusInv
<1>2. RadiusInv => RadiiAgree
  BY DEF RadiusInv, RadiiAgree
<1> QED
  BY <1>1, <1>2, RadiusStep, TypeInit, TypeStep, PTL DEF Spec

=============================================================================
