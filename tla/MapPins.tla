------------------------------ MODULE MapPins ------------------------------
(***************************************************************************)
(* The map: MapViewController keeps the yaks of its last fetch in messages  *)
(* and a pin on the map for each.  A pin knows its yak only by its index:   *)
(* touching it opens whatever messages has there.                           *)
(*                                                                         *)
(* The map reads the radius of Settings when it is loaded, the list at      *)
(* every appearance.  One phone, one launch.                                *)
(***************************************************************************)
EXTENDS Naturals, SequencesExt

CONSTANTS
    Yaks,
    Radii,      \* bound: what is saved in Settings, 0 included
    Unlimited,  \* what a radius of 0 is replaced by
    NoTouch,    \* no pin was touched yet
    MaxCalls,   \* bound: fetches not yet called back
    MaxOpening  \* bound: messages waiting for their image

ASSUME MapAssumption ==
    /\ IsFiniteSet(Yaks)
    /\ Radii \subseteq Nat
    /\ Unlimited \in Nat \ {0}
    /\ MaxCalls \in Nat
    /\ MaxOpening \in Nat

VARIABLES
    radius,     \* "radius" of the defaults
    listRadius, \* the radius of the list
    mapRadius,  \* the radius of the map, 0 until it is loaded
    located,    \* locManager.location is known
    front,      \* the screen in front
    messages,   \* the messages of the map
    pins,       \* pins[i]: the yak the annotation with index i was drawn for
    asked,      \* fetches the SDK has not answered
    answered,   \* the yaks of fetches answered, whose callback has not run
    touched,    \* the last pin touched, and the yak its message was given
    opening,    \* messages waiting for their image, or about to be presented
    crashed,    \* an index was out of range
    dropped,    \* history: the map appeared without a location since its last fetch
    resaved     \* history: a radius was saved since the map was loaded

radiusVars == <<radius, listRadius, mapRadius, resaved>>
pinVars == <<messages, pins, dropped>>
callVars == <<asked, answered>>
touchVars == <<touched, opening, crashed>>
vars == <<radiusVars, located, front, pinVars, callVars, touchVars>>

Screens == {"list", "map", "message", "settings"}
Touches == [pin : Yaks, yak : Yaks]

TypeOK ==
    /\ radius \in Nat /\ listRadius \in Nat \ {0} /\ mapRadius \in Nat
    /\ located \in BOOLEAN
    /\ front \in Screens
    /\ messages \in Seq(Yaks) /\ pins \in Seq(Yaks)
    /\ asked \in Nat /\ answered \in Seq(Seq(Yaks))
    /\ touched \in Touches \cup {NoTouch} /\ opening \in Nat
    /\ crashed \in BOOLEAN /\ dropped \in BOOLEAN /\ resaved \in BOOLEAN

\* A radius of 0 means that none was ever saved.
Effective(r) == IF r = 0 THEN Unlimited ELSE r

\* The app has started with the list in front, which has read the radius.
Init ==
    /\ \E saved \in Radii : radius = Effective(saved)
    /\ listRadius = radius
    /\ mapRadius = 0
    /\ located \in BOOLEAN
    /\ front = "list"
    /\ messages = <<>> /\ pins = <<>>
    /\ asked = 0 /\ answered = <<>>
    /\ touched = NoTouch /\ opening = 0
    /\ crashed = FALSE /\ dropped = FALSE /\ resaved = FALSE

-----------------------------------------------------------------------------
(* Appearing.                                                                *)

\* Mutant of Refresh: the messages are emptied before the fetch as well.
RefreshClears(calls) ==
    /\ messages' = <<>>
    /\ UNCHANGED <<pins, dropped>>
    /\ \/ located /\ asked + Len(answered) + calls <= MaxCalls /\ asked' = asked + calls
       \/ ~located /\ UNCHANGED asked

\* With a location the yaks are fetched; without one the messages are emptied,
\* and the pins stay on the map.
Refresh(calls) ==
    \/ /\ located
       /\ asked + Len(answered) + calls <= MaxCalls
       /\ asked' = asked + calls
       /\ UNCHANGED pinVars
    \/ /\ ~located
       /\ messages' = <<>>
       /\ dropped' = TRUE
       /\ UNCHANGED <<pins, asked>>

\* The first visit: viewDidLoad reads the radius, replaces a 0 by the default,
\* and refreshes, and so does viewDidAppear.
LoadMap ==
    /\ front \in {"list", "settings"}
    /\ mapRadius = 0
    /\ front' = "map"
    /\ radius' = Effective(radius)
    /\ mapRadius' = Effective(radius)
    /\ resaved' = FALSE
    /\ Refresh(2)
    /\ UNCHANGED <<listRadius, located, answered, touchVars>>

\* viewDidAppear: the map is selected again, or a message over it is closed.
AppearMap ==
    /\ front # "map"
    /\ mapRadius # 0
    /\ front' = "map"
    /\ Refresh(1)
    /\ UNCHANGED <<radiusVars, located, answered, touchVars>>

\* Mutant of AppearList: the list keeps the radius of the launch.
AppearListStale ==
    /\ front \in {"map", "settings"}
    /\ front' = "list"
    /\ UNCHANGED <<radiusVars, located, pinVars, callVars, touchVars>>

\* The list reads the radius whenever it appears.
AppearList ==
    /\ front \in {"map", "settings"}
    /\ front' = "list"
    /\ radius' = Effective(radius)
    /\ listRadius' = Effective(radius)
    /\ UNCHANGED <<mapRadius, resaved, located, pinVars, callVars, touchVars>>

\* Settings load their view on the first visit, with a 0 replaced; a later visit
\* leaves it.
OpenSettings ==
    /\ front \in {"list", "map"}
    /\ front' = "settings"
    /\ radius' \in {radius, Effective(radius)}
    /\ UNCHANGED <<listRadius, mapRadius, resaved, located, pinVars, callVars, touchVars>>

SaveRadius == \E r \in Radii :
    /\ front = "settings"
    /\ radius' = r
    /\ resaved' = TRUE
    /\ UNCHANGED <<listRadius, mapRadius, located, front, pinVars, callVars, touchVars>>

\* The location becomes known, or is taken away with the permission.
Locate ==
    /\ located' = ~located
    /\ UNCHANGED <<radiusVars, front, pinVars, callVars, touchVars>>

-----------------------------------------------------------------------------
(* Fetches.                                                                  *)

\* The oldest fetch is answered with whichever yaks are in the radius of the
\* place it was made for.
Answer ==
    /\ asked > 0
    /\ asked' = asked - 1
    /\ \E near \in SUBSET Yaks : \E yaks \in SetToSeqs(near) :
           answered' = Append(answered, yaks)
    /\ UNCHANGED <<radiusVars, located, front, pinVars, touchVars>>

\* The query fails with all its listeners: the error is printed.
FailCalls ==
    /\ asked > 0
    /\ asked' = 0
    /\ UNCHANGED <<radiusVars, located, front, pinVars, answered, touchVars>>

\* Mutant of DisplayYaks: the old pins are not removed.
DisplayMore(yaks) == pins' = pins \o yaks

\* displayYaks: the pins are removed, and drawn for the messages in their order.
DisplayYaks(yaks) == pins' = yaks

\* The callback of a fetch, whichever screen is in front.
DeliverFetch ==
    /\ answered # <<>>
    /\ answered' = Tail(answered)
    /\ messages' = Head(answered)
    /\ DisplayYaks(Head(answered))
    /\ dropped' = FALSE
    /\ UNCHANGED <<radiusVars, located, front, asked, touchVars>>

-----------------------------------------------------------------------------
(* Touching a pin.                                                           *)

\* calloutAccessoryControlTapped: a message is given the yak at the index of the
\* pin.
TouchPin(i) ==
    /\ front = "map"
    /\ \/ /\ i \in DOMAIN messages
          /\ opening < MaxOpening
          /\ touched' = [pin |-> pins[i], yak |-> messages[i]]
          /\ opening' = opening + 1
          /\ UNCHANGED crashed
       \/ /\ i \notin DOMAIN messages
          /\ crashed' = TRUE
          /\ UNCHANGED <<touched, opening>>
    /\ UNCHANGED <<radiusVars, located, front, pinVars, callVars>>

\* The image was there or has arrived: the message is presented, unless the map
\* is not in front; or the image fails, and nothing follows.
ShowMessage ==
    /\ opening > 0
    /\ opening' = opening - 1
    /\ \/ front = "map" /\ front' = "message"
       \/ UNCHANGED front
    /\ UNCHANGED <<radiusVars, located, pinVars, callVars, touched, crashed>>

Next ==
    /\ ~crashed
    /\ \/ LoadMap \/ AppearMap \/ AppearList \/ OpenSettings
       \/ SaveRadius \/ Locate
       \/ Answer \/ FailCalls \/ DeliverFetch
       \/ \E i \in DOMAIN pins : TouchPin(i)
       \/ ShowMessage

Spec == Init /\ [][Next]_vars

-----------------------------------------------------------------------------
(* Properties.                                                               *)

\* A pin opens the yak it was drawn for, however many fetches come back between
\* the drawing and the touch.
PinOpensItsYak == touched # NoTouch => touched.pin = touched.yak

\* The index of a pin is out of range only when the map has appeared without a
\* location and no fetch has come back since: the one path that empties the
\* messages and leaves the pins.
IndexOutOfRangeHasCause == crashed => dropped

\* The list in front shows yaks of the radius the map shows, until one is saved
\* in Settings; after that only the list follows.
RadiiAgree ==
    front = "list" /\ mapRadius # 0 /\ ~resaved => mapRadius = listRadius

=============================================================================
