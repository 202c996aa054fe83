----------------------------- MODULE YakScreens -----------------------------
(***************************************************************************)
(* Where copies of a yak live on a phone.  The list and the map each keep   *)
(* the yaks of their last fetch; the message view is given a copy of the    *)
(* one that was selected, once its image is there.  Yaks are structs, so    *)
(* every copy ages on its own.                                             *)
(*                                                                         *)
(* Of each yak the module follows one field, the one the documents of the   *)
(* FirestoreClient hold: its likes in Voting, its comments in Comments.     *)
(***************************************************************************)
EXTENDS FirestoreClient

CONSTANTS
    Absent,     \* in the place of a row or a message: there is none
    Selectable, \* bound: the documents the model opens in the message view
    MaxOpening  \* bound: selected yaks of a phone waiting for their image

\* What a screen keeps of a yak.
Copies == [doc : Docs, value : Values]

ASSUME ScreensAssumption ==
    /\ Absent \notin Values \cup Copies
    /\ "list" \in Screens
    /\ Screens \subseteq {"list", "map"}
    /\ Selectable \subseteq Docs
    /\ MaxOpening \in Nat

VARIABLES
    tab,        \* tab[p]: the screen p shows
    rows,       \* rows[p][s][d]: the field in the copy of d in the messages of s
    message,    \* message[p]: the copy the message view of p was given
    opening,    \* opening[p]: selected copies waiting for their image
    imageCache  \* imageCache[p][s]: the documents whose image s keeps

screenVars == <<tab, rows, message, opening, imageCache>>

NoRows == [d \in Docs |-> Absent]

\* A selected copy, and the screen that asked for its image.
Openings == [screen : Screens, copy : Copies]

ScreensTypeOK ==
    /\ tab \in [Phones -> Screens]
    /\ rows \in [Phones -> [Screens -> [Docs -> Values \cup {Absent}]]]
    /\ message \in [Phones -> Copies \cup {Absent}]
    /\ opening \in [Phones -> SUBSET Openings]
    /\ imageCache \in [Phones -> [Screens -> SUBSET Docs]]

ScreensInit ==
    /\ tab = [p \in Phones |-> "list"]
    /\ rows = [p \in Phones |-> [s \in Screens |-> NoRows]]
    /\ message = [p \in Phones |-> Absent]
    /\ opening = [p \in Phones |-> {}]
    /\ imageCache = [p \in Phones |-> [s \in Screens |-> {}]]

-----------------------------------------------------------------------------
(* Fetching.                                                                 *)

FetchYaks(p, s) == GetDocuments(p, Fetch(s))

\* Pull to refresh, and the location updates and the first fetch after launch.
ListRefresh(p) ==
    /\ FetchYaks(p, "list")
    /\ UNCHANGED screenVars

\* viewDidAppear with a location known fetches.  Without one the list keeps
\* its messages and the map drops its own.
Appear(p, s) ==
    \/ /\ FetchYaks(p, s)
       /\ UNCHANGED rows
    \/ /\ rows' = IF s = "map" THEN [rows EXCEPT ![p]["map"] = NoRows] ELSE rows
       /\ UNCHANGED clientVars

SwitchTab(p, s) ==
    /\ message[p] = Absent
    /\ tab' = [tab EXCEPT ![p] = s]
    /\ Appear(p, s)
    /\ UNCHANGED <<message, opening, imageCache>>

\* The yaks near enough replace the messages of the screen that asked.
DeliverFetch(p) ==
    /\ FetchCallback(p)
    /\ LET a == Head(answered[p])
       IN  \E near \in SUBSET Docs :
              rows' = [rows EXCEPT ![p][a.req.screen] =
                  [d \in Docs |-> IF d \in near THEN a.snapshot[d] ELSE Absent]]
    /\ UNCHANGED <<tab, message, opening, imageCache>>

-----------------------------------------------------------------------------
(* Opening a message.                                                        *)

\* The copy is taken when the row or the pin is selected.  With its image in
\* the screen's cache the message is presented at once; otherwise the image is
\* downloaded first.
SelectYak(p, d) ==
    /\ d \in Selectable
    /\ message[p] = Absent
    /\ rows[p][tab[p]][d] # Absent
    /\ LET copy == [doc |-> d, value |-> rows[p][tab[p]][d]]
       IN  \/ /\ d \in imageCache[p][tab[p]]
              /\ message' = [message EXCEPT ![p] = copy]
              /\ UNCHANGED opening
           \/ /\ d \notin imageCache[p][tab[p]]
              /\ Cardinality(opening[p]) < MaxOpening
              /\ opening' = [opening EXCEPT ![p] =
                     @ \cup {[screen |-> tab[p], copy |-> copy]}]
              /\ UNCHANGED message
    /\ UNCHANGED <<clientVars, tab, rows, imageCache>>

\* Mutant of ImageArrives: a late image presents over whichever tab is showing.
ImageArrivesAnywhere(p) == \E o \in opening[p] :
    /\ opening' = [opening EXCEPT ![p] = @ \ {o}]
    /\ imageCache' = [imageCache EXCEPT ![p][o.screen] = @ \cup {o.copy.doc}]
    /\ message' = IF message[p] = Absent
                  THEN [message EXCEPT ![p] = o.copy]
                  ELSE message
    /\ UNCHANGED <<clientVars, tab, rows>>

\* The image arrives and is cached.  The message is presented with the copy
\* taken earlier, unless another one is up or the screen is not the one showing.
ImageArrives(p) == \E o \in opening[p] :
    /\ opening' = [opening EXCEPT ![p] = @ \ {o}]
    /\ imageCache' = [imageCache EXCEPT ![p][o.screen] = @ \cup {o.copy.doc}]
    /\ message' = IF message[p] = Absent /\ o.screen = tab[p]
                  THEN [message EXCEPT ![p] = o.copy]
                  ELSE message
    /\ UNCHANGED <<clientVars, tab, rows>>

\* The download fails and its completion is never called.
ImageFails(p) == \E o \in opening[p] :
    /\ opening' = [opening EXCEPT ![p] = @ \ {o}]
    /\ UNCHANGED <<clientVars, tab, rows, message, imageCache>>

CloseMessage(p) ==
    /\ message[p] # Absent
    /\ message' = [message EXCEPT ![p] = Absent]
    /\ Appear(p, tab[p])
    /\ UNCHANGED <<tab, opening, imageCache>>

-----------------------------------------------------------------------------
\* Steps of the screens that touch nothing a component adds to them.
ScreenStep(p) ==
    \/ ListRefresh(p)
    \/ ImageArrives(p)
    \/ ImageFails(p)
    \/ DeliverFetch(p)

\* Steps a presented view of a component may stand in the way of.
NavigationStep(p) ==
    \/ \E s \in Screens : SwitchTab(p, s)
    \/ \E d \in Docs : SelectYak(p, d)
    \/ CloseMessage(p)

StoreStep(p) ==
    /\ Answer(p) \/ Commit(p) \/ Acknowledge(p) \/ Reconnect(p)
    /\ UNCHANGED screenVars

\* The app is terminated and started again: the screens start empty.
RestartScreens(p) ==
    /\ EndProcess(p)
    /\ tab' = [tab EXCEPT ![p] = "list"]
    /\ rows' = [rows EXCEPT ![p] = [s \in Screens |-> NoRows]]
    /\ message' = [message EXCEPT ![p] = Absent]
    /\ opening' = [opening EXCEPT ![p] = {}]
    /\ imageCache' = [imageCache EXCEPT ![p] = [s \in Screens |-> {}]]

-----------------------------------------------------------------------------
\* All values of d that the screens of the phones hold are in S.
ShowsOnly(d, S) == \A p \in Phones :
    /\ \A s \in Screens : rows[p][s][d] \in S \cup {Absent}
    /\ message[p] # Absent /\ message[p].doc = d => message[p].value \in S
    /\ \A o \in opening[p] : o.copy.doc = d => o.copy.value \in S

-----------------------------------------------------------------------------
(* Properties.                                                               *)

\* The message view is never up without its image: whatever downloads were
\* under way, whichever tab they were for and however late they arrive, the
\* screen below a presented message holds the message's image.
MessageHasImage == \A p \in Phones :
    message[p] # Absent => message[p].doc \in imageCache[p][tab[p]]

=============================================================================
