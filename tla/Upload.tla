------------------------------- MODULE Upload -------------------------------
(***************************************************************************)
(* Posting a yak: MessageUploadViewController puts the picture into Storage *)
(* and, when the put has succeeded, adds the document that names it.        *)
(*                                                                         *)
(* The editor is dismissed as soon as the put is started.  It lives on as   *)
(* long as the put's completion holds it, goes on receiving the location    *)
(* requested when Send was tapped, and posts whichever location it has when *)
(* the completion runs.                                                    *)
(***************************************************************************)
EXTENDS Naturals, Sequences, FiniteSets

CONSTANTS
    Editors,    \* bound: the editors a user opens, each with its own picture
    Places,     \* where the phone can be
    Nowhere,    \* no location is known
    Closed      \* no editor is open

ASSUME UploadAssumption == Nowhere \notin Places /\ Closed \notin Editors

VARIABLES
    authorized, \* the app may ask for the location
    fix,        \* locManager.location, what every manager last heard
    open,       \* the editor on the screen
    used,       \* the editors opened so far
    location,   \* location[e]: currentLocation of editor e
    requested,  \* requested[e]: a location was requested and not yet received
    canSend,    \* canSend[e]: the Send button of e is enabled
    puts,       \* puts[e]: the put of e's picture
    bucket,     \* the pictures in Storage
    adds,       \* documents added and not yet acknowledged, kept on disk
    yaks        \* the documents of the collection "Yaks", in order of arrival

phoneVars == <<authorized, fix>>
editorVars == <<open, used, location, requested, canSend>>
cloudVars == <<bucket, adds, yaks>>
vars == <<phoneVars, editorVars, puts, cloudVars>>

\* What becomes of a put: it runs, the backend has accepted or refused it with
\* the completion still to be called, its yak was posted, or it came to nothing.
PutStates == {"none", "running", "accepted", "refused", "posted", "lost"}

Yaks == [image : Editors, location : Places]

TypeOK ==
    /\ authorized \in BOOLEAN
    /\ fix \in Places \cup {Nowhere}
    /\ open \in Editors \cup {Closed}
    /\ used \in SUBSET Editors
    /\ location \in [Editors -> Places \cup {Nowhere}]
    /\ requested \in [Editors -> BOOLEAN]
    /\ canSend \in [Editors -> BOOLEAN]
    /\ puts \in [Editors -> PutStates]
    /\ bucket \in SUBSET Editors
    /\ adds \in Seq(Yaks)
    /\ yaks \in Seq(Yaks)

Init ==
    /\ authorized \in BOOLEAN
    /\ fix = Nowhere
    /\ open = Closed
    /\ used = {}
    /\ location = [e \in Editors |-> Nowhere]
    /\ requested = [e \in Editors |-> FALSE]
    /\ canSend = [e \in Editors |-> FALSE]
    /\ puts = [e \in Editors |-> "none"]
    /\ bucket = {}
    /\ adds = <<>>
    /\ yaks = <<>>

-----------------------------------------------------------------------------
(* The phone.                                                                *)

\* The user answers the prompt; the editor is not told.
Authorize ==
    /\ ~authorized
    /\ authorized' = TRUE
    /\ UNCHANGED <<fix, editorVars, puts, cloudVars>>

\* The phone moves, and another screen's manager hears of it.
Move == \E here \in Places :
    /\ authorized
    /\ fix' = here
    /\ UNCHANGED <<authorized, editorVars, puts, cloudVars>>

-----------------------------------------------------------------------------
(* The editor.                                                               *)

\* Mutant of OpenEditor: Send is enabled from the start.
OpenReady(e) ==
    /\ open = Closed
    /\ e \notin used
    /\ open' = e
    /\ used' = used \cup {e}
    /\ requested' = [requested EXCEPT ![e] = authorized]
    /\ location' = [location EXCEPT ![e] = fix]
    /\ canSend' = [canSend EXCEPT ![e] = TRUE]
    /\ UNCHANGED <<phoneVars, puts, cloudVars>>

\* viewDidLoad: Send is enabled only if a location is known already.
OpenEditor(e) ==
    /\ open = Closed
    /\ e \notin used
    /\ open' = e
    /\ used' = used \cup {e}
    /\ requested' = [requested EXCEPT ![e] = authorized]
    /\ location' = [location EXCEPT ![e] = fix]
    /\ canSend' = [canSend EXCEPT ![e] = fix # Nowhere]
    /\ UNCHANGED <<phoneVars, puts, cloudVars>>

GoBack(e) ==
    /\ open = e
    /\ open' = Closed
    /\ UNCHANGED <<phoneVars, used, location, requested, canSend, puts, cloudVars>>

\* The editor is there while it is on the screen or its put's completion is due.
Alive(e) == open = e \/ puts[e] \in {"running", "accepted", "refused"}

\* didUpdateLocations, and the observer of currentLocation.
LocationArrives(e) == \E here \in Places :
    /\ Alive(e)
    /\ requested[e]
    /\ fix' = here
    /\ location' = [location EXCEPT ![e] = here]
    /\ canSend' = [canSend EXCEPT ![e] = TRUE]
    /\ requested' = [requested EXCEPT ![e] = FALSE]
    /\ UNCHANGED <<authorized, open, used, puts, cloudVars>>

LocationFails(e) ==
    /\ Alive(e)
    /\ requested[e]
    /\ requested' = [requested EXCEPT ![e] = FALSE]
    /\ UNCHANGED <<phoneVars, open, used, location, canSend, puts, cloudVars>>

\* uploadButtonAction: a location is requested, and then the put is started and
\* the editor dismissed, or the picture cannot be written and nothing follows.
Send(e) ==
    /\ open = e
    /\ canSend[e]
    /\ requested' = [requested EXCEPT ![e] = @ \/ authorized]
    /\ \/ /\ puts' = [puts EXCEPT ![e] = "running"]
          /\ open' = Closed
       \/ UNCHANGED <<puts, open>>
    /\ UNCHANGED <<phoneVars, used, location, canSend, cloudVars>>

-----------------------------------------------------------------------------
(* Storage and Firestore.                                                    *)

\* The put reaches Storage.
StoreImage(e) ==
    /\ puts[e] = "running"
    /\ bucket' = bucket \cup {e}
    /\ puts' = [puts EXCEPT ![e] = "accepted"]
    /\ UNCHANGED <<phoneVars, editorVars, adds, yaks>>

\* The put is given up, with or without the picture having been stored.
RefuseImage(e) ==
    /\ puts[e] = "running"
    /\ puts' = [puts EXCEPT ![e] = "refused"]
    /\ bucket' \in {bucket, bucket \cup {e}}
    /\ UNCHANGED <<phoneVars, editorVars, adds, yaks>>

\* Mutant of PutSucceeded: the completion can run again.
PutSucceedsAgain(e) ==
    /\ puts[e] = "accepted"
    /\ adds' = Append(adds, [image |-> e, location |-> location[e]])
    /\ UNCHANGED <<phoneVars, editorVars, puts, bucket, yaks>>

\* The completion of putData: the document is added, with the location the
\* editor has by now.
PutSucceeded(e) ==
    /\ puts[e] = "accepted"
    /\ adds' = Append(adds, [image |-> e, location |-> location[e]])
    /\ puts' = [puts EXCEPT ![e] = "posted"]
    /\ UNCHANGED <<phoneVars, editorVars, bucket, yaks>>

\* Mutant of PutFailed: the error is printed and the document added all the same.
PutFailedPosts(e) ==
    /\ puts[e] = "refused"
    /\ adds' = Append(adds, [image |-> e, location |-> location[e]])
    /\ puts' = [puts EXCEPT ![e] = "posted"]
    /\ UNCHANGED <<phoneVars, editorVars, bucket, yaks>>

\* The completion of putData with an error, which is printed.
PutFailed(e) ==
    /\ puts[e] = "refused"
    /\ puts' = [puts EXCEPT ![e] = "lost"]
    /\ UNCHANGED <<phoneVars, editorVars, cloudVars>>

\* The backend takes the oldest document added.
CommitAdd ==
    /\ adds # <<>>
    /\ yaks' = Append(yaks, Head(adds))
    /\ adds' = Tail(adds)
    /\ UNCHANGED <<phoneVars, editorVars, puts, bucket>>

\* Mutant of Relaunch: the documents added are in memory only.
RelaunchDropsAdds ==
    /\ open' = Closed
    /\ fix' \in {fix, Nowhere}
    /\ puts' = [e \in Editors |->
           IF puts[e] \in {"running", "accepted", "refused"} THEN "lost" ELSE puts[e]]
    /\ adds' = <<>>
    /\ UNCHANGED <<authorized, used, location, requested, canSend, bucket, yaks>>

\* The app is terminated and started again: editors and puts are gone, the
\* documents added are on disk.
Relaunch ==
    /\ open' = Closed
    /\ fix' \in {fix, Nowhere}
    /\ puts' = [e \in Editors |->
           IF puts[e] \in {"running", "accepted", "refused"} THEN "lost" ELSE puts[e]]
    /\ UNCHANGED <<authorized, used, location, requested, canSend, cloudVars>>

Edit(e) ==
    \/ OpenEditor(e)
    \/ GoBack(e)
    \/ LocationArrives(e)
    \/ LocationFails(e)
    \/ Send(e)

Put(e) ==
    \/ StoreImage(e)
    \/ RefuseImage(e)
    \/ PutSucceeded(e)
    \/ PutFailed(e)

Next ==
    \/ Authorize
    \/ Move
    \/ \E e \in Editors : Edit(e) \/ Put(e)
    \/ CommitAdd
    \/ Relaunch

Spec == Init /\ [][Next]_vars

\* putData ends one way or the other, its completion runs, and Firestore retries
\* until the backend has acknowledged.
Fairness ==
    /\ \A e \in Editors : WF_vars(Put(e))
    /\ WF_vars(CommitAdd)

LiveSpec == Spec /\ Fairness

-----------------------------------------------------------------------------
(* Properties.                                                               *)

Documents == {adds[i] : i \in DOMAIN adds} \cup {yaks[i] : i \in DOMAIN yaks}

\* Whatever is lost or comes late, no document names a picture that Storage
\* does not have: every yak the list or the map can show can be opened.
YakHasImage == \A y \in Documents : y.image \in bucket

\* A picture is posted at most once, across failures and relaunches.
OneYakPerImage ==
    /\ \A i, j \in DOMAIN adds : adds[i].image = adds[j].image => i = j
    /\ \A i, j \in DOMAIN yaks : yaks[i].image = yaks[j].image => i = j
    /\ \A i \in DOMAIN adds, j \in DOMAIN yaks : adds[i].image # yaks[j].image

\* A put is never under way without a location to post the yak at: the
\* completion, which unwraps currentLocation, cannot meet nil.
SentWithLocation == \A e \in Editors :
    puts[e] \in {"running", "accepted"} => location[e] # Nowhere

\* What was sent is posted in the end, unless the put fails or the app ends
\* before the completion has run.
SentIsPosted == \A e \in Editors :
    puts[e] = "running"
    ~> puts[e] = "lost" \/ \E i \in DOMAIN yaks : yaks[i].image = e

=============================================================================
