----------------------------- MODULE UploadView -----------------------------
(***************************************************************************)
(* The upload view as one screen: whether it may send (Permission) and what  *)
(* is being written on the picture (Editor).  The two share the view's life: *)
(* each opening is a new controller, without the texts of the last, while    *)
(* the permission and the location outlive it; and the system takes the       *)
(* permission away or gives it back whatever is being edited.                *)
(***************************************************************************)
EXTENDS Permission

CONSTANT MaxFields  \* bound: text fields created

VARIABLES
    fields, active, editing, keyboard, drawing, texting, textButton,
    drawButton, drawColors, textColors, strays, unseen, slipped

Ed == INSTANCE Editor

textVars == <<fields, active, editing, keyboard, drawing, texting, textButton,
              drawButton, drawColors, textColors, strays, unseen, slipped>>
uploadViewVars == <<permissionVars, textVars>>

ViewInit == PermissionInit /\ Ed!Init

\* The next view to open is a new controller.
TextsGone ==
    /\ fields' = <<>> /\ active' = 0 /\ editing' = 0
    /\ keyboard' = FALSE
    /\ drawing' = FALSE /\ texting' = TRUE
    /\ textButton' = TRUE /\ drawButton' = TRUE
    /\ drawColors' = FALSE /\ textColors' = FALSE
    /\ strays' = {} /\ unseen' = {} /\ slipped' = FALSE

\* What happens to the permission, the list and the requests leaves the texts
\* alone, but a view that closes takes them with it.
Around ==
    /\ PermissionNext
    /\ IF front = "editor" /\ front' # "editor"
       THEN TextsGone
       ELSE UNCHANGED textVars

\* Touches and keys reach the view while it is in front.
Edit ==
    /\ front = "editor"
    /\ ~alert
    /\ Ed!Next
    /\ UNCHANGED permissionVars

ViewNext == Around \/ Edit

\* requestLocation ends in a location or an error, however busy the editor is.
ViewFairness ==
    /\ WF_uploadViewVars((ListLocated \/ ListFails) /\ UNCHANGED textVars)
    /\ WF_uploadViewVars((EditorLocated \/ EditorFails) /\ UNCHANGED textVars)

ViewSpec == ViewInit /\ [][ViewNext]_uploadViewVars /\ ViewFairness

-----------------------------------------------------------------------------
(* Properties: those of Permission, and those of Editor under these names.   *)

ViewTypeOK == PermissionTypeOK /\ Ed!TypeOK

\* The buttons fit the mode from opening to closing, whatever the permission does
\* meanwhile: Editor's property, see there.
ColorsFitMode == Ed!ColorsFitMode

\* What is typed stays on the picture and in its place, empty fields go, and a
\* view that cannot send says why: whatever the permission does while a text is
\* being written, and however the writing goes while a location is awaited.
ViewInv ==
    /\ ViewTypeOK
    /\ EditorWaitsForCause
    /\ Ed!TextComesBack
    /\ Ed!TextIsShown
    /\ Ed!EmptyFieldGoes

=============================================================================
