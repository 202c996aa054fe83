----------------------------- MODULE Permission -----------------------------
(***************************************************************************)
(* The permission to use the location, and who learns of it: the list asks  *)
(* for it at launch and puts a prompt over itself when it is told that it   *)
(* is not granted; the editor asks for it and is never told.                *)
(*                                                                         *)
(* One launch.  The system's own alert, up as long as the permission is     *)
(* undetermined, lets no touch through to the app.                          *)
(***************************************************************************)
VARIABLES
    status,     \* CLLocationManager.authorizationStatus()
    told,       \* the list's manager is about to call didChangeAuthorization
    prompt,     \* ModalViewController is presented over the list
    front,      \* the screen in front, under the prompt
    fix,        \* a location is known
    listAsks,   \* the location requested by the list is still to come
    editorAsks, \* the location requested by the editor is still to come
    canSend,    \* the editor's Send button is enabled
    fetched,    \* history: the list has fetched yaks
    failed,     \* history: the list's request failed
    missed,     \* history: the list was told that the permission is missing while
                \* it could present nothing, and has not been told otherwise since
    deaf        \* history: the editor was opened without permission, or its
                \* request failed

listVars == <<listAsks, fetched, failed>>
editorVars == <<editorAsks, canSend, deaf>>
promptVars == <<told, prompt, missed>>
permissionVars == <<status, promptVars, front, fix, listVars, editorVars>>

Statuses == {"undetermined", "denied", "granted"}

\* "other" is any screen but the two: another tab, or a message over the list.
Screens == {"list", "other", "editor"}

Granted == status = "granted"
alert == status = "undetermined"

PermissionTypeOK ==
    /\ status \in Statuses
    /\ told \in BOOLEAN /\ prompt \in BOOLEAN /\ missed \in BOOLEAN
    /\ front \in Screens
    /\ fix \in BOOLEAN
    /\ listAsks \in BOOLEAN /\ fetched \in BOOLEAN /\ failed \in BOOLEAN
    /\ editorAsks \in BOOLEAN /\ canSend \in BOOLEAN /\ deaf \in BOOLEAN
    /\ prompt => front = "list"

\* The list is loaded at launch: it requests a location, and the permission if
\* it is missing; it fetches if a location is known.  A new manager tells its
\* delegate the status.
PermissionInit ==
    /\ status \in Statuses
    /\ told = TRUE /\ prompt = FALSE /\ missed = FALSE
    /\ front = "list"
    /\ fix \in {FALSE, Granted}
    /\ listAsks = TRUE /\ fetched = fix /\ failed = FALSE
    /\ editorAsks = FALSE /\ canSend = FALSE /\ deaf = FALSE

-----------------------------------------------------------------------------
(* The user and the system.                                                  *)

AnswerAlert ==
    /\ alert
    /\ status' \in {"denied", "granted"}
    /\ told' = TRUE
    /\ UNCHANGED <<prompt, missed, front, fix, listVars, editorVars>>

\* In the system's settings, with the app in the background.
Grant ==
    /\ status = "denied"
    /\ status' = "granted"
    /\ told' = TRUE
    /\ UNCHANGED <<prompt, missed, front, fix, listVars, editorVars>>

Revoke ==
    /\ Granted
    /\ status' = "denied"
    /\ told' = TRUE
    /\ fix' = FALSE
    /\ UNCHANGED <<prompt, missed, front, listVars, editorVars>>

-----------------------------------------------------------------------------
(* The prompt.                                                               *)

\* didChangeAuthorization performs the segue to the prompt, which presents
\* nothing while the list is not in front; a grant is not acted upon.
DidChangeAuthorization ==
    /\ told
    /\ told' = FALSE
    /\ prompt' = (prompt \/ (~Granted /\ front = "list"))
    /\ missed' = (~Granted /\ front # "list")
    /\ UNCHANGED <<status, front, fix, listVars, editorVars>>

\* Mutant of ClickWhenComplete: the prompt believes the user.
ClickAndLeave ==
    /\ prompt
    /\ ~alert
    /\ prompt' = FALSE
    /\ UNCHANGED <<status, told, missed, front, fix, listVars, editorVars>>

\* The prompt goes only when the permission is there.  It was laid over the full
\* screen, so the list does not appear again and fetches nothing.
ClickWhenComplete ==
    /\ prompt
    /\ Granted
    /\ prompt' = FALSE
    /\ UNCHANGED <<status, told, missed, front, fix, listVars, editorVars>>

-----------------------------------------------------------------------------
(* The list.                                                                 *)

\* Mutant of ListLocated: the location is kept, and nothing fetched.
ListKeepsLocation ==
    /\ listAsks
    /\ Granted
    /\ listAsks' = FALSE
    /\ fix' = TRUE
    /\ UNCHANGED <<status, promptVars, front, fetched, failed, editorVars>>

\* didUpdateLocations fetches.
ListLocated ==
    /\ listAsks
    /\ Granted
    /\ listAsks' = FALSE
    /\ fix' = TRUE
    /\ fetched' = TRUE
    /\ UNCHANGED <<status, promptVars, front, failed, editorVars>>

\* didFailWithError returns.
ListFails ==
    /\ listAsks
    /\ listAsks' = FALSE
    /\ failed' = TRUE
    /\ UNCHANGED <<status, promptVars, front, fix, fetched, editorVars>>

\* checkForNewYaks: pulling the list, or coming back to it.
CheckForNewYaks ==
    /\ ~alert
    /\ \/ front = "list" /\ ~prompt
       \/ front = "other"
    /\ front' = "list"
    /\ fetched' = (fetched \/ fix)
    /\ UNCHANGED <<status, promptVars, fix, listAsks, failed, editorVars>>

LeaveList ==
    /\ ~alert
    /\ front = "list" /\ ~prompt
    /\ front' = "other"
    /\ UNCHANGED <<status, promptVars, fix, listVars, editorVars>>

-----------------------------------------------------------------------------
(* The editor.                                                               *)

\* Mutant of OpenEditor: the two branches on the status are swapped.
OpenEditorSwapped ==
    /\ ~alert
    /\ front = "other"
    /\ front' = "editor"
    /\ editorAsks' = ~Granted
    /\ deaf' = ~Granted
    /\ canSend' = fix
    /\ UNCHANGED <<status, promptVars, fix, listVars>>

\* viewDidLoad: a location is requested if the permission is there; otherwise
\* only the permission is, which the system ignores once it is determined.
OpenEditor ==
    /\ ~alert
    /\ front = "other"
    /\ front' = "editor"
    /\ editorAsks' = Granted
    /\ deaf' = ~Granted
    /\ canSend' = fix
    /\ UNCHANGED <<status, promptVars, fix, listVars>>

\* didUpdateLocations and the observer of currentLocation.
EditorLocated ==
    /\ editorAsks
    /\ Granted
    /\ editorAsks' = FALSE
    /\ fix' = TRUE
    /\ canSend' = TRUE
    /\ UNCHANGED <<status, promptVars, front, listVars, deaf>>

\* didFailWithError prints.
EditorFails ==
    /\ editorAsks
    /\ editorAsks' = FALSE
    /\ deaf' = TRUE
    /\ UNCHANGED <<status, promptVars, front, fix, listVars, canSend>>

LeaveEditor ==
    /\ ~alert
    /\ front = "editor"
    /\ front' = "other"
    /\ editorAsks' = FALSE /\ canSend' = FALSE /\ deaf' = FALSE
    /\ UNCHANGED <<status, promptVars, fix, listVars>>

PermissionNext ==
    \/ AnswerAlert \/ Grant \/ Revoke
    \/ DidChangeAuthorization \/ ClickWhenComplete
    \/ ListLocated \/ ListFails \/ CheckForNewYaks \/ LeaveList
    \/ OpenEditor \/ EditorLocated \/ EditorFails \/ LeaveEditor

PermissionSpec == PermissionInit /\ [][PermissionNext]_permissionVars

-----------------------------------------------------------------------------
(* Properties.                                                               *)

\* Whoever uses the list without the permission was on another screen when it
\* was taken away: otherwise the prompt is up, and stays until it is granted.
PromptGuardsList ==
    front = "list" /\ ~prompt /\ ~told /\ ~Granted => missed

\* An editor that cannot send and waits for nothing was opened without the
\* permission or met an error.  (It will not send however long it stays open, and
\* whatever is granted meanwhile: nothing tells it.)
EditorWaitsForCause ==
    front = "editor" /\ ~canSend /\ ~editorAsks => deaf

\* Every editor opened with the permission comes to send, unless its request fails
\* or it is closed first.
EditorComesToSend == front = "editor" ~> canSend \/ deaf \/ front # "editor"

\* The list fetches at launch, unless its request for a location fails; it then
\* stays as it is until it is pulled or left, also when the permission is given.
ListFetches == <>(fetched \/ failed)

=============================================================================
