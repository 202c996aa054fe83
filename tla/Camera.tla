------------------------------- MODULE Camera -------------------------------
(***************************************************************************)
(* The camera tab: CameraController prepares a capture session on a queue   *)
(* of its own, switches between the cameras and takes photos; the view      *)
(* controller turns each photo into an editor.                              *)
(*                                                                         *)
(* Three threads take part: the main queue (buttons, completions), the      *)
(* queue "prepare", and the queue on which the photo output calls its       *)
(* delegate.  An action with "idle" in its guard runs on the main queue.    *)
(***************************************************************************)
EXTENDS Integers, Sequences, SequencesExt

CONSTANTS
    NoCamera,    \* no position is set yet
    NoEditor,    \* no editor is presented
    MaxPhotos,   \* bound: photos under way at once
    MaxFailures  \* bound: switches that fail

ASSUME CameraAssumption == MaxPhotos \in Nat /\ MaxFailures \in Nat

VARIABLES
    has,        \* the cameras of the device
    prep,       \* what prepare does next
    found,      \* the cameras kept in frontCamera and rearCamera
    inputs,     \* the cameras whose inputs captureSession.inputs lists
    wired,      \* the session has the photo output
    position,   \* currentCameraPosition
    running,    \* captureSession.isRunning
    depth,      \* beginConfigurations without their commit
    live,       \* the inputs in effect, those of the last configuration committed
    preview,    \* the preview layer is in the view
    aimed,      \* the rear camera's focus is at a point the user touched
    asking,     \* the main queue is inside captureImage, after capturePhoto
    slot,       \* photoCaptureCompletion is set
    photos,     \* photos asked of the output and not yet delivered
    tab,        \* the tab selected
    barHidden,  \* the tab bar is hidden
    editor,     \* the picture the editor on the screen was given
    crashed,    \* the photo output raised an exception
    refused,    \* history: the session refused an input or output of prepare
    paused      \* history: the session was interrupted

sessionVars == <<inputs, wired, position, running, depth, live>>
photoVars == <<asking, slot, photos>>
viewVars == <<tab, barHidden, editor>>
historyVars == <<refused, paused>>
vars == <<has, prep, found, sessionVars, preview, aimed, photoVars, viewVars,
          crashed, historyVars>>

Cameras == {"front", "rear"}
Other(c) == IF c = "front" THEN "rear" ELSE "front"

Steps == {"unloaded", "devices", "inputs", "output", "start",
          "started", "failed", "ready", "reported"}

\* A photo under way: the camera that took it, and two facts about its history:
\* the cameras were switched since it was asked for; a switch had failed before.
Photos == [camera : Cameras, switched : BOOLEAN, spoiled : BOOLEAN]

\* What an editor is given: the photo, turned into its mirror image or not.
Pictures == [photo : Photos, mirrored : BOOLEAN]

TypeOK ==
    /\ has \in SUBSET Cameras
    /\ prep \in Steps
    /\ found \in SUBSET Cameras
    /\ inputs \in SUBSET Cameras
    /\ wired \in BOOLEAN
    /\ position \in Cameras \cup {NoCamera}
    /\ running \in BOOLEAN
    /\ depth \in Nat
    /\ live \in SUBSET Cameras
    /\ preview \in BOOLEAN
    /\ aimed \in BOOLEAN
    /\ asking \in BOOLEAN
    /\ slot \in BOOLEAN
    /\ photos \in Seq(Photos)
    /\ tab \in {"camera", "other"}
    /\ barHidden \in BOOLEAN
    /\ editor \in Pictures \cup {NoEditor}
    /\ crashed \in BOOLEAN
    /\ refused \in BOOLEAN
    /\ paused \in BOOLEAN

Init ==
    /\ has \in SUBSET Cameras
    /\ prep = "unloaded"
    /\ found = {}
    /\ inputs = {}
    /\ wired = FALSE
    /\ position = NoCamera
    /\ running = FALSE
    /\ depth = 0
    /\ live = {}
    /\ preview = FALSE
    /\ aimed = FALSE
    /\ asking = FALSE
    /\ slot = FALSE
    /\ photos = <<>>
    /\ tab = "other"
    /\ barHidden = FALSE
    /\ editor = NoEditor
    /\ crashed = FALSE
    /\ refused = FALSE
    /\ paused = FALSE

idle == ~asking /\ ~crashed
InFront == idle /\ tab = "camera" /\ editor = NoEditor

-----------------------------------------------------------------------------
(* prepare, on its own queue.                                                *)

\* createCaptureSession and configureCaptureDevices.  The rear camera is kept
\* before it is locked for its focus mode, which may throw.
FindDevices ==
    /\ ~crashed
    /\ prep = "devices"
    /\ \/ has # {} /\ found' = has /\ prep' = "inputs"
       \/ has = {} /\ prep' = "failed" /\ UNCHANGED found
       \/ \E some \in SUBSET has :
              "rear" \in some /\ found' = some /\ prep' = "failed"
    /\ UNCHANGED <<has, sessionVars, preview, aimed, photoVars, viewVars,
                   crashed, historyVars>>

Preferred == IF "rear" \in found THEN "rear" ELSE "front"

\* Mutant of AddInputs: the position is the rear one whichever camera there is.
AddInputsAsRear ==
    /\ ~crashed
    /\ prep = "inputs"
    /\ \/ /\ prep' = "failed"
          /\ UNCHANGED <<inputs, position, refused>>
       \/ /\ prep' = "output"
          /\ inputs' = {Preferred}
          /\ position' = "rear"
          /\ UNCHANGED refused
    /\ UNCHANGED <<has, found, wired, running, depth, live, preview, aimed,
                   photoVars, viewVars, crashed, paused>>

\* configureDeviceInputs: a device that cannot be opened throws, and so does a
\* front camera the session refuses; a refused rear camera goes unnoticed.
AddInputs ==
    /\ ~crashed
    /\ prep = "inputs"
    /\ \/ /\ prep' = "failed"
          /\ UNCHANGED <<inputs, position, refused>>
       \/ /\ prep' = "output"
          /\ inputs' = {Preferred}
          /\ position' = Preferred
          /\ UNCHANGED refused
       \/ /\ prep' = "output"
          /\ Preferred = "rear"
          /\ position' = "rear"
          /\ refused' = TRUE
          /\ UNCHANGED inputs
    /\ UNCHANGED <<has, found, wired, running, depth, live, preview, aimed,
                   photoVars, viewVars, crashed, paused>>

\* configurePhotoOutput up to startRunning; a refused output goes unnoticed.
AddOutput ==
    /\ ~crashed
    /\ prep = "output"
    /\ prep' = "start"
    /\ \/ wired' = TRUE /\ UNCHANGED refused
       \/ refused' = TRUE /\ UNCHANGED wired
    /\ UNCHANGED <<has, found, inputs, position, running, depth, live, preview,
                   aimed, photoVars, viewVars, crashed, paused>>

\* Mutant of StartRunning: the session is started before its output is added.
StartEarly ==
    /\ ~crashed
    /\ prep \in {"output", "start"}
    /\ ~running
    /\ running' = TRUE
    /\ live' = inputs
    /\ prep' = IF prep = "start" THEN "started" ELSE prep
    /\ UNCHANGED <<has, found, inputs, wired, position, depth, preview, aimed,
                   photoVars, viewVars, crashed, historyVars>>

StartRunning ==
    /\ ~crashed
    /\ prep = "start"
    /\ prep' = "started"
    /\ running' = TRUE
    /\ live' = inputs
    /\ UNCHANGED <<has, found, inputs, wired, position, depth, preview, aimed,
                   photoVars, viewVars, crashed, historyVars>>

\* Mutant of PrepareEnds: the completion is called for an error only.
PrepareEndsOnError ==
    /\ idle
    /\ prep = "failed"
    /\ prep' = "reported"
    /\ preview' = running
    /\ UNCHANGED <<has, found, sessionVars, aimed, photoVars, viewVars,
                   crashed, historyVars>>

\* The completion, on the main queue: the error is printed, and the preview is
\* displayed if the session runs.
PrepareEnds ==
    /\ idle
    /\ \/ prep = "started" /\ prep' = "ready"
       \/ prep = "failed" /\ prep' = "reported"
    /\ preview' = running
    /\ UNCHANGED <<has, found, sessionVars, aimed, photoVars, viewVars,
                   crashed, historyVars>>

-----------------------------------------------------------------------------
(* The session, from outside: a call, or another app, takes the camera.      *)

Interrupt ==
    /\ ~crashed
    /\ running
    /\ running' = FALSE
    /\ paused' = TRUE
    /\ UNCHANGED <<has, prep, found, inputs, wired, position, depth, live,
                   preview, aimed, photoVars, viewVars, crashed, refused>>

Resume ==
    /\ ~crashed
    /\ prep \in {"started", "ready"}
    /\ ~running
    /\ running' = TRUE
    /\ UNCHANGED <<has, prep, found, inputs, wired, position, depth, live,
                   preview, aimed, photoVars, viewVars, crashed, historyVars>>

-----------------------------------------------------------------------------
(* Switching cameras.                                                        *)

\* The photos under way when the cameras are switched.
Switched == [i \in DOMAIN photos |-> [photos[i] EXCEPT !.switched = TRUE]]

\* What both directions ask before they touch the session.
MaySwitch(old) == old \in inputs /\ Other(old) \in found

\* Mutant of SwitchCameras: the position is set before the session has taken the
\* other camera.
SwitchCarelessly ==
    /\ InFront
    /\ running
    /\ position # NoCamera
    /\ position' = Other(position)
    /\ \/ /\ MaySwitch(position)
          /\ inputs' = (inputs \ {position}) \cup {Other(position)}
          /\ live' = IF depth = 0 THEN inputs' ELSE live
          /\ photos' = Switched
       \/ UNCHANGED <<inputs, live, photos>>
    /\ UNCHANGED <<has, prep, found, wired, running, depth, preview, aimed,
                   asking, slot, viewVars, crashed, historyVars>>

\* switchCameras: the configuration is opened first.  It is committed when the
\* other camera's input has taken the place of the one in use, and stays open
\* when anything throws: a camera is missing or cannot be opened, or the session
\* refuses the input, the old one being gone by then.
SwitchCameras ==
    /\ InFront
    /\ running
    /\ position # NoCamera
    /\ \/ /\ MaySwitch(position)
          /\ inputs' = (inputs \ {position}) \cup {Other(position)}
          /\ position' = Other(position)
          /\ live' = IF depth = 0 THEN inputs' ELSE live
          /\ photos' = Switched
          /\ UNCHANGED depth
       \/ /\ depth < MaxFailures
          /\ depth' = depth + 1
          /\ inputs' \in {inputs} \cup
                 {inputs \ {c} : c \in {d \in {position} : MaySwitch(d)}}
          /\ UNCHANGED <<position, live, photos>>
    /\ UNCHANGED <<has, prep, found, wired, running, preview, aimed, asking,
                   slot, viewVars, crashed, historyVars>>

-----------------------------------------------------------------------------
(* Taking photos.                                                            *)

\* captureImage up to capturePhoto, which raises an exception when the output
\* has no connection to a camera.
CapturePhoto ==
    /\ InFront
    /\ running
    /\ \/ /\ wired
          /\ Len(photos) < MaxPhotos
          /\ \E c \in live : photos' =
                 Append(photos, [camera |-> c, switched |-> FALSE, spoiled |-> depth > 0])
          /\ asking' = TRUE
          /\ UNCHANGED crashed
       \/ /\ ~wired \/ live = {}
          /\ crashed' = TRUE
          /\ UNCHANGED <<photos, asking>>
    /\ UNCHANGED <<has, prep, found, sessionVars, preview, aimed, slot,
                   viewVars, historyVars>>

\* The rest of captureImage.  All completions do the same: only whether there is
\* one matters.
SetCompletion ==
    /\ asking
    /\ asking' = FALSE
    /\ slot' = TRUE
    /\ UNCHANGED <<has, prep, found, sessionVars, preview, aimed, photos,
                   viewVars, crashed, historyVars>>

\* The mirroring is decided by the position of this moment, not of the photo's.
Develop(photo) == [photo |-> photo, mirrored |-> position = "front"]

\* Mutant of PhotoOutput: the newest photo takes the place of the one in the
\* editor.
PhotoReplaces(i) ==
    /\ ~crashed
    /\ photos' = RemoveAt(photos, i)
    /\ \/ slot /\ tab = "camera" /\ editor' = Develop(photos[i])
       \/ UNCHANGED editor
    /\ UNCHANGED <<has, prep, found, sessionVars, preview, aimed, asking, slot,
                   tab, barHidden, crashed, historyVars>>

\* The delegate's callback for a photo, on the queue of the output: an error is
\* printed; a photo is developed and an editor presented, which UIKit refuses
\* when an editor is up already or the camera is not the tab shown.
PhotoOutput(i) ==
    /\ ~crashed
    /\ photos' = RemoveAt(photos, i)
    /\ \/ /\ slot /\ tab = "camera" /\ editor = NoEditor
          /\ editor' = Develop(photos[i])
       \/ UNCHANGED editor
    /\ UNCHANGED <<has, prep, found, sessionVars, preview, aimed, asking, slot,
                   tab, barHidden, crashed, historyVars>>

-----------------------------------------------------------------------------
(* The view controller.                                                      *)

\* The first visit loads the view, which starts prepare.
ToCamera ==
    /\ idle
    /\ tab = "other"
    /\ tab' = "camera"
    /\ barHidden' = TRUE
    /\ prep' = IF prep = "unloaded" THEN "devices" ELSE prep
    /\ UNCHANGED <<has, found, sessionVars, preview, aimed, photoVars, editor,
                   crashed, historyVars>>

\* toListViewAction and toMapViewAction.
LeaveCamera ==
    /\ InFront
    /\ tab' = "other"
    /\ barHidden' = FALSE
    /\ UNCHANGED <<has, prep, found, sessionVars, preview, aimed, photoVars,
                   editor, crashed, historyVars>>

\* The editor goes back or has sent; the camera is about to appear again.
CloseEditor ==
    /\ idle
    /\ editor # NoEditor
    /\ editor' = NoEditor
    /\ barHidden' = TRUE
    /\ UNCHANGED <<has, prep, found, sessionVars, preview, aimed, photoVars,
                   tab, crashed, historyVars>>

\* touchesBegan: the rear camera is focused, whichever is in use, if it can be
\* locked.
Focus ==
    /\ InFront
    /\ "rear" \in found
    /\ aimed' = TRUE
    /\ UNCHANGED <<has, prep, found, sessionVars, preview, photoVars, viewVars,
                   crashed, historyVars>>

PrepareQueue == FindDevices \/ AddInputs \/ AddOutput \/ StartRunning
OutputQueue == \E i \in DOMAIN photos : PhotoOutput(i)
Buttons ==
    \/ SwitchCameras
    \/ CapturePhoto
    \/ ToCamera
    \/ LeaveCamera
    \/ CloseEditor
    \/ Focus

Next ==
    \/ PrepareQueue
    \/ PrepareEnds
    \/ Interrupt
    \/ Resume
    \/ SetCompletion
    \/ OutputQueue
    \/ Buttons

Spec == Init /\ [][Next]_vars

\* What is queued runs: prepare, the rest of captureImage, and the completion,
\* which the main queue reaches however many touches come in between.
Fairness ==
    /\ WF_vars(PrepareQueue)
    /\ SF_vars(PrepareEnds)
    /\ WF_vars(SetCompletion)

LiveSpec == Spec /\ Fairness

-----------------------------------------------------------------------------
(* Properties.                                                               *)

\* As long as no switch has failed, the camera in use is the one the position
\* names, and its input is the session's only one.
LiveIsPosition ==
    running /\ depth = 0 /\ ~refused => inputs = {position} /\ live = {position}

\* The buttons are live while prepare is at work on another queue; isRunning,
\* which they all ask, is seen only when the input and the output are there.
\* So neither an early touch nor a failed switch nor an interruption leads to a
\* photo being asked of an unconnected output, the exception that ends the app:
\* only an input or output refused to prepare, which configureDeviceInputs and
\* configurePhotoOutput pass over, can.
CrashHasCause == crashed => refused

\* A switch that fails leaves its configuration open, and no later one takes
\* effect: the camera in use stays the same for the rest of the launch, whatever
\* the position says.
FrozenByFailure == [][depth > 0 => live' = live]_vars

\* A picture is mirrored exactly when the front camera took it, although the
\* position is asked only when the photo arrives, unless the cameras were
\* switched in between or a switch had failed before.
MirroredIfFront == editor # NoEditor =>
    \/ editor.mirrored <=> editor.photo.camera = "front"
    \/ editor.photo.switched
    \/ editor.photo.spoiled

\* A photo that arrives while the editor is up never changes its picture.
EditorKeepsPicture ==
    [][editor # NoEditor => editor' \in {editor, NoEditor}]_vars

\* The tab bar, the only way to Settings and between the other tabs, is hidden
\* exactly while the camera is selected, whenever and wherever an editor closes.
BarFitsTab == barHidden <=> tab = "camera"

\* A camera that was opened gets its preview, unless prepare failed and said so,
\* the app ended, or an interruption fell between.
PreviewFollows == prep = "devices" ~> preview \/ prep = "reported" \/ paused \/ crashed

=============================================================================
