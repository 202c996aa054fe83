--------------------------- MODULE CaptureProofs ----------------------------
(***************************************************************************)
(* Proofs about the two screens a yak is made on: about Camera, for any      *)
(* number of photos under way and of switches that fail, and any device, and *)
(* about UploadView, for any number of text fields.                          *)
(***************************************************************************)
EXTENDS Camera, UploadView, SequenceTheorems, TLAPS

-----------------------------------------------------------------------------
(* Photos under way.                                                         *)

\* What is left when one element is removed is still a sequence, of elements
\* that were there.
LEMMA RemoveAtType ==
    ASSUME NEW T, NEW s \in Seq(T), NEW i \in DOMAIN s
    PROVE  /\ RemoveAt(s, i) \in Seq(T)
           /\ \A k \in DOMAIN RemoveAt(s, i) : \E j \in DOMAIN s : RemoveAt(s, i)[k] = s[j]
<1> DEFINE a == SubSeq(s, 1, i - 1)
           b == SubSeq(s, i + 1, Len(s))
<1>1. Len(s) \in Nat /\ DOMAIN s = 1 .. Len(s) /\ i \in 1 .. Len(s)
  OBVIOUS
<1>2. /\ a \in Seq(T) /\ Len(a) = i - 1
      /\ \A k \in 1 .. i - 1 : a[k] = s[k]
  BY <1>1
<1>3. /\ b \in Seq(T) /\ Len(b) = Len(s) - i
      /\ \A k \in 1 .. Len(s) - i : b[k] = s[k + i]
  BY <1>1
<1>4. RemoveAt(s, i) = a \o b
  BY <1>1 DEF RemoveAt
<1> HIDE DEF a, b
<1>5. a \o b \in Seq(T) /\ Len(a \o b) = Len(s) - 1
  <2>1. a \o b \in Seq(T) /\ Len(a \o b) = Len(a) + Len(b)
    BY <1>2, <1>3, ConcatProperties
  <2> QED
    BY <1>1, <1>2, <1>3, <2>1
<1>6. ASSUME NEW k \in 1 .. Len(s) - 1 PROVE \E j \in 1 .. Len(s) : (a \o b)[k] = s[j]
  <2>1. CASE k \in 1 .. i - 1
    <3>1. (a \o b)[k] = s[k] /\ k \in 1 .. Len(s)
      BY <1>1, <1>2, <1>3, <2>1
    <3> QED
      BY <3>1
  <2>2. CASE k \notin 1 .. i - 1
    <3>1. k - (i - 1) \in 1 .. Len(s) - i
      BY <1>1, <1>6, <2>2
    <3>2. (a \o b)[k] = b[k - (i - 1)]
      BY <1>1, <1>2, <1>3, <1>6, <2>2
    <3>3. (a \o b)[k] = s[k + 1] /\ k + 1 \in 1 .. Len(s)
      BY <1>1, <1>3, <1>6, <3>1, <3>2
    <3> QED
      BY <3>3
  <2> QED
    BY <2>1, <2>2
<1>7. DOMAIN (a \o b) = 1 .. Len(s) - 1
  BY <1>5
<1>8. \A k \in DOMAIN (a \o b) : \E j \in DOMAIN s : (a \o b)[k] = s[j]
  BY <1>1, <1>6, <1>7
<1> QED
  BY <1>4, <1>5, <1>8

LEMMA SwitchedType ==
    ASSUME photos \in Seq(Photos)
    PROVE  /\ Switched \in Seq(Photos) /\ DOMAIN Switched = DOMAIN photos
           /\ \A i \in DOMAIN photos : Switched[i].switched
<1>1. \A i \in DOMAIN photos : photos[i] \in Photos
  OBVIOUS
<1>2. \A i \in DOMAIN photos :
        [photos[i] EXCEPT !.switched = TRUE] \in Photos /\
        [photos[i] EXCEPT !.switched = TRUE].switched
  BY <1>1 DEF Photos
<1>3. DOMAIN photos = 1 .. Len(photos) /\ Len(photos) \in Nat
  OBVIOUS
<1>4. Switched \in [1 .. Len(photos) -> Photos]
  BY <1>2, <1>3 DEF Switched
<1>5. Switched \in Seq(Photos)
  BY <1>3, <1>4
<1> QED
  BY <1>2, <1>3, <1>4, <1>5 DEF Switched

-----------------------------------------------------------------------------
(* Type correctness.                                                         *)

LEMMA OtherType == \A c \in Cameras : Other(c) \in Cameras /\ Other(c) # c
BY DEF Cameras, Other

\* TypeOK is inductive.
LEMMA TypeStep == TypeOK /\ [Next]_vars => TypeOK'
<1> SUFFICES ASSUME TypeOK, [Next]_vars PROVE TypeOK'
  OBVIOUS
<1> USE DEF sessionVars, photoVars, viewVars, historyVars
<1>1. CASE UNCHANGED vars
  BY <1>1 DEF TypeOK, vars
<1>2. CASE FindDevices
  <2>1. prep' \in Steps
    BY <1>2 DEF FindDevices, Steps
  <2>2. found' \in SUBSET Cameras
    BY <1>2 DEF FindDevices, TypeOK
  <2> QED
    BY <1>2, <2>1, <2>2 DEF FindDevices, TypeOK
<1>3. CASE AddInputs
  <2>1. prep' \in Steps
    BY <1>3 DEF AddInputs, Steps
  <2>2. Preferred \in Cameras
    BY DEF Preferred, Cameras
  <2>3. inputs' \in SUBSET Cameras /\ position' \in Cameras \cup {NoCamera}
    BY <1>3, <2>2 DEF AddInputs, TypeOK
  <2>4. refused' \in BOOLEAN
    BY <1>3 DEF AddInputs, TypeOK
  <2> QED
    BY <1>3, <2>1, <2>3, <2>4 DEF AddInputs, TypeOK
<1>4. CASE AddOutput
  <2>1. prep' \in Steps
    BY <1>4 DEF AddOutput, Steps
  <2>2. wired' \in BOOLEAN /\ refused' \in BOOLEAN
    BY <1>4 DEF AddOutput, TypeOK
  <2> QED
    BY <1>4, <2>1, <2>2 DEF AddOutput, TypeOK
<1>5. CASE StartRunning
  BY <1>5 DEF StartRunning, TypeOK, Steps
<1>6. CASE PrepareEnds
  BY <1>6 DEF PrepareEnds, TypeOK, Steps
<1>7. CASE Interrupt
  BY <1>7 DEF Interrupt, TypeOK
<1>8. CASE Resume
  BY <1>8 DEF Resume, TypeOK
<1>9. CASE SetCompletion
  BY <1>9 DEF SetCompletion, TypeOK
<1>10. CASE SwitchCameras
  <2>1. position \in Cameras /\ Other(position) \in Cameras
    BY <1>10, OtherType DEF SwitchCameras, TypeOK
  <2>2. inputs' \in SUBSET Cameras /\ position' \in Cameras /\ live' \in SUBSET Cameras
    BY <1>10, <2>1 DEF SwitchCameras, TypeOK
  <2>3. depth' \in Nat
    BY <1>10 DEF SwitchCameras, TypeOK
  <2>4. photos' \in Seq(Photos)
    BY <1>10, SwitchedType DEF SwitchCameras, TypeOK
  <2> QED
    BY <1>10, <2>2, <2>3, <2>4 DEF SwitchCameras, TypeOK
<1>11. CASE CapturePhoto
  <2>1. photos' \in Seq(Photos)
    <3>1. ASSUME NEW c \in live,
                 photos' = Append(photos, [camera |-> c, switched |-> FALSE,
                                           spoiled |-> depth > 0])
          PROVE  photos' \in Seq(Photos)
      <4>1. [camera |-> c, switched |-> FALSE, spoiled |-> depth > 0] \in Photos
        BY DEF TypeOK, Photos
      <4> QED
        BY <3>1, <4>1 DEF TypeOK
    <3>2. CASE photos' = photos
      BY <3>2 DEF TypeOK
    <3> QED
      BY <1>11, <3>1, <3>2 DEF CapturePhoto
  <2>2. asking' \in BOOLEAN /\ crashed' \in BOOLEAN
    BY <1>11 DEF CapturePhoto, TypeOK
  <2> QED
    BY <1>11, <2>1, <2>2 DEF CapturePhoto, TypeOK
<1>12. ASSUME NEW i \in DOMAIN photos, PhotoOutput(i) PROVE TypeOK'
  <2>1. photos' \in Seq(Photos)
    BY <1>12, RemoveAtType DEF PhotoOutput, TypeOK
  <2>2. photos[i] \in Photos
    BY DEF TypeOK
  <2>3. Develop(photos[i]) \in Pictures
    BY <2>2 DEF Develop, Pictures
  <2> QED
    BY <1>12, <2>1, <2>3 DEF PhotoOutput, TypeOK
<1>13. CASE ToCamera
  BY <1>13 DEF ToCamera, TypeOK, Steps
<1>14. CASE LeaveCamera
  BY <1>14 DEF LeaveCamera, TypeOK
<1>15. CASE CloseEditor
  BY <1>15 DEF CloseEditor, TypeOK
<1>16. CASE Focus
  BY <1>16 DEF Focus, TypeOK
<1> QED
  BY <1>1, <1>2, <1>3, <1>4, <1>5, <1>6, <1>7, <1>8, <1>9, <1>10, <1>11, <1>12, <1>13,
     <1>14, <1>15, <1>16 DEF Next, PrepareQueue, OutputQueue, Buttons

LEMMA TypeInit == Init => TypeOK
<1> SUFFICES ASSUME Init PROVE TypeOK
  OBVIOUS
<1>1. photos \in Seq(Photos)
  BY DEF Init
<1>2. prep \in Steps
  BY DEF Init, Steps
<1>3. editor \in Pictures \cup {NoEditor} /\ position \in Cameras \cup {NoCamera}
  BY DEF Init
<1> QED
  BY <1>1, <1>2, <1>3 DEF Init, TypeOK

\* Every variable of the camera stays in its type, for any number of photos
\* under way.
THEOREM TypeCorrect == Spec => []TypeOK
BY TypeInit, TypeStep, PTL DEF Spec

-----------------------------------------------------------------------------
(* The session.                                                              *)

Idle == {"unloaded", "devices", "inputs", "failed", "reported"}
Ready == {"started", "ready"}

\* Before startRunning nobody but prepare touches the session, since every
\* button asks isRunning first.
Untouched ==
    /\ prep \notin Ready => ~running /\ live = {} /\ depth = 0 /\ photos = <<>> /\ ~crashed
    /\ prep \in {"unloaded", "devices", "inputs"} => inputs = {} /\ position = NoCamera

\* From then on the session has no input but the position's, while no switch
\* has failed, and what was refused it never gets.
Wired ==
    /\ depth = 0 => inputs \subseteq {position} /\ live \subseteq {position}
    /\ prep \in {"output", "start"} \cup Ready /\ ~refused =>
          position \in Cameras /\ (depth = 0 => inputs = {position})
    /\ prep \in {"start"} \cup Ready /\ ~refused => wired
    /\ prep \in Ready /\ ~refused => live # {} /\ (depth = 0 => live = {position})

SessionInv == Untouched /\ Wired

\* SwitchCameras, with the one way it can succeed.
LEMMA SwitchIs ==
    ASSUME TypeOK, SessionInv, SwitchCameras
    PROVE  /\ prep \in Ready /\ prep' = prep
           /\ UNCHANGED <<wired, running, refused, crashed>>
           /\ \/ /\ depth' = depth /\ position' = Other(position)
                 /\ depth = 0 => inputs' = {position'} /\ live' = {position'}
                 /\ depth # 0 => live' = live
                 /\ position \in inputs
                 /\ photos' = Switched
              \/ /\ depth' = depth + 1 /\ position' = position
                 /\ inputs' \subseteq inputs /\ live' = live /\ photos' = photos
<1>1. prep \in Ready
  BY DEF SwitchCameras, SessionInv, Untouched
<1>2. UNCHANGED <<prep, wired, running, refused, crashed>>
  BY DEF SwitchCameras, historyVars
<1>3. CASE /\ MaySwitch(position)
           /\ inputs' = (inputs \ {position}) \cup {Other(position)}
           /\ position' = Other(position)
           /\ live' = IF depth = 0 THEN inputs' ELSE live
           /\ photos' = Switched /\ UNCHANGED depth
  <2>1. depth = 0 => inputs' = {position'} /\ live' = {position'}
    BY <1>3 DEF SessionInv, Wired
  <2> QED
    BY <1>1, <1>2, <1>3, <2>1 DEF MaySwitch
<1>4. CASE /\ depth' = depth + 1
           /\ inputs' \in {inputs} \cup {inputs \ {c} : c \in {d \in {position} : MaySwitch(d)}}
           /\ UNCHANGED <<position, live, photos>>
  <2>1. inputs' \subseteq inputs
    BY <1>4
  <2> QED
    BY <1>1, <1>2, <1>4, <2>1
<1> QED
  BY <1>3, <1>4 DEF SwitchCameras

LEMMA SwitchKeepsSession ==
    ASSUME TypeOK, SessionInv, SwitchCameras
    PROVE  SessionInv'
<1>1. prep \in Ready /\ prep' = prep /\ UNCHANGED <<wired, running, refused, crashed>>
  BY SwitchIs
<1>2. Untouched'
  BY <1>1 DEF Untouched, Ready
<1>3. CASE /\ depth' = depth /\ position' = Other(position)
           /\ depth = 0 => inputs' = {position'} /\ live' = {position'}
           /\ depth # 0 => live' = live
  <2>1. ~refused => position' \in Cameras
    BY <1>1, <1>3, OtherType DEF SessionInv, Wired
  <2>2. ~refused => live' # {}
    BY <1>1, <1>3 DEF SessionInv, Wired
  <2>3. depth' = 0 => inputs' = {position'} /\ live' = {position'}
    BY <1>3
  <2>4. ~refused => wired'
    BY <1>1 DEF SessionInv, Wired
  <2> QED
    BY <1>1, <1>2, <2>1, <2>2, <2>3, <2>4 DEF SessionInv, Wired
<1>4. CASE depth' = depth + 1 /\ position' = position /\ live' = live
  <2>1. depth' # 0
    BY <1>4 DEF TypeOK
  <2> QED
    BY <1>1, <1>2, <1>4, <2>1 DEF SessionInv, Wired
<1> QED
  BY <1>3, <1>4, SwitchIs

LEMMA SessionStep == TypeOK /\ SessionInv /\ [Next]_vars => SessionInv'
<1> SUFFICES ASSUME TypeOK, SessionInv, [Next]_vars PROVE SessionInv'
  OBVIOUS
<1> USE DEF sessionVars, photoVars, viewVars, historyVars
<1>1. CASE UNCHANGED <<prep, sessionVars, photos, crashed, refused>>
  BY <1>1 DEF SessionInv, Untouched, Wired
<1>2. CASE FindDevices
  <2>1. /\ prep = "devices" /\ prep' \in {"inputs", "failed"}
        /\ UNCHANGED <<sessionVars, photos, crashed, refused>>
    BY <1>2 DEF FindDevices
  <2> QED
    BY <2>1 DEF SessionInv, Untouched, Wired, Ready
<1>3. CASE AddInputs
  <2>1. /\ prep = "inputs" /\ prep' \in {"failed", "output"}
        /\ UNCHANGED <<wired, running, depth, live, photos, crashed>>
    BY <1>3 DEF AddInputs
  <2>2. inputs = {} /\ live = {} /\ depth = 0 /\ photos = <<>> /\ ~running /\ ~crashed
    BY <2>1 DEF SessionInv, Untouched, Ready
  <2>3. Preferred \in Cameras
    BY DEF Preferred, Cameras
  <2>4. \/ prep' = "failed" /\ inputs' = {}
        \/ prep' = "output" /\ inputs' = {position'} /\ position' \in Cameras
        \/ refused' /\ inputs' = {}
    BY <1>3, <2>2, <2>3 DEF AddInputs
  <2> QED
    BY <2>1, <2>2, <2>4 DEF SessionInv, Untouched, Wired, Ready
<1>4. CASE AddOutput
  <2>1. /\ prep = "output" /\ prep' = "start"
        /\ UNCHANGED <<inputs, position, running, depth, live, photos, crashed>>
        /\ refused' \/ (refused' = refused /\ wired')
    BY <1>4 DEF AddOutput
  <2>2. refused => refused'
    BY <2>1 DEF TypeOK
  <2> QED
    BY <2>1, <2>2 DEF SessionInv, Untouched, Wired, Ready
<1>5. CASE StartRunning
  <2>1. /\ prep = "start" /\ prep' = "started" /\ live' = inputs
        /\ UNCHANGED <<inputs, position, wired, depth, photos, crashed, refused>>
    BY <1>5 DEF StartRunning
  <2>2. depth = 0
    BY <2>1 DEF SessionInv, Untouched, Ready
  <2> QED
    BY <2>1, <2>2 DEF SessionInv, Untouched, Wired, Ready
<1>6. CASE PrepareEnds
  BY <1>6 DEF PrepareEnds, SessionInv, Untouched, Wired, Ready
<1>7. CASE Interrupt
  BY <1>7 DEF Interrupt, SessionInv, Untouched, Wired
<1>8. CASE Resume
  BY <1>8 DEF Resume, SessionInv, Untouched, Wired, Ready
<1>9. CASE SwitchCameras
  BY <1>9, SwitchKeepsSession
<1>10. CASE CapturePhoto
  <2>1. prep \in Ready /\ UNCHANGED <<prep, inputs, wired, position, running, depth, live, refused>>
    BY <1>10 DEF CapturePhoto, SessionInv, Untouched
  <2> QED
    BY <2>1 DEF SessionInv, Untouched, Wired
<1>11. ASSUME NEW i \in DOMAIN photos, PhotoOutput(i) PROVE SessionInv'
  <2>1. photos # <<>>
    OBVIOUS
  <2>2. prep \in Ready /\ UNCHANGED <<prep, sessionVars, crashed, refused>>
    BY <1>11, <2>1 DEF PhotoOutput, SessionInv, Untouched
  <2> QED
    BY <2>2 DEF SessionInv, Untouched, Wired
<1>12. CASE ToCamera
  <2>1. /\ prep' = prep \/ (prep = "unloaded" /\ prep' = "devices")
        /\ UNCHANGED <<sessionVars, photos, crashed, refused>>
    BY <1>12 DEF ToCamera
  <2> QED
    BY <2>1 DEF SessionInv, Untouched, Wired, Ready
<1> QED
  BY <1>1, <1>2, <1>3, <1>4, <1>5, <1>6, <1>7, <1>8, <1>9, <1>10, <1>11, <1>12
     DEF Next, vars, PrepareQueue, OutputQueue, Buttons, SetCompletion, LeaveCamera,
         CloseEditor, Focus

LEMMA SessionInit == Init => SessionInv
BY DEF Init, SessionInv, Untouched, Wired, Ready

\* While no switch has failed and nothing was refused, the running session has
\* one input, that of the camera the position names, and it is in effect.
THEOREM PositionIsLive == Spec => []LiveIsPosition
<1>1. SessionInv => LiveIsPosition
  BY DEF SessionInv, Untouched, Wired, LiveIsPosition
<1> QED
  BY <1>1, SessionInit, SessionStep, TypeInit, TypeStep, PTL DEF Spec

LEMMA CrashStep == TypeOK /\ SessionInv /\ CrashHasCause /\ [Next]_vars => CrashHasCause'
<1> SUFFICES ASSUME TypeOK, SessionInv, crashed => refused, [Next]_vars
             PROVE  (crashed => refused)'
  BY DEF CrashHasCause
<1>1. CASE CapturePhoto
  <2>1. prep \in Ready /\ refused' = refused
    BY <1>1 DEF CapturePhoto, historyVars, SessionInv, Untouched
  <2>2. crashed' => crashed \/ ~wired \/ live = {}
    BY <1>1 DEF CapturePhoto
  <2> QED
    BY <2>1, <2>2 DEF SessionInv, Wired
<1>2. CASE ~CapturePhoto
  <2>1. crashed' = crashed /\ (refused' = refused \/ refused')
    BY <1>2 DEF Next, vars, PrepareQueue, OutputQueue, Buttons, historyVars, FindDevices,
       AddInputs, AddOutput, StartRunning, PrepareEnds, Interrupt, Resume, SwitchCameras,
       SetCompletion, PhotoOutput, ToCamera, LeaveCamera, CloseEditor, Focus
  <2> QED
    BY <2>1
<1> QED
  BY <1>1, <1>2

\* Touches that come while prepare is at work, interruptions and failed switches
\* never lead to a photo of an unconnected output; a refusal that prepare passed
\* over is the one cause.
THEOREM CrashIsCaused == Spec => []CrashHasCause
<1>1. Init => CrashHasCause
  BY DEF Init, CrashHasCause
<1> QED
  BY <1>1, SessionInit, SessionStep, TypeInit, TypeStep, CrashStep, PTL DEF Spec

-----------------------------------------------------------------------------
(* The pictures.                                                             *)

\* A photo that no switch concerns was taken by the camera of the position, and
\* the editor is on the camera's tab.
PhotosInv ==
    /\ \A i \in DOMAIN photos :
          photos[i].camera = position \/ photos[i].switched \/ photos[i].spoiled
    /\ MirroredIfFront
    /\ editor # NoEditor => tab = "camera"
    /\ BarFitsTab

LEMMA PhotosStep == TypeOK /\ SessionInv /\ PhotosInv /\ [Next]_vars => PhotosInv'
<1> SUFFICES ASSUME TypeOK, SessionInv, PhotosInv, [Next]_vars PROVE PhotosInv'
  OBVIOUS
<1> USE DEF sessionVars, photoVars, viewVars, historyVars
<1>1. CASE UNCHANGED <<photos, position, editor, tab, barHidden>>
  BY <1>1 DEF PhotosInv, MirroredIfFront, BarFitsTab
<1>2. CASE AddInputs
  <2>1. photos = <<>> /\ UNCHANGED <<photos, editor, tab, barHidden>>
    BY <1>2 DEF AddInputs, SessionInv, Untouched, Ready
  <2> QED
    BY <2>1 DEF PhotosInv, MirroredIfFront, BarFitsTab
<1>3. CASE SwitchCameras
  <2>1. UNCHANGED <<editor, tab, barHidden>>
    BY <1>3 DEF SwitchCameras
  <2>2. CASE photos' = Switched
    <3>1. \A i \in DOMAIN photos' : photos'[i].switched
      BY <2>2, SwitchedType DEF TypeOK
    <3> QED
      BY <2>1, <3>1 DEF PhotosInv, MirroredIfFront, BarFitsTab
  <2>3. CASE position' = position /\ photos' = photos
    BY <2>1, <2>3 DEF PhotosInv, MirroredIfFront, BarFitsTab
  <2> QED
    BY <1>3, <2>2, <2>3, SwitchIs
<1>4. CASE CapturePhoto
  <2>1. UNCHANGED <<position, editor, tab, barHidden>>
    BY <1>4 DEF CapturePhoto
  <2>2. CASE photos' = photos
    BY <2>1, <2>2 DEF PhotosInv, MirroredIfFront, BarFitsTab
  <2>3. ASSUME NEW c \in live,
               photos' = Append(photos, [camera |-> c, switched |-> FALSE,
                                         spoiled |-> depth > 0])
        PROVE  PhotosInv'
    <3> DEFINE photo == [camera |-> c, switched |-> FALSE, spoiled |-> depth > 0]
    <3>1. photo.camera = position \/ photo.spoiled
      <4>1. photo.camera = c /\ photo.spoiled = (depth > 0)
        OBVIOUS
      <4>2. c = position \/ depth > 0
        BY <2>3 DEF SessionInv, Wired, TypeOK
      <4> QED
        BY <4>1, <4>2
    <3>2. /\ DOMAIN photos = 1 .. Len(photos) /\ Len(photos) \in Nat
          /\ DOMAIN photos' = 1 .. Len(photos) + 1
          /\ \A i \in 1 .. Len(photos) : photos'[i] = photos[i]
          /\ photos'[Len(photos) + 1] = photo
      BY <2>3 DEF TypeOK
    <3> HIDE DEF photo
    <3>3. ASSUME NEW i \in DOMAIN photos'
          PROVE  \/ photos'[i].camera = position \/ photos'[i].switched
                 \/ photos'[i].spoiled
      <4>1. CASE i = Len(photos) + 1
        BY <3>1, <3>2, <4>1
      <4>2. CASE i \in DOMAIN photos
        BY <3>2, <4>2 DEF PhotosInv
      <4> QED
        BY <3>2, <4>1, <4>2
    <3> QED
      BY <2>1, <3>3 DEF PhotosInv, MirroredIfFront, BarFitsTab
  <2> QED
    BY <1>4, <2>2, <2>3 DEF CapturePhoto
<1>5. ASSUME NEW i \in DOMAIN photos, PhotoOutput(i) PROVE PhotosInv'
  <2>1. /\ UNCHANGED <<position, tab, barHidden>> /\ photos' = RemoveAt(photos, i)
        /\ \/ tab = "camera" /\ editor' = Develop(photos[i])
           \/ editor' = editor
    BY <1>5 DEF PhotoOutput
  <2>2. \A k \in DOMAIN photos' : \E j \in DOMAIN photos : photos'[k] = photos[j]
    BY <2>1, RemoveAtType DEF TypeOK
  <2>3. \A k \in DOMAIN photos' :
          photos'[k].camera = position \/ photos'[k].switched \/ photos'[k].spoiled
    BY <2>2 DEF PhotosInv
  <2>4. CASE editor' = editor
    BY <2>1, <2>3, <2>4 DEF PhotosInv, MirroredIfFront, BarFitsTab
  <2>5. CASE tab = "camera" /\ editor' = Develop(photos[i])
    <3>1. editor'.photo = photos[i] /\ editor'.mirrored = (position = "front")
      BY <2>5 DEF Develop
    <3>2. MirroredIfFront'
      BY <3>1 DEF PhotosInv, MirroredIfFront
    <3> QED
      BY <2>1, <2>3, <2>5, <3>2 DEF PhotosInv, BarFitsTab
  <2> QED
    BY <2>1, <2>4, <2>5
<1>6. CASE ToCamera \/ LeaveCamera \/ CloseEditor
  BY <1>6 DEF ToCamera, LeaveCamera, CloseEditor, InFront, PhotosInv, MirroredIfFront,
     BarFitsTab
<1> QED
  BY <1>1, <1>2, <1>3, <1>4, <1>5, <1>6
     DEF Next, vars, PrepareQueue, OutputQueue, Buttons, FindDevices, AddOutput,
         StartRunning, PrepareEnds, Interrupt, Resume, SetCompletion, Focus

LEMMA PhotosInit == Init => PhotosInv
BY DEF Init, PhotosInv, MirroredIfFront, BarFitsTab

\* A picture is the mirror image of its photo exactly when the front camera took
\* it, unless the cameras were switched after it was asked for or a switch had
\* failed before.
THEOREM MirroringIsRight == Spec => []MirroredIfFront
<1>1. PhotosInv => MirroredIfFront
  BY DEF PhotosInv
<1> QED
  BY <1>1, PhotosInit, PhotosStep, SessionInit, SessionStep, TypeInit, TypeStep, PTL DEF Spec

\* The tab bar is hidden exactly while the camera is selected.
THEOREM BarIsRight == Spec => []BarFitsTab
<1>1. PhotosInv => BarFitsTab
  BY DEF PhotosInv
<1> QED
  BY <1>1, PhotosInit, PhotosStep, SessionInit, SessionStep, TypeInit, TypeStep, PTL DEF Spec

-----------------------------------------------------------------------------
(* What no step does.                                                        *)

\* After a switch that failed no step changes the camera in use.
THEOREM FailureFreezes == Spec => FrozenByFailure
<1>1. TypeOK /\ SessionInv /\ [Next]_vars => [depth > 0 => live' = live]_vars
  <2> SUFFICES ASSUME TypeOK, SessionInv, [Next]_vars, depth > 0 PROVE live' = live
    OBVIOUS
  <2>1. CASE StartRunning
    BY <2>1 DEF StartRunning, SessionInv, Untouched, Ready
  <2>2. CASE SwitchCameras
    BY <2>2, SwitchIs DEF TypeOK
  <2> QED
    BY <2>1, <2>2
       DEF Next, vars, sessionVars, PrepareQueue, OutputQueue, Buttons, FindDevices,
           AddInputs, AddOutput, PrepareEnds, Interrupt, Resume, SetCompletion,
           CapturePhoto, PhotoOutput, ToCamera, LeaveCamera, CloseEditor, Focus
<1> QED
  BY <1>1, SessionInit, SessionStep, TypeInit, TypeStep, PTL DEF Spec, FrozenByFailure

\* A photo delivered while the editor is on the screen leaves its picture alone.
THEOREM PictureIsKept == Spec => EditorKeepsPicture
<1>1. [Next]_vars => [editor # NoEditor => editor' \in {editor, NoEditor}]_vars
  BY DEF Next, vars, viewVars, PrepareQueue, OutputQueue, Buttons, FindDevices,
         AddInputs, AddOutput, StartRunning, PrepareEnds, Interrupt, Resume,
         SwitchCameras, SetCompletion, CapturePhoto, PhotoOutput, ToCamera, LeaveCamera,
         CloseEditor, Focus
<1> QED
  BY <1>1, PTL DEF Spec, EditorKeepsPicture

-----------------------------------------------------------------------------
(* The upload view: its fields (UploadView, Editor).                         *)

\* A text that is lifted is being written, or strayed.
LiftedIsActive == \A i \in DOMAIN fields :
    fields[i].filled /\ fields[i].y = "above" => i \in strays \/ (keyboard /\ i = active)

\* What is inductive of the texts: what the keyboard will find when it goes has to
\* hold while it is up.
TextsInv ==
    /\ Ed!TypeOK
    /\ texting = ~drawing
    /\ Ed!ColorsFitMode
    /\ fields # <<>> => active \in DOMAIN fields
    /\ keyboard => editing \in DOMAIN fields
    /\ LiftedIsActive
    /\ Ed!TextIsShown
    /\ keyboard /\ fields[editing].hidden => editing \in unseen
    /\ Ed!EmptyFieldGoes

\* Who is told of the permission that it is missing sees the prompt, or missed it.
PermissionInv ==
    /\ PermissionTypeOK
    /\ ~prompt /\ ~told /\ ~Granted => missed
    /\ EditorWaitsForCause

\* A sequence of fields in which one is changed.
LEMMA FieldChanged ==
    ASSUME NEW fs \in Seq(Ed!Fields), NEW i \in DOMAIN fs, NEW f \in Ed!Fields
    PROVE  /\ [fs EXCEPT ![i] = f] \in Seq(Ed!Fields)
           /\ Len([fs EXCEPT ![i] = f]) = Len(fs)
           /\ DOMAIN [fs EXCEPT ![i] = f] = DOMAIN fs
           /\ \A j \in DOMAIN fs : [fs EXCEPT ![i] = f][j] = IF j = i THEN f ELSE fs[j]
BY ExceptSeq, LenProperties

LEMMA FieldTypes ==
    ASSUME NEW fs \in Seq(Ed!Fields)
    PROVE  /\ Len(fs) \in Nat
           /\ DOMAIN fs = 1..Len(fs)
           /\ fs # <<>> => Len(fs) \in DOMAIN fs
           /\ \A i \in DOMAIN fs : fs[i] \in Ed!Fields
<1>1. Len(fs) \in Nat /\ DOMAIN fs = 1..Len(fs)
  BY LenProperties
<1>2. fs # <<>> => Len(fs) \in Nat \ {0}
  BY EmptySeq
<1> QED
  BY <1>1, <1>2, ElementOfSeq

\* The keyboard lifts the field a and changes no other.
LEMMA Lifted ==
    ASSUME NEW fs \in Seq(Ed!Fields), NEW a \in DOMAIN fs, Ed!KeyboardWillShow(fs, a)
    PROVE  /\ fields' \in Seq(Ed!Fields) /\ Len(fields') = Len(fs)
           /\ \A j \in DOMAIN fs :
                  /\ fields'[j].filled = fs[j].filled /\ fields'[j].hidden = fs[j].hidden
                  /\ j # a => fields'[j].y = fs[j].y
<1> DEFINE f == [fs[a] EXCEPT !.y = "above"]
<1>1. fs[a] \in Ed!Fields
  BY FieldTypes
<1>2. f \in Ed!Fields
  BY <1>1 DEF Ed!Fields, Ed!Heights
<1>3. fields' = [fs EXCEPT ![a] = f]
  BY DEF Ed!KeyboardWillShow
<1>4. f.filled = fs[a].filled /\ f.hidden = fs[a].hidden
  BY <1>1 DEF Ed!Fields
<1> HIDE DEF f
<1> QED
  BY <1>2, <1>3, <1>4, FieldChanged

\* The active field goes back, and what has no text stays as it is.
LEMMA BackInPlace ==
    ASSUME TextsInv
    PROVE  /\ Ed!PutBack(fields) \in Seq(Ed!Fields)
           /\ Len(Ed!PutBack(fields)) = Len(fields)
           /\ \A j \in DOMAIN fields :
                  /\ Ed!PutBack(fields)[j].filled = fields[j].filled
                  /\ Ed!PutBack(fields)[j].hidden = fields[j].hidden
                  /\ j = active /\ fields[j].filled => Ed!PutBack(fields)[j].y = "middle"
                  /\ j # active => Ed!PutBack(fields)[j].y = fields[j].y
<1>1. fields \in Seq(Ed!Fields)
  BY DEF TextsInv, Ed!TypeOK
<1>2. CASE active # 0 /\ fields[active].filled
  <2> DEFINE f == [fields[active] EXCEPT !.y = "middle"]
  <2>1. active \in DOMAIN fields
    BY <1>1, <1>2, FieldTypes DEF TextsInv, Ed!TypeOK
  <2>2. fields[active] \in Ed!Fields
    BY <1>1, <2>1, FieldTypes
  <2>3. f \in Ed!Fields /\ f.filled = fields[active].filled /\ f.hidden = fields[active].hidden
        /\ f.y = "middle"
    BY <2>2 DEF Ed!Fields, Ed!Heights
  <2>4. Ed!PutBack(fields) = [fields EXCEPT ![active] = f]
    BY <1>2 DEF Ed!PutBack
  <2> HIDE DEF f
  <2> QED
    BY <1>1, <2>1, <2>3, <2>4, FieldChanged
<1>3. CASE ~(active # 0 /\ fields[active].filled)
  <2>1. Ed!PutBack(fields) = fields
    BY <1>3 DEF Ed!PutBack
  <2>2. \A j \in DOMAIN fields : j = active => ~fields[j].filled
    BY <1>1, <1>3, FieldTypes
  <2> QED
    BY <1>1, <2>1, <2>2
<1> QED
  BY <1>2, <1>3

\* The last field is hidden if it is empty.
LEMMA EmptyHidden ==
    ASSUME NEW fs \in Seq(Ed!Fields)
    PROVE  /\ Ed!HideEmpty(fs) \in Seq(Ed!Fields)
           /\ Len(Ed!HideEmpty(fs)) = Len(fs)
           /\ \A j \in DOMAIN fs :
                  /\ Ed!HideEmpty(fs)[j].filled = fs[j].filled
                  /\ Ed!HideEmpty(fs)[j].y = fs[j].y
                  /\ fs[j].filled => Ed!HideEmpty(fs)[j].hidden = fs[j].hidden
           /\ fs # <<>> => fs[Len(fs)].filled \/ Ed!HideEmpty(fs)[Len(fs)].hidden
<1>1. CASE fs # <<>> /\ ~fs[Len(fs)].filled
  <2> DEFINE f == [fs[Len(fs)] EXCEPT !.hidden = TRUE]
  <2>1. Len(fs) \in DOMAIN fs /\ fs[Len(fs)] \in Ed!Fields
    BY <1>1, FieldTypes
  <2>2. f \in Ed!Fields /\ f.filled = fs[Len(fs)].filled /\ f.y = fs[Len(fs)].y /\ f.hidden = TRUE
    BY <2>1 DEF Ed!Fields
  <2>3. Ed!HideEmpty(fs) = [fs EXCEPT ![Len(fs)] = f]
    BY <1>1 DEF Ed!HideEmpty
  <2> HIDE DEF f
  <2>4. /\ [fs EXCEPT ![Len(fs)] = f] \in Seq(Ed!Fields)
        /\ Len([fs EXCEPT ![Len(fs)] = f]) = Len(fs)
        /\ \A j \in DOMAIN fs :
               [fs EXCEPT ![Len(fs)] = f][j] = IF j = Len(fs) THEN f ELSE fs[j]
    BY <2>1, <2>2, FieldChanged
  <2> QED
    BY <1>1, <2>1, <2>2, <2>3, <2>4
<1>2. CASE ~(fs # <<>> /\ ~fs[Len(fs)].filled)
  BY <1>2 DEF Ed!HideEmpty
<1> QED
  BY <1>1, <1>2

\* The fields when the keyboard goes, and what holds of them.
LEMMA KeyboardGoes ==
    ASSUME TextsInv, keyboard, Ed!KeyboardWillHide
    PROVE  /\ fields' \in Seq(Ed!Fields) /\ Len(fields') = Len(fields)
           /\ DOMAIN fields' = DOMAIN fields
           /\ LiftedIsActive' /\ Ed!TextIsShown' /\ Ed!EmptyFieldGoes'
<1> DEFINE fs == Ed!PutBack(fields)
<1>1. /\ fs \in Seq(Ed!Fields) /\ Len(fs) = Len(fields)
      /\ \A j \in DOMAIN fields :
             /\ fs[j].filled = fields[j].filled
             /\ fs[j].hidden = fields[j].hidden
             /\ j = active /\ fields[j].filled => fs[j].y = "middle"
             /\ j # active => fs[j].y = fields[j].y
  BY BackInPlace
<1>2. fields' = Ed!HideEmpty(fs) /\ ~keyboard' /\ strays' = strays /\ unseen' = unseen
  BY DEF Ed!KeyboardWillHide
<1> HIDE DEF fs
<1>3. fields \in Seq(Ed!Fields)
  BY DEF TextsInv, Ed!TypeOK
<1>4. DOMAIN fs = DOMAIN fields
  BY <1>1, <1>3, FieldTypes
<1>5. /\ fields' \in Seq(Ed!Fields)
      /\ Len(fields') = Len(fs)
      /\ \A j \in DOMAIN fs :
             /\ fields'[j].filled = fs[j].filled
             /\ fields'[j].y = fs[j].y
             /\ fs[j].filled => fields'[j].hidden = fs[j].hidden
      /\ fs # <<>> => fs[Len(fs)].filled \/ fields'[Len(fs)].hidden
  BY <1>1, <1>2, EmptyHidden
<1>6. DOMAIN fields' = DOMAIN fields
  BY <1>1, <1>3, <1>5, FieldTypes
<1>7. LiftedIsActive'
  <2> SUFFICES ASSUME NEW i \in DOMAIN fields, fields'[i].filled, fields'[i].y = "above"
               PROVE  i \in strays
    BY <1>2, <1>6 DEF LiftedIsActive
  <2>1. fields[i].filled /\ fs[i].y = "above"
    BY <1>1, <1>4, <1>5
  <2>2. i # active
    BY <1>1, <2>1
  <2>3. fields[i].y = "above"
    BY <1>1, <2>1, <2>2
  <2> QED
    BY <2>1, <2>2, <2>3 DEF TextsInv, LiftedIsActive
<1>8. Ed!TextIsShown'
  BY <1>1, <1>2, <1>4, <1>5, <1>6 DEF TextsInv, Ed!TextIsShown
<1>9. Ed!EmptyFieldGoes'
  <2> SUFFICES ASSUME fields' # <<>>
               PROVE  fields'[Len(fields')].filled \/ fields'[Len(fields')].hidden
    BY DEF Ed!EmptyFieldGoes
  <2>1. Len(fields') \in DOMAIN fs /\ Len(fields') = Len(fs)
    BY <1>4, <1>5, <1>6, FieldTypes
  <2>2. fs # <<>>
    BY <1>1, <2>1, FieldTypes
  <2> QED
    BY <1>5, <2>1, <2>2
<1> QED
  BY <1>1, <1>5, <1>6, <1>7, <1>8, <1>9

-----------------------------------------------------------------------------
(* The upload view: what is done in it.                                      *)

\* The types of the flags and the modes, whatever the action.
LEMMA ModesKept ==
    ASSUME TextsInv, Ed!Next
    PROVE  /\ drawing' \in BOOLEAN /\ texting' \in BOOLEAN /\ textButton' \in BOOLEAN
           /\ drawButton' \in BOOLEAN /\ drawColors' \in BOOLEAN /\ textColors' \in BOOLEAN
           /\ slipped' \in BOOLEAN /\ keyboard' \in BOOLEAN
           /\ texting' = ~drawing'
           /\ Ed!ColorsFitMode'
<1>1. /\ drawing \in BOOLEAN /\ texting \in BOOLEAN /\ textButton \in BOOLEAN
      /\ drawButton \in BOOLEAN /\ drawColors \in BOOLEAN /\ textColors \in BOOLEAN
      /\ slipped \in BOOLEAN /\ keyboard \in BOOLEAN
      /\ texting = ~drawing
      /\ ~slipped => drawColors = drawing /\ textButton = texting
  BY DEF TextsInv, Ed!TypeOK, Ed!ColorsFitMode
<1>2. CASE Ed!KeyboardWillHide /\ UNCHANGED <<drawing, texting, drawColors>>
  <2>1. slipped' \in BOOLEAN /\ (~slipped' => ~slipped /\ ~drawing)
    BY <1>1, <1>2 DEF Ed!KeyboardWillHide
  <2>2. /\ textButton' = TRUE /\ drawButton' = TRUE /\ keyboard' = FALSE /\ textColors' = FALSE
        /\ drawing' = drawing /\ texting' = texting /\ drawColors' = drawColors
    BY <1>2 DEF Ed!KeyboardWillHide
  <2> QED
    BY <1>1, <2>1, <2>2 DEF Ed!ColorsFitMode
<1>3. CASE Ed!Type
  BY <1>1, <1>3 DEF Ed!Type, Ed!modeVars, Ed!ColorsFitMode
<1>4. CASE Ed!CreateText
  <2>1. textButton /\ drawing' = FALSE /\ texting' = TRUE /\ drawColors' = drawColors
    BY <1>4 DEF Ed!CreateText
  <2>2. CASE Ed!KeyboardWillHide
    <3>1. slipped' \in BOOLEAN /\ (~slipped' => ~slipped /\ ~drawing)
      BY <1>1, <2>2 DEF Ed!KeyboardWillHide
    <3>2. textButton' = TRUE /\ drawButton' = TRUE /\ keyboard' = FALSE /\ textColors' = FALSE
      BY <2>2 DEF Ed!KeyboardWillHide
    <3> QED
      BY <1>1, <2>1, <3>1, <3>2 DEF Ed!ColorsFitMode
  <2>3. CASE ~Ed!KeyboardWillHide
    <3>1. /\ keyboard' = TRUE /\ textColors' = TRUE /\ drawButton' = FALSE
          /\ textButton' = textButton /\ slipped' = slipped
      BY <1>4, <2>3 DEF Ed!CreateText, Ed!CreateTextMessage, Ed!KeyboardWillShow
    <3> QED
      BY <1>1, <2>1, <3>1 DEF Ed!ColorsFitMode
  <2> QED
    BY <2>2, <2>3
<1>5. CASE \E i \in DOMAIN fields : Ed!TouchField(i)
  <2>1. UNCHANGED <<drawing, texting, drawColors, slipped, textButton, drawButton>>
    BY <1>5 DEF Ed!TouchField, Ed!modeVars
  <2>2. keyboard' \in BOOLEAN /\ textColors' \in BOOLEAN
    BY <1>1, <1>5 DEF Ed!TouchField, Ed!KeyboardWillShow
  <2> QED
    BY <1>1, <2>1, <2>2 DEF Ed!ColorsFitMode
<1>6. CASE \E i \in DOMAIN fields : Ed!DragField(i)
  <2>1. UNCHANGED <<drawing, texting, drawColors, slipped, textButton, drawButton,
                    keyboard, textColors>>
    BY <1>6 DEF Ed!DragField, Ed!modeVars
  <2> QED
    BY <1>1, <2>1 DEF Ed!ColorsFitMode
<1>7. CASE Ed!CreateDrawing
  BY <1>1, <1>7 DEF Ed!CreateDrawing, Ed!fieldVars, Ed!ColorsFitMode
<1>8. Ed!Return => Ed!KeyboardWillHide /\ UNCHANGED <<drawing, texting, drawColors>>
  BY DEF Ed!Return
<1> QED
  BY <1>2, <1>3, <1>4, <1>5, <1>6, <1>7, <1>8 DEF Ed!Next

\* What the other conjuncts need of a step that leaves a field to each index.
FieldsInv ==
    /\ fields \in Seq(Ed!Fields)
    /\ active \in 0..Len(fields) /\ editing \in 0..Len(fields)
    /\ strays \in SUBSET DOMAIN fields /\ unseen \in SUBSET DOMAIN fields
    /\ fields # <<>> => active \in DOMAIN fields
    /\ keyboard => editing \in DOMAIN fields
    /\ LiftedIsActive
    /\ Ed!TextIsShown
    /\ keyboard /\ fields[editing].hidden => editing \in unseen
    /\ Ed!EmptyFieldGoes

LEMMA HideKeepsFields ==
    ASSUME TextsInv, keyboard, Ed!KeyboardWillHide
    PROVE  FieldsInv'
<1>1. /\ fields' \in Seq(Ed!Fields) /\ Len(fields') = Len(fields)
      /\ DOMAIN fields' = DOMAIN fields
      /\ LiftedIsActive' /\ Ed!TextIsShown' /\ Ed!EmptyFieldGoes'
  BY KeyboardGoes
<1>2. fields \in Seq(Ed!Fields) /\ editing \in DOMAIN fields
  BY DEF TextsInv, Ed!TypeOK
<1>3. fields # <<>>
  BY <1>2
<1> QED
  BY <1>1, <1>3 DEF FieldsInv, Ed!KeyboardWillHide, TextsInv, Ed!TypeOK

LEMMA TypeKeepsFields ==
    ASSUME TextsInv, Ed!Type
    PROVE  FieldsInv'
<1> DEFINE f == [fields[editing] EXCEPT !.filled = ~@]
<1>1. fields \in Seq(Ed!Fields) /\ editing \in DOMAIN fields /\ keyboard
  BY DEF TextsInv, Ed!TypeOK, Ed!Type
<1>2. fields[editing] \in Ed!Fields
  BY <1>1, FieldTypes
<1>3. f \in Ed!Fields /\ f.hidden = fields[editing].hidden /\ f.y = fields[editing].y
  BY <1>2 DEF Ed!Fields
<1>4. fields' = [fields EXCEPT ![editing] = f]
  BY DEF Ed!Type
<1> HIDE DEF f
<1>5. /\ fields' \in Seq(Ed!Fields) /\ Len(fields') = Len(fields)
      /\ DOMAIN fields' = DOMAIN fields
      /\ \A j \in DOMAIN fields : fields'[j] = IF j = editing THEN f ELSE fields[j]
  BY <1>1, <1>3, <1>4, FieldChanged
<1>6. /\ active' = active /\ editing' = editing /\ unseen' = unseen /\ keyboard' = keyboard
      /\ strays' = IF editing = active THEN strays ELSE strays \cup {editing}
  BY DEF Ed!Type
<1>7. fields # <<>> /\ active \in DOMAIN fields
  BY <1>1 DEF TextsInv
<1>8. LiftedIsActive'
  BY <1>1, <1>3, <1>5, <1>6 DEF TextsInv, LiftedIsActive
<1>9. Ed!TextIsShown'
  BY <1>1, <1>3, <1>5, <1>6 DEF TextsInv, Ed!TextIsShown
<1>10. keyboard' /\ fields'[editing'].hidden => editing' \in unseen'
  BY <1>1, <1>3, <1>5, <1>6 DEF TextsInv
<1>11. Ed!EmptyFieldGoes'
  BY <1>1, <1>6 DEF Ed!EmptyFieldGoes
<1> QED
  BY <1>1, <1>5, <1>6, <1>7, <1>8, <1>9, <1>10, <1>11 DEF FieldsInv, TextsInv, Ed!TypeOK

LEMMA CreateTextKeepsFields ==
    ASSUME TextsInv, Ed!CreateText
    PROVE  FieldsInv'
<1>1. CASE keyboard
  BY <1>1, HideKeepsFields DEF Ed!CreateText, Ed!CreateTextMessage
<1>2. CASE ~keyboard
  <2> DEFINE fs == Append(fields, Ed!NewField)
             n == Len(fields) + 1
  <2>1. /\ Ed!KeyboardWillShow(fs, n)
        /\ strays' = strays /\ unseen' = unseen
    BY <1>2 DEF Ed!CreateText, Ed!CreateTextMessage
  <2>2. fields \in Seq(Ed!Fields) /\ Len(fields) \in Nat /\ DOMAIN fields = 1..Len(fields)
    BY FieldTypes DEF TextsInv, Ed!TypeOK
  <2>3. Ed!NewField \in Ed!Fields /\ ~Ed!NewField.filled /\ ~Ed!NewField.hidden
    BY DEF Ed!NewField, Ed!Fields, Ed!Heights
  <2>4. /\ fs \in Seq(Ed!Fields) /\ Len(fs) = n /\ fs[n] = Ed!NewField
        /\ \A j \in DOMAIN fields : fs[j] = fields[j]
    BY <2>2, <2>3, AppendProperties
  <2>5. /\ keyboard' /\ active' = n /\ editing' = n
    BY <2>1 DEF Ed!KeyboardWillShow
  <2> HIDE DEF fs
  <2>6. DOMAIN fs = 1..n /\ n \in DOMAIN fs
    BY <2>2, <2>4, FieldTypes
  <2>7. /\ fields' \in Seq(Ed!Fields) /\ Len(fields') = n
        /\ \A j \in 1..n :
               /\ fields'[j].filled = fs[j].filled /\ fields'[j].hidden = fs[j].hidden
               /\ j # n => fields'[j].y = fs[j].y
    BY <2>1, <2>4, <2>6, Lifted
  <2>8. DOMAIN fields' = 1..n
    BY <2>7, FieldTypes
  <2>9. \A j \in 1..n : j # n => j \in DOMAIN fields /\ fs[j] = fields[j]
    BY <2>2, <2>4
  <2>10. LiftedIsActive'
    <3> SUFFICES ASSUME NEW i \in 1..n, i # n, fields'[i].filled, fields'[i].y = "above"
                 PROVE  i \in strays
      BY <2>1, <2>5, <2>8 DEF LiftedIsActive
    <3>1. i \in DOMAIN fields /\ fields[i].filled /\ fields[i].y = "above"
      BY <2>7, <2>9
    <3> QED
      BY <1>2, <3>1 DEF TextsInv, LiftedIsActive
  <2>11. Ed!TextIsShown'
    BY <2>1, <2>3, <2>4, <2>7, <2>8, <2>9 DEF TextsInv, Ed!TextIsShown
  <2>12. ~fields'[editing'].hidden
    BY <2>2, <2>3, <2>4, <2>5, <2>7
  <2>13. Ed!EmptyFieldGoes'
    BY <2>5 DEF Ed!EmptyFieldGoes
  <2>14. n \in 1..n /\ n \in 0..n /\ DOMAIN fields \subseteq 1..n
    BY <2>2
  <2> QED
    BY <2>1, <2>5, <2>7, <2>8, <2>10, <2>11, <2>12, <2>13, <2>14
       DEF FieldsInv, TextsInv, Ed!TypeOK
<1> QED
  BY <1>1, <1>2

LEMMA TouchKeepsFields ==
    ASSUME TextsInv, NEW i \in DOMAIN fields, Ed!TouchField(i)
    PROVE  FieldsInv'
<1>1. PICK a \in {active, i} :
           /\ strays' = IF keyboard /\ a # active THEN strays \cup {active} ELSE strays
           /\ \/ /\ Ed!KeyboardWillShow(fields, a)
                 /\ unseen' = IF fields[a].hidden THEN unseen \cup {a} ELSE unseen
              \/ /\ active' = a
                 /\ editing' \in IF keyboard THEN {editing, i} ELSE {editing}
                 /\ UNCHANGED <<fields, unseen, keyboard, textColors>>
  BY DEF Ed!TouchField
<1>2. fields \in Seq(Ed!Fields) /\ Len(fields) \in Nat /\ DOMAIN fields = 1..Len(fields)
  BY FieldTypes DEF TextsInv, Ed!TypeOK
<1>3. fields # <<>> /\ active \in DOMAIN fields /\ a \in DOMAIN fields
  BY <1>2 DEF TextsInv
<1>4. CASE Ed!KeyboardWillShow(fields, a)
           /\ unseen' = IF fields[a].hidden THEN unseen \cup {a} ELSE unseen
  <2>1. /\ fields' \in Seq(Ed!Fields) /\ Len(fields') = Len(fields)
        /\ \A j \in DOMAIN fields :
               /\ fields'[j].filled = fields[j].filled /\ fields'[j].hidden = fields[j].hidden
               /\ j # a => fields'[j].y = fields[j].y
    BY <1>2, <1>3, <1>4, Lifted
  <2>2. DOMAIN fields' = DOMAIN fields
    BY <1>2, <2>1, FieldTypes
  <2>3. keyboard' /\ active' = a /\ editing' = a
    BY <1>4 DEF Ed!KeyboardWillShow
  <2>4. LiftedIsActive'
    BY <1>1, <2>1, <2>2, <2>3 DEF TextsInv, LiftedIsActive
  <2>5. Ed!TextIsShown'
    BY <1>4, <2>1, <2>2 DEF TextsInv, Ed!TextIsShown
  <2>6. fields'[editing'].hidden => editing' \in unseen'
    BY <1>3, <1>4, <2>1, <2>3
  <2>7. Ed!EmptyFieldGoes'
    BY <2>3 DEF Ed!EmptyFieldGoes
  <2>8. strays' \in SUBSET DOMAIN fields /\ unseen' \in SUBSET DOMAIN fields
    BY <1>1, <1>3, <1>4 DEF TextsInv, Ed!TypeOK
  <2>9. a \in 0..Len(fields)
    BY <1>2, <1>3
  <2> QED
    BY <1>3, <2>1, <2>2, <2>3, <2>4, <2>5, <2>6, <2>7, <2>8, <2>9 DEF FieldsInv
<1>5. CASE /\ active' = a
           /\ editing' \in IF keyboard THEN {editing, i} ELSE {editing}
           /\ UNCHANGED <<fields, unseen, keyboard, textColors>>
  <2>1. LiftedIsActive'
    BY <1>1, <1>5 DEF TextsInv, LiftedIsActive
  <2>2. keyboard' => editing' \in DOMAIN fields
    BY <1>5 DEF TextsInv
  <2>3. keyboard' /\ fields'[editing'].hidden => editing' \in unseen'
    BY <1>5 DEF TextsInv, Ed!TouchField
  <2>4. strays' \in SUBSET DOMAIN fields
    BY <1>1, <1>3 DEF TextsInv, Ed!TypeOK
  <2>5. a \in 0..Len(fields) /\ editing' \in 0..Len(fields)
    BY <1>2, <1>3, <1>5 DEF TextsInv, Ed!TypeOK
  <2>6. Ed!TextIsShown' /\ Ed!EmptyFieldGoes'
    BY <1>5 DEF TextsInv, Ed!TextIsShown, Ed!EmptyFieldGoes
  <2> QED
    BY <1>2, <1>3, <1>5, <2>1, <2>2, <2>3, <2>4, <2>5, <2>6 DEF FieldsInv, TextsInv, Ed!TypeOK
<1> QED
  BY <1>1, <1>4, <1>5

LEMMA DragKeepsFields ==
    ASSUME TextsInv, NEW i \in DOMAIN fields, Ed!DragField(i)
    PROVE  FieldsInv'
<1> DEFINE f == [fields[i] EXCEPT !.y = "dragged"]
<1>1. fields \in Seq(Ed!Fields) /\ Len(fields) \in Nat /\ DOMAIN fields = 1..Len(fields)
  BY FieldTypes DEF TextsInv, Ed!TypeOK
<1>2. fields[i] \in Ed!Fields
  BY <1>1, FieldTypes
<1>3. /\ f \in Ed!Fields /\ f.hidden = fields[i].hidden /\ f.filled = fields[i].filled
      /\ f.y # "above"
  BY <1>2 DEF Ed!Fields, Ed!Heights
<1>4. /\ fields' = [fields EXCEPT ![i] = f]
      /\ UNCHANGED <<active, editing, strays, unseen, keyboard>>
  BY DEF Ed!DragField
<1> HIDE DEF f
<1>5. /\ fields' \in Seq(Ed!Fields) /\ Len(fields') = Len(fields)
      /\ DOMAIN fields' = DOMAIN fields
      /\ \A j \in DOMAIN fields :
             /\ fields'[j].filled = fields[j].filled /\ fields'[j].hidden = fields[j].hidden
             /\ fields'[j].y = "above" => fields[j].y = "above"
  BY <1>1, <1>3, <1>4, FieldChanged
<1>6. fields # <<>> /\ active \in DOMAIN fields
  BY <1>1 DEF TextsInv
<1>7. LiftedIsActive'
  BY <1>4, <1>5 DEF TextsInv, LiftedIsActive
<1>8. Ed!TextIsShown'
  BY <1>4, <1>5 DEF TextsInv, Ed!TextIsShown
<1>9. keyboard' /\ fields'[editing'].hidden => editing' \in unseen'
  BY <1>4, <1>5 DEF TextsInv
<1>10. Ed!EmptyFieldGoes'
  BY <1>1, <1>4, <1>5, <1>6, FieldTypes DEF TextsInv, Ed!EmptyFieldGoes
<1> QED
  BY <1>4, <1>5, <1>6, <1>7, <1>8, <1>9, <1>10 DEF FieldsInv, TextsInv, Ed!TypeOK

\* Where the fields, the keyboard and the histories stay, so does what holds of them.
LEMMA FieldsStay ==
    ASSUME TextsInv, UNCHANGED <<fields, active, editing, strays, unseen, keyboard>>
    PROVE  FieldsInv'
BY DEF TextsInv, Ed!TypeOK, FieldsInv, LiftedIsActive, Ed!TextIsShown, Ed!EmptyFieldGoes

LEMMA EditKeepsTexts ==
    ASSUME TextsInv, Ed!Next
    PROVE  TextsInv'
<1>1. FieldsInv'
  <2>1. CASE Ed!Return
    BY <2>1, HideKeepsFields DEF Ed!Return
  <2>2. CASE Ed!CreateDrawing
    BY <2>2, FieldsStay DEF Ed!CreateDrawing, Ed!fieldVars
  <2> QED
    BY <2>1, <2>2, TypeKeepsFields, CreateTextKeepsFields, TouchKeepsFields, DragKeepsFields
       DEF Ed!Next
<1> QED
  BY <1>1, ModesKept DEF FieldsInv, TextsInv, Ed!TypeOK

LEMMA TextsGoneKeeps ==
    ASSUME TextsGone
    PROVE  TextsInv'
<1>1. <<>> \in Seq(Ed!Fields) /\ Len(<<>>) = 0 /\ DOMAIN <<>> = {}
  BY EmptySeq
<1>2. /\ fields' = <<>> /\ active' = 0 /\ editing' = 0
      /\ keyboard' = FALSE
      /\ drawing' = FALSE /\ texting' = TRUE
      /\ textButton' = TRUE /\ drawButton' = TRUE
      /\ drawColors' = FALSE /\ textColors' = FALSE
      /\ strays' = {} /\ unseen' = {} /\ slipped' = FALSE
  BY DEF TextsGone
<1>3. Ed!TypeOK'
  <2>1. 0 \in 0..0
    OBVIOUS
  <2> QED
    BY <1>1, <1>2, <2>1 DEF Ed!TypeOK
<1>4. texting' = ~drawing' /\ Ed!ColorsFitMode'
  BY <1>2 DEF Ed!ColorsFitMode
<1>5. LiftedIsActive' /\ Ed!TextIsShown' /\ Ed!EmptyFieldGoes'
  BY <1>1, <1>2 DEF LiftedIsActive, Ed!TextIsShown, Ed!EmptyFieldGoes
<1> QED
  BY <1>2, <1>3, <1>4, <1>5 DEF TextsInv

LEMMA NewEditor ==
    ASSUME Ed!Init
    PROVE  TextsInv
<1>1. <<>> \in Seq(Ed!Fields) /\ Len(<<>>) = 0 /\ DOMAIN <<>> = {}
  BY EmptySeq
<1>2. /\ fields = <<>> /\ active = 0 /\ editing = 0
      /\ keyboard = FALSE
      /\ drawing = FALSE /\ texting = TRUE
      /\ textButton = TRUE /\ drawButton = TRUE
      /\ drawColors = FALSE /\ textColors = FALSE
      /\ strays = {} /\ unseen = {} /\ slipped = FALSE
  BY DEF Ed!Init
<1>3. Ed!TypeOK
  <2>1. 0 \in 0..0
    OBVIOUS
  <2> QED
    BY <1>1, <1>2, <2>1 DEF Ed!TypeOK
<1>4. texting = ~drawing /\ Ed!ColorsFitMode
  BY <1>2 DEF Ed!ColorsFitMode
<1>5. LiftedIsActive /\ Ed!TextIsShown /\ Ed!EmptyFieldGoes
  BY <1>1, <1>2 DEF LiftedIsActive, Ed!TextIsShown, Ed!EmptyFieldGoes
<1> QED
  BY <1>2, <1>3, <1>4, <1>5 DEF TextsInv

LEMMA TextsStay ==
    ASSUME TextsInv, UNCHANGED textVars
    PROVE  TextsInv'
BY DEF textVars, TextsInv, Ed!TypeOK, Ed!ColorsFitMode, LiftedIsActive, Ed!TextIsShown,
       Ed!EmptyFieldGoes

-----------------------------------------------------------------------------
(* The upload view: the permission to use the location.                      *)

LEMMA PermissionStep ==
    ASSUME PermissionInv, [PermissionNext]_permissionVars
    PROVE  PermissionInv'
<1> USE DEF PermissionInv, PermissionTypeOK, EditorWaitsForCause, Granted, alert, Statuses,
            Screens, promptVars, listVars, editorVars
<1>1. CASE AnswerAlert
  BY <1>1 DEF AnswerAlert
<1>2. CASE Grant
  BY <1>2 DEF Grant
<1>3. CASE Revoke
  BY <1>3 DEF Revoke
<1>4. CASE DidChangeAuthorization
  BY <1>4 DEF DidChangeAuthorization
<1>5. CASE ClickWhenComplete
  BY <1>5 DEF ClickWhenComplete
<1>6. CASE ListLocated
  BY <1>6 DEF ListLocated
<1>7. CASE ListFails
  BY <1>7 DEF ListFails
<1>8. CASE CheckForNewYaks
  BY <1>8 DEF CheckForNewYaks
<1>9. CASE LeaveList
  BY <1>9 DEF LeaveList
<1>10. CASE OpenEditor
  BY <1>10 DEF OpenEditor
<1>11. CASE EditorLocated
  BY <1>11 DEF EditorLocated
<1>12. CASE EditorFails
  BY <1>12 DEF EditorFails
<1>13. CASE LeaveEditor
  BY <1>13 DEF LeaveEditor
<1>14. CASE UNCHANGED permissionVars
  BY <1>14 DEF permissionVars
<1> QED
  BY <1>1, <1>2, <1>3, <1>4, <1>5, <1>6, <1>7, <1>8, <1>9, <1>10, <1>11, <1>12, <1>13, <1>14
     DEF PermissionNext

LEMMA PermissionStarts ==
    ASSUME PermissionInit
    PROVE  PermissionInv
BY DEF PermissionInit, PermissionInv, PermissionTypeOK, EditorWaitsForCause, Granted,
       Statuses, Screens

-----------------------------------------------------------------------------
(* The upload view as one screen.                                            *)

ViewIInv == PermissionInv /\ TextsInv

LEMMA ViewStep ==
    ASSUME ViewIInv, [ViewNext]_uploadViewVars
    PROVE  ViewIInv'
<1>1. CASE Around
  BY <1>1, PermissionStep, TextsGoneKeeps, TextsStay DEF Around, ViewIInv
<1>2. CASE Edit
  BY <1>2, PermissionStep, EditKeepsTexts DEF Edit, ViewIInv
<1>3. CASE UNCHANGED uploadViewVars
  BY <1>3, PermissionStep, TextsStay DEF uploadViewVars, ViewIInv
<1> QED
  BY <1>1, <1>2, <1>3 DEF ViewNext

LEMMA ViewAlways == ViewSpec => []ViewIInv
<1>1. ViewInit => ViewIInv
  BY PermissionStarts, NewEditor DEF ViewInit, ViewIInv
<1>2. ViewIInv /\ [ViewNext]_uploadViewVars => ViewIInv'
  BY ViewStep
<1> QED
  BY <1>1, <1>2, PTL DEF ViewSpec

\* Whatever the permission does while a text is written, and however often the view
\* is opened: texts stay in sight and in their place, empty fields go, and a view
\* that cannot send was opened without the permission or met an error.
THEOREM TextsOutliveThePermission == ViewSpec => []ViewInv
<1>1. ViewIInv => ViewInv
  BY DEF ViewIInv, PermissionInv, TextsInv, ViewInv, ViewTypeOK, LiftedIsActive,
         Ed!TextComesBack
<1> QED
  BY <1>1, ViewAlways, PTL

\* The buttons fit the mode, unless the keyboard went away in drawing mode.
THEOREM ButtonsFitMode == ViewSpec => []ColorsFitMode
<1>1. ViewIInv => ColorsFitMode
  BY DEF ViewIInv, TextsInv, ColorsFitMode
<1> QED
  BY <1>1, ViewAlways, PTL

\* Without the permission the list is behind the prompt, unless it was told so
\* while another screen was in front.
THEOREM ListIsGuarded == ViewSpec => []PromptGuardsList
<1>1. ViewIInv => PromptGuardsList
  BY DEF ViewIInv, PermissionInv, PromptGuardsList
<1> QED
  BY <1>1, ViewAlways, PTL

=============================================================================
