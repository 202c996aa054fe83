------------------------------- MODULE Editor -------------------------------
(***************************************************************************)
(* The upload view as an editor: text fields over the picture, a drawing    *)
(* mode, and the keyboard, which lifts the active field above itself and    *)
(* puts it back.  Colours and the points of a stroke are left out.          *)
(***************************************************************************)
EXTENDS Naturals, Sequences

CONSTANT MaxFields  \* bound: text fields created

VARIABLES
    fields,      \* textFields, in the order of their creation
    active,      \* activeTextField, by its index, 0 for none
    editing,     \* the field the keyboard writes to
    keyboard,    \* keyboardIsVisible
    drawing,     \* drawViewOutlet.isUserInteractionEnabled
    texting,     \* textViewOutlet.isUserInteractionEnabled
    textButton,  \* createTextOutlet is visible
    drawButton,  \* createDrawingOutlet is visible
    drawColors,  \* drawColorButtonsStack is visible
    textColors,  \* textColorButtonsStack is visible
    strays,      \* history: fields that stopped being active under the keyboard,
                 \* or were written to without being active
    unseen,      \* history: hidden fields the keyboard came up for
    slipped      \* history: the keyboard went away in drawing mode, and the mode
                 \* has not been entered again since

fieldVars == <<fields, active, editing, strays, unseen>>
modeVars == <<drawing, texting, drawColors, slipped>>
vars == <<fieldVars, keyboard, modeVars, textButton, drawButton, textColors>>

\* Where a field is: where it was created, lifted above the keyboard, or
\* wherever it was dragged.
Heights == {"middle", "above", "dragged"}

Fields == [filled : BOOLEAN, hidden : BOOLEAN, y : Heights]
NewField == [filled |-> FALSE, hidden |-> FALSE, y |-> "middle"]

TypeOK ==
    /\ fields \in Seq(Fields)
    /\ active \in 0..Len(fields) /\ editing \in 0..Len(fields)
    /\ keyboard \in BOOLEAN
    /\ drawing \in BOOLEAN /\ texting \in BOOLEAN
    /\ textButton \in BOOLEAN /\ drawButton \in BOOLEAN
    /\ drawColors \in BOOLEAN /\ textColors \in BOOLEAN
    /\ strays \in SUBSET DOMAIN fields /\ unseen \in SUBSET DOMAIN fields
    /\ slipped \in BOOLEAN

Init ==
    /\ fields = <<>> /\ active = 0 /\ editing = 0
    /\ keyboard = FALSE
    /\ drawing = FALSE /\ texting = TRUE
    /\ textButton = TRUE /\ drawButton = TRUE
    /\ drawColors = FALSE /\ textColors = FALSE
    /\ strays = {} /\ unseen = {} /\ slipped = FALSE

-----------------------------------------------------------------------------
(* The keyboard.                                                             *)

\* keyboardWillShow with fs for the fields and a for the active one, which is
\* lifted and becomes the one written to, whichever was touched.
KeyboardWillShow(fs, a) ==
    /\ keyboard' = TRUE
    /\ textColors' = TRUE
    /\ fields' = [fs EXCEPT ![a].y = "above"]
    /\ active' = a
    /\ editing' = a

\* The active field goes back if it has text, to the height of the last field
\* created: all are created at the same one.
PutBack(fs) ==
    IF active # 0 /\ fs[active].filled THEN [fs EXCEPT ![active].y = "middle"] ELSE fs

\* Mutant of HideEmpty: the last field is hidden if the active one is empty.
HideLastForActive(fs) ==
    IF active # 0 /\ ~fs[active].filled THEN [fs EXCEPT ![Len(fs)].hidden = TRUE] ELSE fs

\* Of the empty fields only the last is hidden.
HideEmpty(fs) ==
    IF fs # <<>> /\ ~fs[Len(fs)].filled THEN [fs EXCEPT ![Len(fs)].hidden = TRUE] ELSE fs

KeyboardWillHide ==
    /\ keyboard' = FALSE
    /\ textColors' = FALSE
    /\ textButton' = TRUE
    /\ drawButton' = TRUE
    /\ fields' = HideEmpty(PutBack(fields))
    /\ slipped' = (slipped \/ drawing)
    /\ UNCHANGED <<active, editing, strays, unseen>>

\* Return, in the field.
Return ==
    /\ keyboard
    /\ KeyboardWillHide
    /\ UNCHANGED <<drawing, texting, drawColors>>

Type ==
    /\ keyboard
    /\ fields' = [fields EXCEPT ![editing].filled = ~@]
    /\ strays' = IF editing = active THEN strays ELSE strays \cup {editing}
    /\ UNCHANGED <<active, editing, unseen, keyboard, modeVars, textButton,
                   drawButton, textColors>>

-----------------------------------------------------------------------------
(* Text.                                                                     *)

\* A new field, for which the keyboard comes up, or, with the keyboard up, the
\* end of editing.
CreateTextMessage ==
    \/ /\ ~keyboard
       /\ Len(fields) < MaxFields
       /\ KeyboardWillShow(Append(fields, NewField), Len(fields) + 1)
       /\ drawButton' = FALSE
       /\ UNCHANGED <<textButton, strays, unseen, slipped>>
    \/ /\ keyboard
       /\ KeyboardWillHide

\* createTextAcction: drawing ends, and its colours stay as they are.
CreateText ==
    /\ textButton
    /\ drawing' = FALSE
    /\ texting' = TRUE
    /\ CreateTextMessage
    /\ UNCHANGED drawColors

\* A field is touched: the gesture may make it the active one, and the system may
\* bring up the keyboard for it or turn the one that is up to it.
TouchField(i) ==
    /\ texting
    /\ ~fields[i].hidden
    /\ \E a \in {active, i} :
           /\ strays' = IF keyboard /\ a # active THEN strays \cup {active} ELSE strays
           /\ \/ /\ KeyboardWillShow(fields, a)
                 /\ unseen' = IF fields[a].hidden THEN unseen \cup {a} ELSE unseen
              \/ /\ active' = a
                 /\ editing' \in IF keyboard THEN {editing, i} ELSE {editing}
                 /\ UNCHANGED <<fields, unseen, keyboard, textColors>>
    /\ UNCHANGED <<modeVars, textButton, drawButton>>

DragField(i) ==
    /\ texting
    /\ ~fields[i].hidden
    /\ fields' = [fields EXCEPT ![i].y = "dragged"]
    /\ UNCHANGED <<active, editing, strays, unseen, keyboard, modeVars, textButton,
                   drawButton, textColors>>

-----------------------------------------------------------------------------
(* Drawing.                                                                  *)

\* Mutant of CreateDrawing: the colours are shown, and never hidden.
CreateDrawingKeepsColors ==
    /\ drawButton
    /\ drawing' = ~drawing
    /\ textButton' = drawing
    /\ drawColors' = TRUE
    /\ texting' = drawing
    /\ slipped' = FALSE
    /\ UNCHANGED <<fieldVars, keyboard, drawButton, textColors>>

\* createDrawingAction, which leaves the keyboard alone.
CreateDrawing ==
    /\ drawButton
    /\ drawing' = ~drawing
    /\ textButton' = drawing
    /\ drawColors' = ~drawing
    /\ texting' = drawing
    /\ slipped' = FALSE
    /\ UNCHANGED <<fieldVars, keyboard, drawButton, textColors>>

Next ==
    \/ Return \/ Type
    \/ CreateText
    \/ \E i \in DOMAIN fields : TouchField(i) \/ DragField(i)
    \/ CreateDrawing

Spec == Init /\ [][Next]_vars

-----------------------------------------------------------------------------
(* Properties.                                                               *)

\* The colours for drawing are there exactly in drawing mode, and the text button
\* exactly outside it, unless the keyboard was still up when the mode was entered
\* and has gone since: it brings the text button back, which leaves the mode
\* without its colours.
ColorsFitMode == ~slipped => drawColors = drawing /\ textButton = texting

\* With the keyboard gone a text is back in its place, or where it was dragged,
\* however the fields were touched, unless the active field and the one written to
\* parted under the keyboard.
TextComesBack == ~keyboard => \A i \in DOMAIN fields :
    fields[i].filled /\ fields[i].y = "above" => i \in strays

\* A text is on the picture, or the keyboard came up for its field when that was
\* hidden: the field touched last, left empty, is the active one still when
\* another is touched, and what is typed then goes where nobody sees it.
TextIsShown == \A i \in DOMAIN fields :
    fields[i].filled /\ fields[i].hidden => i \in unseen

\* With the keyboard gone the last field is hidden if it is empty, also when an
\* older field was edited after it.
EmptyFieldGoes == ~keyboard /\ fields # <<>> =>
    fields[Len(fields)].filled \/ fields[Len(fields)].hidden

=============================================================================
