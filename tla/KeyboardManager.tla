--------------------------- MODULE KeyboardManager ---------------------------
(***************************************************************************)
(* IQKeyboardManager: the singleton that listens to the keyboard and       *)
(* editing notifications and moves the root view so that the field being   *)
(* edited stays above the keyboard, then puts everything back.             *)
(*                                                                         *)
(* Handlers run one at a time on the main thread, but which notification   *)
(* comes when is UIKit's business: a text field posts DidBeginEditing      *)
(* before the keyboard shows, a text view after it, and the manager itself *)
(* resigns and reactivates a text view to give it a toolbar.  UIKit is the *)
(* queue of notifications one event makes it post, in the order that       *)
(* IQKeyboardManagerConstants.h draws.  Portrait, no field inside a scroll *)
(* view, the fields of one page at a time: as on the application's pages.  *)
(***************************************************************************)
EXTENDS Integers, Sequences

CONSTANTS
    Order,          \* the fields of the page, in subview order
    TextViews,      \* those that are UITextViews; the others are UITextFields
    Top, Bottom,    \* edges of a frame in the root view, per frame
    NoField,        \* nil
    ZeroFrame,      \* the frame of nil: CGRectZero
    WindowHeight,
    StatusBar,
    Distance,       \* keyboardDistanceFromTextField
    Toolbar,        \* height of an IQToolbar
    Inputs,         \* heights of the input methods, toolbar excluded
    MayToggle       \* somebody calls setEnable: after +load (nobody here does)

Fields == {Order[i] : i \in 1..Len(Order)}
Frames == Fields \cup {ZeroFrame}

ASSUME FieldsAssumption ==
    /\ Order \in Seq(Fields)
    /\ NoField \notin Fields
    /\ ZeroFrame \notin Fields
    /\ TextViews \subseteq Fields
    /\ MayToggle \in BOOLEAN

ASSUME GeometryAssumption ==
    /\ Top \in [Frames -> Int] /\ Bottom \in [Frames -> Int]
    /\ WindowHeight \in Nat /\ StatusBar \in Nat
    /\ Distance \in Nat /\ Toolbar \in Nat
    /\ Inputs \subseteq Nat \ {0}

VARIABLES
    enabled,    \* _enable
    field,      \* _textFieldView
    showing,    \* isKeyboardShowing
    kbHeight,   \* kbSize.height, the distance included
    saved,      \* height in kbShowNotification, 0 for nil
    begin,      \* topViewBeginRect: [y, h]
    root,       \* frame of the root view: [y, h]
    initial,    \* textFieldViewIntialFrame
    frame,      \* frame of each field
    toolbar,    \* the fields of the page have their toolbar
    bounce,     \* text view to be resigned and reactivated by a completion block
    focus,      \* UIKit: the first responder
    input,      \* UIKit: height of the selected input method
    keyboard,   \* UIKit: height of the keyboard on screen, 0 for none
    queue,      \* UIKit: notifications still to be delivered
    shift       \* how far the page itself has moved its fields

manager == <<enabled, field, showing, kbHeight, saved, begin, root, initial,
             frame, toolbar, bounce>>
uikit   == <<focus, input, keyboard, queue>>
vars    == <<manager, uikit, shift>>

Home == [y |-> 0, h |-> WindowHeight]
CGRectZero == [y |-> 0, h |-> 0]

Notification ==
    [name : {"WillShow"}, height : Nat] \cup [name : {"WillHide", "DidEnd"}]
        \cup [name : {"DidBegin"}, of : Fields]

TypeOK ==
    /\ enabled \in BOOLEAN
    /\ field \in Fields \cup {NoField}
    /\ showing \in BOOLEAN
    /\ kbHeight \in Nat
    /\ saved \in Nat
    /\ begin \in [y : Int, h : {0, WindowHeight}]
    /\ root \in [y : Int, h : {0, WindowHeight}]
    /\ initial \in Frames
    /\ frame \in [Fields -> Frames]
    /\ toolbar \in BOOLEAN
    /\ bounce \in Fields \cup {NoField}
    /\ focus \in Fields \cup {NoField}
    /\ input \in Inputs
    /\ keyboard \in Nat
    /\ queue \in Seq(Notification)
    /\ shift \in Int

(* After +load: enabled, nothing observed yet. *)
Init ==
    /\ enabled = TRUE
    /\ field = NoField
    /\ showing = FALSE
    /\ kbHeight = 0
    /\ saved = 0
    /\ begin = CGRectZero
    /\ root = Home
    /\ initial = ZeroFrame
    /\ frame = [f \in Fields |-> f]
    /\ toolbar = FALSE
    /\ bounce = NoField
    /\ focus = NoField
    /\ input \in Inputs
    /\ keyboard = 0
    /\ queue = <<>>
    /\ shift = 0

------------------------------------------------------------------------------
(* The notification handlers *)

Min2(a, b) == IF a <= b THEN a ELSE b
Max2(a, b) == IF a >= b THEN a ELSE b

(* How far the content has to go up when a frame g is moved by d: its      *)
(* bottom to the keyboard, but its top not above the status bar.           *)
Move(g, d, h) == Min2(Bottom[g] + d - (WindowHeight - h), Top[g] + d - (5 + StatusBar))

(* Mutants: the root view is resized, not only moved; it is never let down. *)
AdjustedResized(f, d, h, b) == [y |-> root.y, h |-> WindowHeight - h]

AdjustedUpOnly(f, d, h, b) ==
    [root EXCEPT !.y = @ - Max2(0, Move(frame[f], d + root.y, h))]

(* adjustFrame, for a field f that is not nil on a page shifted by d: up   *)
(* by a positive move, down by a negative one, but never below the frame b *)
(* that the root view began at.                                            *)
Adjusted(f, d, h, b) ==
    LET move      == Move(frame[f], d + root.y, h)
        disturbed == root.y - b.y
        y         == IF move >= 0 THEN root.y - move
                     ELSE IF disturbed < 0 THEN root.y - Max2(move, disturbed)
                     ELSE root.y
    IN  [root EXCEPT !.y = y]

FrameOf(f) == IF f = NoField THEN ZeroFrame ELSE frame[f]

(* Mutant: keyboardDistanceFromTextField is not added. *)
KeyboardWillShowBare(h) ==
    /\ enabled
    /\ saved' = h
    /\ initial' = FrameOf(field)
    /\ kbHeight' = h
    /\ IF field # NoField
         THEN showing' = TRUE /\ root' = Adjusted(field, shift, kbHeight', begin)
         ELSE UNCHANGED <<showing, root>>
    /\ UNCHANGED <<enabled, field, begin, frame, toolbar, bounce>>

(* keyboardWillShow with a notification that carries height h. *)
KeyboardWillShow(h) ==
    /\ saved' = h
    /\ \/ /\ ~enabled
          /\ UNCHANGED <<initial, kbHeight, showing, root>>
       \/ /\ enabled
          /\ initial' = FrameOf(field)
          /\ kbHeight' = h + Distance
          /\ IF kbHeight' # kbHeight /\ field # NoField
               THEN /\ showing' = TRUE
                    /\ root' = Adjusted(field, shift, kbHeight', begin)
               ELSE UNCHANGED <<showing, root>>
    /\ UNCHANGED <<enabled, field, begin, frame, toolbar, bounce>>

(* Mutant: the root view stays where it is. *)
RestoreKeepsRoot ==
    /\ field # NoField
    /\ frame' = [frame EXCEPT ![field] = initial]
    /\ showing' = FALSE
    /\ kbHeight' = 0
    /\ UNCHANGED root

(* keyboardWillHide past its first line: nothing at all without a field. *)
Restore ==
    \/ /\ ~enabled \/ field = NoField
       /\ UNCHANGED <<frame, showing, kbHeight, root>>
    \/ /\ enabled /\ field # NoField
       /\ frame' = [frame EXCEPT ![field] = initial]
       /\ showing' = FALSE
       /\ kbHeight' = 0
       /\ root' = begin

KeyboardWillHide ==
    /\ saved' = 0
    /\ Restore
    /\ UNCHANGED <<enabled, field, begin, initial, toolbar, bounce>>

(* Mutants: the frame saved is the one of the field before; no text view   *)
(* is reactivated.                                                         *)
DidBeginKeepsInitial(f) ==
    /\ field' = f
    /\ toolbar' = TRUE
    /\ bounce' = IF f \in TextViews /\ ~toolbar THEN f ELSE bounce
    /\ begin' = IF showing THEN begin ELSE root
    /\ showing' = TRUE
    /\ root' = Adjusted(f, shift', kbHeight, begin')
    /\ UNCHANGED <<enabled, kbHeight, saved, frame, initial>>

DidBeginWithoutBounce(f) ==
    /\ field' = f
    /\ initial' = frame[f]
    /\ toolbar' = TRUE
    /\ begin' = IF showing THEN begin ELSE root
    /\ showing' = TRUE
    /\ root' = Adjusted(f, shift', kbHeight, begin')
    /\ UNCHANGED <<enabled, kbHeight, saved, frame, bounce>>

(* textFieldViewDidBeginEditing: a text view without a toolbar will be     *)
(* resigned and reactivated once it has one.  The page's own delegate has  *)
(* been called before, and may have shifted the page.                      *)
DidBeginEditing(f) ==
    /\ field' = f
    /\ initial' = frame[f]
    /\ toolbar' = TRUE
    /\ bounce' = IF f \in TextViews /\ ~toolbar THEN f ELSE bounce
    /\ \/ /\ ~enabled
          /\ UNCHANGED <<begin, showing, root>>
       \/ /\ enabled
          /\ begin' = IF showing THEN begin ELSE root
          /\ showing' = TRUE
          /\ root' = Adjusted(f, shift', kbHeight, begin')
    /\ UNCHANGED <<enabled, kbHeight, saved, frame>>

DidEndEditing ==
    /\ frame' = IF field = NoField THEN frame ELSE [frame EXCEPT ![field] = initial]
    /\ field' = NoField
    /\ UNCHANGED <<enabled, showing, kbHeight, saved, begin, root, initial,
                   toolbar, bounce>>

(* Mutant: nothing is replayed. *)
SetEnableOnly ==
    /\ MayToggle
    /\ queue = <<>>
    /\ ~enabled
    /\ enabled' = TRUE
    /\ UNCHANGED <<field, showing, kbHeight, saved, begin, root, initial, frame,
                   toolbar, bounce, uikit>>

(* setEnable:YES replays the last WillShow, setEnable:NO a WillHide that   *)
(* leaves kbShowNotification alone.                                        *)
SetEnable ==
    /\ MayToggle
    /\ queue = <<>>
    /\ ~enabled
    /\ enabled' = TRUE
    /\ IF saved = 0
         THEN UNCHANGED <<initial, kbHeight, showing, root>>
         ELSE /\ initial' = FrameOf(field)
              /\ kbHeight' = saved + Distance
              /\ IF kbHeight' # kbHeight /\ field # NoField
                   THEN /\ showing' = TRUE
                        /\ root' = Adjusted(field, shift, kbHeight', begin)
                   ELSE UNCHANGED <<showing, root>>
    /\ UNCHANGED <<field, saved, begin, frame, toolbar, bounce, uikit>>

SetDisable ==
    /\ MayToggle
    /\ queue = <<>>
    /\ enabled
    /\ enabled' = FALSE
    /\ Restore
    /\ UNCHANGED <<field, saved, begin, initial, toolbar, bounce, uikit>>

------------------------------------------------------------------------------
(* UIKit *)

WillShow(h) == [name |-> "WillShow", height |-> h]
WillHide    == [name |-> "WillHide"]
DidBegin(f) == [name |-> "DidBegin", of |-> f]
DidEnd      == [name |-> "DidEnd"]

(* The keyboard that comes up for f: with the toolbar if it is there by    *)
(* then, and a text field gets its toolbar in time.                        *)
HeightFor(f) == input + IF toolbar \/ f \notin TextViews THEN Toolbar ELSE 0

(* f becomes first responder of a window without one: a text field begins  *)
(* before the keyboard shows, a text view after it.                        *)
Beginning(f) ==
    IF f \in TextViews THEN <<WillShow(HeightFor(f)), DidBegin(f)>>
                       ELSE <<DidBegin(f), WillShow(HeightFor(f))>>

(* f takes over from another field: the old one ends first.  The keyboard  *)
(* stays; WillShow is posted if its height changes, and may be otherwise.  *)
Switching(f) ==
    { <<DidEnd>> \o Beginning(f) }
        \cup IF HeightFor(f) = keyboard THEN { <<DidEnd, DidBegin(f)>> } ELSE {}

(* What [f becomeFirstResponder] posts. *)
Becoming(f) ==
    IF focus = NoField THEN { Beginning(f) }
    ELSE IF focus = f THEN { <<>> }
    ELSE Switching(f)

Resigning == <<WillHide, DidEnd>>

BecomeFirstResponder(f) ==
    /\ queue = <<>>
    /\ queue' \in Becoming(f)
    /\ focus' = f
    /\ UNCHANGED <<manager, input, keyboard>>

TapField(f) == focus # f /\ BecomeFirstResponder(f)

(* The arrows of the toolbar: the neighbour of _textFieldView, if any. *)
Neighbour(step) ==
    \E i \in 1..Len(Order) :
        /\ Order[i] = field
        /\ i + step \in 1..Len(Order)
        /\ BecomeFirstResponder(Order[i + step])

PreviousAction == toolbar /\ Neighbour(-1)
NextAction     == toolbar /\ Neighbour(1)

(* The Done button, the return key, a tap outside, a page that goes away. *)
Dismiss ==
    /\ queue = <<>>
    /\ focus # NoField
    /\ queue' = Resigning
    /\ focus' = NoField
    /\ UNCHANGED <<manager, input, keyboard>>

ChangeInput(h) ==
    /\ queue = <<>>
    /\ keyboard # 0
    /\ h # input
    /\ input' = h
    /\ queue' = <<WillShow(keyboard - input + h)>>
    /\ UNCHANGED <<manager, focus, keyboard>>

(* The completion block of DidBeginEditing: resign, then become; nothing   *)
(* says that the view is still the first responder when it runs.           *)
RunCompletion ==
    /\ queue = <<>>
    /\ bounce # NoField
    /\ IF focus = bounce
         THEN queue' = Resigning \o Beginning(bounce)
         ELSE queue' \in Becoming(bounce)
    /\ focus' = bounce
    /\ bounce' = NoField
    /\ UNCHANGED <<enabled, field, showing, kbHeight, saved, begin, root,
                   initial, frame, toolbar, input, keyboard>>

(* The page is popped, and opened again later with new fields. *)
LeavePage ==
    /\ queue = <<>>
    /\ focus = NoField
    /\ toolbar' = FALSE
    /\ bounce' = NoField
    /\ UNCHANGED <<enabled, field, showing, kbHeight, saved, begin, root,
                   initial, frame, uikit>>

Deliver ==
    /\ queue # <<>>
    /\ queue' = Tail(queue)
    /\ \/ /\ Head(queue).name = "WillShow"
          /\ keyboard' = Head(queue).height
          /\ KeyboardWillShow(Head(queue).height)
       \/ /\ Head(queue).name = "WillHide"
          /\ keyboard' = 0
          /\ KeyboardWillHide
       \/ /\ Head(queue).name = "DidBegin"
          /\ DidBeginEditing(Head(queue).of)
          /\ UNCHANGED keyboard
       \/ /\ Head(queue).name = "DidEnd"
          /\ DidEndEditing
          /\ UNCHANGED keyboard
    /\ UNCHANGED <<focus, input>>

(* The pages that leave their fields where they are. *)
KeyboardStep ==
    \/ \E f \in Fields : TapField(f)
    \/ PreviousAction
    \/ NextAction
    \/ Dismiss
    \/ \E h \in Inputs : ChangeInput(h)
    \/ RunCompletion
    \/ LeavePage
    \/ Deliver
    \/ SetEnable
    \/ SetDisable

Next == UNCHANGED shift /\ KeyboardStep

(* The run loop delivers notifications, and comes to every completion      *)
(* block however busy the user is.                                         *)
Fairness ==
    /\ WF_vars(UNCHANGED shift /\ Deliver)
    /\ SF_vars(UNCHANGED shift /\ RunCompletion)

Spec == Init /\ [][Next]_vars /\ Fairness

------------------------------------------------------------------------------
(* Properties *)

Settled == queue = <<>>

(* Once every notification has been delivered and no keyboard is on        *)
(* screen, the root view has its original frame: keyboardWillHide sets     *)
(* "rootViewController frame to it's original position".                   *)
RestoredWhenHidden == Settled /\ keyboard = 0 => root = Home

(* Also when it is switched off and on at any time, the manager puts the   *)
(* root view back to the frame it has saved, once it has saved one: no     *)
(* order of fields, keyboards and switching leaves the page lifted.        *)
RestoredOnceSaved ==
    Settled /\ keyboard = 0 /\ begin # CGRectZero => root = Home

(* While a field is edited it is visible: Distance above the keyboard, or  *)
(* with its top at the status bar when it does not fit; also after the     *)
(* manager has been off for a while (setEnable: replays the notification). *)
FieldVisible ==
    Settled /\ enabled /\ focus # NoField =>
        \/ Bottom[focus] + shift + root.y <= WindowHeight - keyboard - Distance
        \/ Top[focus] + shift + root.y = StatusBar + 5

(* The lift depends on the edited field and the keyboard only, not on how  *)
(* the user got there: moving up and down through fields and input methods *)
(* leaves no residue (adjustFrame's relative moves add up).                *)
Lift(f, h) == Max2(0, Min2(Bottom[f] - (WindowHeight - h), Top[f] - (5 + StatusBar)))
NoResidue ==
    Settled /\ enabled /\ focus # NoField =>
        root.y = - Lift(focus, keyboard + Distance)

(* Saving and restoring the frame of whatever is edited never gives a      *)
(* field the frame of another one, nor the zero frame of nil.              *)
FramesIntact == \A f \in Fields : frame[f] = f

(* The manager edits what UIKit edits, and knows the keyboard's height; it *)
(* keeps up while it is disabled, and has both right once it is enabled.   *)
InStepWithUIKit ==
    Settled =>
        /\ field = focus
        /\ saved = keyboard
        /\ focus # NoField <=> keyboard # 0
        /\ enabled => kbHeight = IF keyboard = 0 THEN 0 ELSE keyboard + Distance

(* Whatever is edited gets a keyboard with a toolbar in the end, unless    *)
(* the user stops editing: no text view is left with the keyboard that     *)
(* came up before it had its toolbar.                                      *)
ToolbarInTheEnd ==
    focus # NoField ~> (focus = NoField \/ (Settled /\ keyboard = input + Toolbar))
==============================================================================
