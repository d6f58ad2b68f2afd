------------------------------- MODULE ChatBar -------------------------------
(***************************************************************************)
(* The bar at the bottom of the chat page, with the text view in it, and   *)
(* the two parties that move it: the page itself, which slides the bar by  *)
(* a fixed length when editing begins or ends, by 36 points when it hears  *)
(* that the keyboard has the height of the other language, and by the      *)
(* bar's height when the user swipes; and IQKeyboardManager, which lifts   *)
(* the root view under it.  Neither knows of the other.                    *)
(*                                                                         *)
(* One page from its push to its pop.  The page never removes its observer *)
(* (initBottomView, dealloc): what a frame notification does once the page *)
(* is gone is undefined, and the model stops there.                        *)
(***************************************************************************)
EXTENDS KeyboardManager

CONSTANTS
    BarHeight,  \* height of the bar, 49
    MaxSwipes,  \* bound: swipes in each direction
    MaxFrames   \* bound: keyboard animations under way

EnglishHeight == 216
ChineseHeight == 252

ASSUME BarAssumption ==
    /\ BarHeight \in Nat /\ MaxSwipes \in Nat /\ MaxFrames \in Nat
    /\ Len(Order) = 1 /\ TextViews = Fields
    /\ ~MayToggle

VARIABLES
    keyBoardIsOpen,
    isEng,
    scroll,     \* by how much the height of the scroll view has grown
    frames,     \* UIKit: heights of the DidChangeFrame still to be delivered
    ups, downs, \* history: swipes that moved the bar
    gone        \* the page has been popped

bar     == <<keyBoardIsOpen, isEng, shift, scroll>>
history == <<ups, downs, gone>>
barVars == <<manager, uikit, bar, frames, history>>

Box == Order[1]

BarTypeOK ==
    /\ TypeOK
    /\ keyBoardIsOpen \in BOOLEAN
    /\ isEng \in BOOLEAN
    /\ scroll \in Int
    /\ frames \in Seq(Nat)
    /\ ups \in Nat /\ downs \in Nat
    /\ gone \in BOOLEAN

BarInit ==
    /\ Init
    /\ keyBoardIsOpen = FALSE
    /\ isEng = TRUE
    /\ scroll = 0
    /\ frames = <<>>
    /\ ups = 0 /\ downs = 0
    /\ gone = FALSE

(* The bar and the lower edge of the scroll view move together. *)
Slide(length) ==
    /\ shift' = shift + length
    /\ scroll' = scroll + length

(* Mutant: the bar goes back by the English height whatever the language. *)
CloseBarAsEnglish == keyBoardIsOpen' = FALSE /\ isEng' = TRUE /\ Slide(EnglishHeight)

(* moveView, per length it is called with.  The system's tab bar is hidden *)
(* (MyTabBarController), so its height never enters; and moving back by    *)
(* the Chinese height sets isEng, too.                                     *)
OpenBar  == keyBoardIsOpen' = TRUE  /\ isEng' = TRUE  /\ Slide(-EnglishHeight)
CloseBar == keyBoardIsOpen' = FALSE /\ isEng' = TRUE  /\
            Slide(IF isEng THEN EnglishHeight ELSE ChineseHeight)
ToEnglish == isEng' = TRUE  /\ Slide(ChineseHeight - EnglishHeight) /\ UNCHANGED keyBoardIsOpen
ToChinese == isEng' = FALSE /\ Slide(EnglishHeight - ChineseHeight) /\ UNCHANGED keyBoardIsOpen

(* handleGesture: not while the keyboard is open.  Both directions push    *)
(* the bar down by its height; only the scroll view is told apart.         *)
SwipeDown ==
    /\ Settled /\ ~gone
    /\ ~keyBoardIsOpen
    /\ downs < MaxSwipes
    /\ downs' = downs + 1
    /\ Slide(BarHeight)
    /\ UNCHANGED <<manager, uikit, keyBoardIsOpen, isEng, frames, ups, gone>>

SwipeUp ==
    /\ Settled /\ ~gone
    /\ ~keyBoardIsOpen
    /\ ups < MaxSwipes
    /\ ups' = ups + 1
    /\ shift' = shift + BarHeight
    /\ scroll' = scroll - BarHeight
    /\ UNCHANGED <<manager, uikit, keyBoardIsOpen, isEng, frames, downs, gone>>

(* Mutant: without the test of isEng. *)
KeyboardWasChangedAgain ==
    /\ frames # <<>>
    /\ frames' = Tail(frames)
    /\ IF keyBoardIsOpen /\ Head(frames) = EnglishHeight THEN ToEnglish ELSE UNCHANGED bar
    /\ UNCHANGED <<manager, uikit, history>>

(* keyboardWasChanged: a keyboard animation has ended with height h. *)
KeyboardWasChanged ==
    /\ ~gone
    /\ frames # <<>>
    /\ frames' = Tail(frames)
    /\ \/ keyBoardIsOpen /\ ~isEng /\ Head(frames) = EnglishHeight /\ ToEnglish
       \/ keyBoardIsOpen /\ isEng /\ Head(frames) = ChineseHeight /\ ToChinese
       \/ /\ ~ (keyBoardIsOpen /\ ~isEng /\ Head(frames) = EnglishHeight)
          /\ ~ (keyBoardIsOpen /\ isEng /\ Head(frames) = ChineseHeight)
          /\ UNCHANGED bar
    /\ UNCHANGED <<manager, uikit, history>>

(* A notification reaches the page first, as the text view's delegate, and *)
(* the manager second.  The animation of a keyboard that comes or goes     *)
(* ends in a DidChangeFrame, unless the next animation interrupts it.      *)
EndHeight == IF Head(queue).name = "WillShow" THEN Head(queue).height ELSE keyboard

BarDeliver ==
    /\ ~gone
    /\ queue # <<>>
    /\ \/ /\ Head(queue).name \in {"WillShow", "WillHide"}
          /\ UNCHANGED bar
          /\ \/ frames' = <<EndHeight>>
             \/ Len(frames) < MaxFrames /\ frames' = Append(frames, EndHeight)
       \/ /\ Head(queue).name = "DidBegin"
          /\ OpenBar
          /\ UNCHANGED frames
       \/ /\ Head(queue).name = "DidEnd"
          /\ CloseBar
          /\ UNCHANGED frames
    /\ Deliver
    /\ UNCHANGED history

(* A bar that has been swiped off the screen cannot be tapped. *)
TapBox == Top[Box] + shift + root.y < WindowHeight /\ TapField(Box)

(* What leaves the bar alone: the rest of UIKit's part. *)
Elsewhere ==
    /\ ~gone
    /\ UNCHANGED <<bar, frames, ups, downs>>
    /\ \/ /\ \/ TapBox
             \/ Dismiss
             \/ \E h \in Inputs : ChangeInput(h)
             \/ RunCompletion
          /\ UNCHANGED gone
       \/ /\ LeavePage
          /\ gone' = TRUE

BarNext ==
    \/ SwipeDown
    \/ SwipeUp
    \/ KeyboardWasChanged
    \/ BarDeliver
    \/ Elsewhere

BarSpec == BarInit /\ [][BarNext]_barVars

------------------------------------------------------------------------------
(* Properties *)

(* Where the page believes the keyboard has put the bar. *)
KeyboardPart ==
    IF ~keyBoardIsOpen THEN 0 ELSE IF isEng THEN -EnglishHeight ELSE -ChineseHeight

(* Every slide is taken back by its opposite: whatever the user types,     *)
(* switches and dismisses, and however late the frame notifications come,  *)
(* the bar is where the keyboard and the swipes have put it, and never     *)
(* creeps up or down by 36, 216 or 252 points (moveView).  The scroll view *)
(* goes along, but for the swipes up, which push the bar down, too, and    *)
(* leave a gap of twice its height.                                        *)
BarNeverCreeps ==
    /\ shift  = KeyboardPart + BarHeight * (downs + ups)
    /\ scroll = KeyboardPart + BarHeight * (downs - ups)

(* Two movers that do not know of each other: the page may take back the   *)
(* difference of the two heights (moveView) after the manager has counted  *)
(* on it (adjustFrame), but only once, however many frame notifications    *)
(* come late and in whatever order input methods, swipes and reactivations *)
(* come between.  The text view is at most that much less than Distance    *)
(* above the keyboard; when it does not fit there, its top is at most that *)
(* far from the status bar.                                                *)
Slack == ChineseHeight - EnglishHeight

BoxFollowsKeyboard ==
    Settled /\ focus = Box =>
        \/ Bottom[Box] + shift + root.y <= WindowHeight - keyboard - Distance + Slack
        \/ (Top[Box] + shift + root.y) - (StatusBar + 5) \in -Slack .. Slack
==============================================================================
