------------------------------- MODULE FanMenu -------------------------------
(***************************************************************************)
(* The fan menu of the Four page: five buttons that wait off the screen,   *)
(* fly out along a curve and are put away again.  A button is drawn where  *)
(* its animation has left it, but is touched where its centre is, and the  *)
(* centres only follow when an animation has stopped.  The animations are  *)
(* never cancelled, so they may stop long after the menu was put away.     *)
(* The five buttons are always treated alike and share their state here.   *)
(***************************************************************************)
EXTENDS Integers

CONSTANTS
    Buttons,    \* number of buttons: 5
    MaxRunning  \* bound: animations under way

ASSUME FanAssumption == Buttons \in Nat \ {0} /\ MaxRunning \in Nat

VARIABLES
    isShow,
    hidden,     \* of the buttons
    center,     \* of the buttons: "away" (off the screen) or "out"
    turned,     \* the set button is upside down
    running     \* animations whose animationDidStop has still to be called

menuVars == <<isShow, hidden, center, turned, running>>

MenuTypeOK ==
    /\ isShow \in BOOLEAN
    /\ hidden \in BOOLEAN
    /\ center \in {"away", "out"}
    /\ turned \in BOOLEAN
    /\ running \in Nat

(* initButtons *)
MenuInit ==
    /\ isShow = FALSE
    /\ hidden = FALSE
    /\ center = "away"
    /\ turned = FALSE
    /\ running = 0

(* Mutant: the animations have no delegate. *)
ShowMenuUnheard ==
    /\ isShow' = TRUE
    /\ turned' = ~turned
    /\ hidden' = FALSE
    /\ UNCHANGED <<center, running>>

ShowMenu ==
    /\ running + Buttons <= MaxRunning
    /\ isShow' = TRUE
    /\ turned' = ~turned
    /\ hidden' = FALSE
    /\ running' = running + Buttons
    /\ UNCHANGED center

(* Mutant: the buttons are moved away and not hidden. *)
HideMenuByCentre ==
    /\ isShow' = FALSE
    /\ turned' = ~turned
    /\ center' = "away"
    /\ UNCHANGED <<hidden, running>>

HideMenu ==
    /\ isShow' = FALSE
    /\ turned' = ~turned
    /\ hidden' = TRUE
    /\ center' = "away"
    /\ UNCHANGED running

SwipeLeft  == ~isShow /\ ShowMenu
SwipeRight == isShow /\ HideMenu
ClickBegin == SwipeLeft \/ SwipeRight

(* One of the animations has stopped; nobody looks at isShow. *)
AnimationDidStop ==
    /\ running > 0
    /\ running' = running - 1
    /\ center' = "out"
    /\ UNCHANGED <<isShow, hidden, turned>>

MenuNext == ClickBegin \/ AnimationDidStop

(* Core Animation calls the delegate of every animation in the end. *)
MenuSpec == MenuInit /\ [][MenuNext]_menuVars /\ WF_menuVars(AnimationDidStop)

------------------------------------------------------------------------------
(* Properties *)

Touchable == ~hidden /\ center = "out"

(* The buttons of a menu that has been put away cannot be touched, however *)
(* late its animations stop and put the centres back; and those of an open *)
(* menu can, once its animations have stopped, whatever was put away and   *)
(* opened again meanwhile (showMenu, hideMenu, animationDidStop).          *)
MenuMeetsTouches ==
    /\ Touchable => isShow
    /\ isShow /\ running = 0 => Touchable

(* Every menu that stays open becomes touchable. *)
OpensInTheEnd == isShow ~> (Touchable \/ ~isShow)
==============================================================================
