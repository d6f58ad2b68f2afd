------------------------------ MODULE PhotoPage ------------------------------
(***************************************************************************)
(* The Four page: the fan menu, the toast and the blurred background are   *)
(* one view controller on one main queue.  A button of the menu that can   *)
(* be touched raises a toast and requests a blur in the same call, however *)
(* many toasts, requests and animations are still under way.               *)
(***************************************************************************)
EXTENDS Toast, BlurredImage, FanMenu

pageVars == <<toastVars, blurVars, menuVars>>

PageInit == ToastInit /\ BlurInit /\ MenuInit

(* initWithNibName loads the view on the way to its request. *)
Loaded == made > 0

InitWithNibName ==
    /\ ~Loaded
    /\ SetImageToBlur
    /\ UNCHANGED <<toastVars, menuVars>>

(* clickBtn *)
ClickBtn ==
    /\ Loaded /\ Touchable
    /\ Click
    /\ SetImageToBlur
    /\ UNCHANGED menuVars

ToastStep ==
    /\ Advance \/ \E t \in timers : TimeOver(t)
    /\ UNCHANGED <<blurVars, menuVars>>

RenderStep(r) == Render(r) /\ UNCHANGED <<toastVars, menuVars>>
ImageStep     == SetImage /\ UNCHANGED <<toastVars, menuVars>>

Gesture       == Loaded /\ ClickBegin /\ UNCHANGED <<toastVars, blurVars>>
AnimationStep == AnimationDidStop /\ UNCHANGED <<toastVars, blurVars>>

PageNext ==
    \/ InitWithNibName
    \/ ClickBtn
    \/ ToastStep
    \/ \E r \in Requests : RenderStep(r)
    \/ ImageStep
    \/ Gesture
    \/ AnimationStep

(* As for the parts: what has been dispatched or animated ends. *)
PageSpec ==
    /\ PageInit
    /\ [][PageNext]_pageVars
    /\ \A r \in Requests : WF_pageVars(RenderStep(r))
    /\ WF_pageVars(ImageStep)
    /\ WF_pageVars(AnimationStep)
==============================================================================
