------------------------------- MODULE Carousel -------------------------------
(***************************************************************************)
(* The endless picture carousel of the Five page: a paging scroll view     *)
(* with a copy of the last picture before the first and a copy of the      *)
(* first after the last, a page control, and a repeating timer.            *)
(*                                                                         *)
(* All on the main thread.  While a finger drags the view, or it still     *)
(* decelerates, the run loop tracks, and the timer does not fire.  The     *)
(* page keeps an unretained pointer to the timer: invalidating it a second *)
(* time is undefined (nothing happens, or the process dies).               *)
(***************************************************************************)
EXTENDS Integers

CONSTANT Images     \* number of pictures: 4 in the code

ASSUME ImagesAssumption == Images \in Nat \ {0}

VARIABLES
    offset,         \* contentOffset.x, in half pages
    currentPage,    \* of the page control
    phase,          \* "rest", "released", "dragging", "decelerating", "dead"
    timers,         \* live timers of the page
    mine,           \* the timer myTimer points to is "live" or "freed"
    turned          \* history: the user has tapped the page control

carouselVars == <<offset, currentPage, phase, timers, mine, turned>>

LastImage == Images - 1
At(page) == 2 * page                    \* offset of a page, 0..Images+1

(* The page nearest to an offset: floor((x - w/2) / w) + 1. *)
Nearest(o) == (o + 1) \div 2

(* A UIPageControl pins what it is given to its pages. *)
Pinned(i) == IF i < 0 THEN 0 ELSE IF i > LastImage THEN LastImage ELSE i

(* The picture on a page of the scroll view, copies included. *)
ImageOn(page) ==
    IF page = 0 THEN LastImage ELSE IF page = Images + 1 THEN 0 ELSE page - 1

CarouselTypeOK ==
    /\ offset \in -1 .. At(Images + 1) + 1
    /\ currentPage \in 0..LastImage
    /\ phase \in {"rest", "released", "dragging", "decelerating", "dead"}
    /\ timers \in Nat
    /\ mine \in {"live", "freed"}
    /\ turned \in BOOLEAN

(* configScrollView *)
CarouselInit ==
    /\ offset = At(1)
    /\ currentPage = 0
    /\ phase = "rest"
    /\ timers = 1
    /\ mine = "live"
    /\ turned = FALSE

(* scrollViewDidScroll: its two special cases are overwritten by its last  *)
(* line, which leaves them to the page control.                            *)
DidScroll(o) ==
    /\ offset' = o
    /\ currentPage' = Pinned(Nearest(o) - 1)

(* Jump to a page: DidScroll runs inside the call. *)
Show(page) == DidScroll(At(page))

(* [myTimer invalidate], and whether the process survives it. *)
Invalidate(survives) ==
    /\ mine' = "freed"
    /\ IF mine = "live"
         THEN timers' = timers - 1 /\ survives
         ELSE timers' = timers

(* Mutant: the last picture is taken for the copy of the first. *)
TickWrapsEarly ==
    /\ timers > 0
    /\ phase \in {"rest", "released"}
    /\ Show(IF currentPage + 2 = Images THEN 1 ELSE currentPage + 2)
    /\ phase' = "rest"
    /\ UNCHANGED <<timers, mine, turned>>

(* scrollToNextPage: the page after the current one, and from the copy of  *)
(* the first picture straight on to the first.                             *)
Tick ==
    /\ timers > 0
    /\ phase \in {"rest", "released"}
    /\ Show(IF currentPage + 1 = Images THEN 1 ELSE currentPage + 2)
    /\ phase' = "rest"
    /\ UNCHANGED <<timers, mine, turned>>

(* Mutant: the timer goes on. *)
WillBeginDraggingOnly ==
    /\ phase \in {"rest", "released", "decelerating"}
    /\ phase' = "dragging"
    /\ UNCHANGED <<offset, currentPage, timers, mine, turned>>

(* scrollViewWillBeginDragging, from rest or catching a decelerating view. *)
WillBeginDragging ==
    /\ phase \in {"rest", "released", "decelerating"}
    /\ \E survives \in BOOLEAN :
          /\ Invalidate(survives)
          /\ phase' = IF survives THEN "dragging" ELSE "dead"
    /\ UNCHANGED <<offset, currentPage, turned>>

Drag(o) ==
    /\ phase = "dragging"
    /\ o \in {offset - 1, offset + 1} \cap -1 .. At(Images + 1) + 1
    /\ DidScroll(o)
    /\ UNCHANGED <<phase, timers, mine, turned>>

(* Mutant: the timer is not started again. *)
DidEndDraggingOnly ==
    /\ phase = "dragging"
    /\ phase' = "decelerating"
    /\ UNCHANGED <<offset, currentPage, timers, mine, turned>>

(* scrollViewDidEndDragging: without deceleration only on a page boundary. *)
DidEndDragging ==
    /\ phase = "dragging"
    /\ timers' = timers + 1
    /\ mine' = "live"
    /\ \/ phase' = "decelerating"
       \/ offset \in {At(p) : p \in 0 .. Images + 1} /\ phase' = "released"
    /\ UNCHANGED <<offset, currentPage, turned>>

(* Mutant: the view stays on a copy. *)
DidEndDeceleratingOnCopy(page) ==
    /\ phase = "decelerating"
    /\ page \in 0 .. Images + 1
    /\ At(page) - offset \in -2..2
    /\ phase' = "rest"
    /\ Show(page)
    /\ UNCHANGED <<timers, mine, turned>>

(* The view comes to rest on a page next to where it was let go, and       *)
(* scrollViewDidEndDecelerating leaves the copies for the originals.       *)
DidEndDecelerating(page) ==
    /\ phase = "decelerating"
    /\ page \in 0 .. Images + 1
    /\ At(page) - offset \in -2..2
    /\ phase' = "rest"
    /\ Show(ImageOn(page) + 1)
    /\ UNCHANGED <<timers, mine, turned>>

(* pageTurn: the control has moved to image i; a second finger may be      *)
(* dragging meanwhile.  The timer is not started again.                    *)
PageTurn(i) ==
    /\ phase # "dead"
    /\ i \in {currentPage - 1, currentPage + 1} \cap 0..LastImage
    /\ Show(i + 1)
    /\ turned' = TRUE
    /\ \E survives \in BOOLEAN :
          /\ Invalidate(survives)
          /\ phase' = IF ~survives THEN "dead"
                      ELSE IF phase = "dragging" THEN phase ELSE "rest"

CarouselNext ==
    \/ Tick
    \/ WillBeginDragging
    \/ \E o \in {offset - 1, offset + 1} : Drag(o)
    \/ DidEndDragging
    \/ \E p \in 0 .. Images + 1 : DidEndDecelerating(p)
    \/ \E i \in 0..LastImage : PageTurn(i)

(* A timer that is live fires, whenever the run loop is not tracking. *)
CarouselSpec == CarouselInit /\ [][CarouselNext]_carouselVars /\ WF_carouselVars(Tick)

------------------------------------------------------------------------------
(* Properties *)

(* However the user drags, flings, catches and turns, the carousel comes   *)
(* to rest on an original, never on a copy, with the dot of the picture    *)
(* that is shown; but for a drag that is let go exactly on a page, where   *)
(* UIKit does not decelerate and nobody leaves the copy ("released").      *)
RestsOnOriginal ==
    phase = "rest" =>
        \E page \in 1..Images : offset = At(page) /\ currentPage = ImageOn(page)

(* The pages' timers never pile up: each drag that starts one has stopped  *)
(* one, unless myTimer was already stale; and myTimer tells which.         *)
OneTimer == timers <= 1 /\ (timers = 1 <=> mine = "live")

(* Dragging alone never invalidates a freed timer, whatever the order of   *)
(* drags, catches and flings: that takes a tap on the page control.        *)
DragsNeverMeetFreedTimer ==
    ~turned => /\ phase # "dead"
               /\ mine = "live" <=> phase # "dragging"

(* At rest a tick shows the next picture, the first after the last, from   *)
(* wherever the user has left the carousel.                                *)
TickAdvances ==
    [][ phase = "rest" /\ phase' = "rest" /\ timers = 1 /\ timers' = 1
          => ImageOn(Nearest(offset')) = (ImageOn(Nearest(offset)) + 1) % Images ]_carouselVars

(* A carousel with a timer that nobody touches comes by every picture. *)
ShowsEveryImage ==
    \A i \in 0..LastImage :
        (timers = 1 /\ phase = "rest") ~> (currentPage = i \/ timers = 0 \/ phase # "rest")
==============================================================================
