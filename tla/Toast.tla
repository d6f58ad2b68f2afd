--------------------------------- MODULE Toast ---------------------------------
(***************************************************************************)
(* The toast of the Four page: one label that each click replaces, and one *)
(* timer per click that is never cancelled.  A timer removes whatever      *)
(* label is on screen if the clock, in whole seconds, says that the last   *)
(* click was exactly the duration ago.                                     *)
(*                                                                         *)
(* Time is counted in ticks of a fraction of a second.  A timer fires no   *)
(* earlier than it is due, and late when the main thread is busy.          *)
(***************************************************************************)
EXTENDS Integers, FiniteSets

CONSTANTS
    Second,     \* ticks per second
    Duration,   \* toastTime: 2 seconds in the code
    MaxLate,    \* bound: ticks a timer is late at most
    MaxClicks,  \* bound: clicks
    Horizon     \* bound: the clock

ASSUME ToastAssumption ==
    /\ Second \in Nat \ {0} /\ Duration \in Nat \ {0}
    /\ MaxLate \in Nat /\ MaxClicks \in Nat /\ Horizon \in Nat

VARIABLES
    now,
    clicks,     \* number of clicks so far, the name of the last toast
    visible,    \* the last toast is on screen
    clickTime,  \* in seconds
    timers,     \* [toast, due] of the timers still to fire
    since,      \* history: when the last toast came up
    slipped     \* history: toasts whose timer fired in a later second than due

toastVars == <<now, clicks, visible, clickTime, timers, since, slipped>>

InSeconds(t) == t \div Second

ToastTypeOK ==
    /\ now \in Nat
    /\ clicks \in 0..MaxClicks
    /\ visible \in BOOLEAN
    /\ clickTime \in Nat
    /\ timers \subseteq [toast : 1..MaxClicks, due : Nat]
    /\ since \in Nat
    /\ slipped \subseteq 1..MaxClicks

ToastInit ==
    /\ now \in 0 .. Second - 1
    /\ clicks = 0
    /\ visible = FALSE
    /\ clickTime = 0
    /\ timers = {}
    /\ since = 0
    /\ slipped = {}

(* Mutant: the clock of the click is a second behind. *)
ClickBehind ==
    /\ clicks < MaxClicks
    /\ clicks' = clicks + 1
    /\ visible' = TRUE
    /\ clickTime' = InSeconds(now) - 1
    /\ timers' = timers \cup {[toast |-> clicks', due |-> now + Duration * Second]}
    /\ since' = now
    /\ UNCHANGED <<now, slipped>>

(* toast:duration:parentView:center: *)
Click ==
    /\ clicks < MaxClicks
    /\ clicks' = clicks + 1
    /\ visible' = TRUE
    /\ clickTime' = InSeconds(now)
    /\ timers' = timers \cup {[toast |-> clicks', due |-> now + Duration * Second]}
    /\ since' = now
    /\ UNCHANGED <<now, slipped>>

(* Mutant: a timer removes whatever toast is there. *)
TimeOverForAny(t) ==
    /\ now >= t.due
    /\ timers' = timers \ {t}
    /\ visible' = FALSE
    /\ UNCHANGED <<now, clicks, clickTime, since, slipped>>

(* toastTimeOver, called by the timer of some toast. *)
TimeOver(t) ==
    /\ now >= t.due
    /\ timers' = timers \ {t}
    /\ visible' = (visible /\ InSeconds(now) - clickTime # Duration)
    /\ slipped' = IF InSeconds(now) > InSeconds(t.due) THEN slipped \cup {t.toast} ELSE slipped
    /\ UNCHANGED <<now, clicks, clickTime, since>>

Advance ==
    /\ now < Horizon
    /\ \A t \in timers : now < t.due + MaxLate
    /\ now' = now + 1
    /\ UNCHANGED <<clicks, visible, clickTime, timers, since, slipped>>

ToastNext ==
    \/ Click
    \/ \E t \in timers : TimeOver(t)
    \/ Advance

ToastSpec == ToastInit /\ [][ToastNext]_toastVars

------------------------------------------------------------------------------
(* Properties *)

(* No toast is cut short by the timer of an earlier one by a second or     *)
(* more: one that goes has been there for more than Duration - 1 seconds.  *)
NotCutShort ==
    [][ visible /\ ~visible' => now - since > (Duration - 1) * Second ]_toastVars

(* A toast whose timer has fired is gone, unless that timer was so late    *)
(* that the next second had begun: then nothing ever removes the toast     *)
(* (toastTimeOver compares for equality).                                  *)
GoneWhenOver ==
    visible => \/ clicks \in slipped
               \/ \E t \in timers : t.toast = clicks
================================================================================
