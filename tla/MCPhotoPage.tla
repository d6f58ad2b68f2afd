----------------------------- MODULE MCPhotoPage -----------------------------
(* Two clicks at any tick of a clock of two ticks a second, with timers up  *)
(* to two ticks late, three requests, and room for two openings of a menu   *)
(* of two buttons whose animations are under way.                           *)
EXTENDS PhotoPage
==============================================================================
