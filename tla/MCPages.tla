------------------------------- MODULE MCPages -------------------------------
(* Three items and two cells: at least one item is off the screen, and a    *)
(* cell can come back with any item.  Two sections of the city list, one of *)
(* them without a city.                                                     *)
EXTENDS Pages, TLC

CONSTANTS beijing, shanghai

MCCount == beijing :> 3 @@ shanghai :> 0
==============================================================================
