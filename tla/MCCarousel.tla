------------------------------ MODULE MCCarousel ------------------------------
(* Six pictures, two more than initArray loads: room for drags, turns and    *)
(* ticks that start and end on originals away from both copies.              *)
EXTENDS Carousel
===============================================================================
