---------------------------- MODULE MCBlurredImage ----------------------------
(* Four requests: the one of initWithNibName and three clicks. *)
EXTENDS BlurredImage
===============================================================================
