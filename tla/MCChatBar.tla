------------------------------- MODULE MCChatBar -------------------------------
(* The chat page with the frames of its nib file on a 568-point screen and  *)
(* the two keyboards it knows of.                                            *)
EXTENDS ChatBar, TLC

CONSTANT box

MCOrder  == <<box>>
MCTop    == box :> 528 @@ ZeroFrame :> 0
MCBottom == box :> 560 @@ ZeroFrame :> 0
MCInputs == {216, 252}
================================================================================
