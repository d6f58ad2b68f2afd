------------------------- MODULE MCKeyboardManager -------------------------
(* Two of the text fields and the text view of the Five page with the      *)
(* frames of its nib file, the two keyboards the application knows of (216 *)
(* points for English, 252 for Chinese), and one text view that is too     *)
(* high to fit above either.                                               *)
EXTENDS KeyboardManager, TLC

CONSTANTS name, short, memo, big

MCOrder  == <<name, short, memo, big>>
MCTop    == name :> 376 @@ short :> 452 @@ memo :> 414 @@ big :> 60 @@ ZeroFrame :> 0
MCBottom == name :> 406 @@ short :> 482 @@ memo :> 482 @@ big :> 560 @@ ZeroFrame :> 0
MCInputs == {216, 252}
============================================================================
