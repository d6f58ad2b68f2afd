-------------------------------- MODULE Pages --------------------------------
(***************************************************************************)
(* The pages of the application with the state of the Three page, which    *)
(* outlives the pages that are pushed above it and the other tabs: UIKit   *)
(* only delivers touches to the page that is visible, and a page that goes *)
(* out of sight gives up the keyboard.                                     *)
(***************************************************************************)
EXTENDS SearchPage, Navigation

pagesVars == <<searchVars, navVars>>

PagesInit == SearchInit /\ NavInit

(* Touches of the Three page. *)
SearchStep ==
    /\ Visible = "Three"
    /\ SearchNext
    /\ UNCHANGED navVars

(* The keyboard covers the strip. *)
SelectTab(t) ==
    /\ ~focused
    /\ TabBarDidSelected(t)
    /\ UNCHANGED searchVars

(* The Five page is pushed, whether or not the search bar is edited. *)
PushFive ==
    /\ ClickR2
    /\ LoseKeyboard \/ (~focused /\ UNCHANGED searchVars)

(* The end of the process takes the page with it. *)
PushSix ==
    /\ ClickL2
    /\ focused' = FALSE
    /\ width' = Wide /\ cancelX' = Wide
    /\ cancelOn' = FALSE
    /\ shows' = [c \in Cells |-> NoItem]
    /\ orange' = {}
    /\ selected' = NoItem

OtherPage ==
    /\ \/ \E s \in Sections : ClickSection(s) \/ DidSelectRow(s)
       \/ ClickRightDelete
       \/ PickImage
       \/ Back
    /\ UNCHANGED searchVars

PagesNext ==
    \/ SearchStep
    \/ \E t \in Tabs : SelectTab(t)
    \/ PushFive
    \/ PushSix
    \/ OtherPage

PagesSpec == PagesInit /\ [][PagesNext]_pagesVars
==============================================================================
