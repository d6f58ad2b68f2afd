------------------------------ MODULE SearchPage ------------------------------
(***************************************************************************)
(* The Three page: a search bar that makes room for a Cancel button while  *)
(* it is edited, and a collection view whose selected item is painted      *)
(* orange.  The page does not remember which item that is: the colour is   *)
(* in the cell, and cells are recycled when items scroll off the screen.   *)
(*                                                                         *)
(* The search bar can lose the keyboard without the page hearing of it:    *)
(* through the Done button of IQKeyboardManager's toolbar, or when another *)
(* page is pushed.                                                         *)
(***************************************************************************)
EXTENDS Integers

CONSTANTS
    Items,      \* of the collection: 10
    Cells,      \* the collection view's cells, those waiting for reuse included
    NoItem,     \* a cell that waits for reuse, and no selection
    Wide,       \* width of the search bar: 320
    Room        \* what the Cancel button takes: 60

ASSUME SearchPageAssumption ==
    /\ NoItem \notin Items
    /\ Wide \in Nat /\ Room \in Nat \ {0}

VARIABLES
    focused,    \* the search bar is the first responder
    width,      \* of the search bar
    cancelX,    \* left edge of the Cancel button
    cancelOn,   \* the Cancel button is enabled
    shows,      \* the item of each cell, or NoItem
    orange,     \* cells whose bg is orange
    selected    \* the collection view's selected item, or NoItem

search     == <<focused, width, cancelX, cancelOn>>
collection == <<shows, orange, selected>>
searchVars       == <<search, collection>>

SearchTypeOK ==
    /\ focused \in BOOLEAN
    /\ width \in Int /\ cancelX \in Int
    /\ cancelOn \in BOOLEAN
    /\ shows \in [Cells -> Items \cup {NoItem}]
    /\ orange \subseteq Cells
    /\ selected \in Items \cup {NoItem}

SearchInit ==
    /\ focused = FALSE
    /\ width = Wide
    /\ cancelX = Wide
    /\ cancelOn = FALSE
    /\ shows = [c \in Cells |-> NoItem]
    /\ orange = {}
    /\ selected = NoItem

------------------------------------------------------------------------------
(* The search bar *)

Stretch(length) == width' = width + length /\ cancelX' = cancelX + length

(* Mutant: the width is not looked at. *)
HideCancelBtnAlways(hide) == Stretch(IF hide THEN Room ELSE -Room)

(* hideCancelBtn: the width tells whether the button is there. *)
HideCancelBtn(hide) ==
    \/ hide /\ width = Wide - Room /\ Stretch(Room)
    \/ ~hide /\ width = Wide /\ Stretch(-Room)
    \/ /\ width # IF hide THEN Wide - Room ELSE Wide
       /\ UNCHANGED <<width, cancelX>>

(* searchBarTextDidBeginEditing *)
BeginEditing ==
    /\ ~focused
    /\ focused' = TRUE
    /\ cancelOn' = TRUE
    /\ HideCancelBtn(FALSE)
    /\ UNCHANGED collection

StopEditing ==
    /\ focused' = FALSE
    /\ HideCancelBtn(TRUE)
    /\ UNCHANGED <<cancelOn, collection>>

SearchButtonClicked     == focused /\ StopEditing
ClickCancelBtn          == cancelOn /\ cancelX < Wide /\ StopEditing
ClickOthersCancelSearch == StopEditing

(* The Done button of the toolbar, or another page is pushed. *)
LoseKeyboard ==
    /\ focused
    /\ focused' = FALSE
    /\ UNCHANGED <<width, cancelX, cancelOn, collection>>

------------------------------------------------------------------------------
(* The collection view *)

(* The cell of an item scrolls off the screen, its colour as it is. *)
Recycle(c) ==
    /\ shows[c] # NoItem
    /\ shows' = [shows EXCEPT ![c] = NoItem]
    /\ UNCHANGED <<orange, selected, search>>

(* Mutant: the cell keeps the colour it was recycled with. *)
CellForItemStained(c, i) ==
    /\ shows[c] = NoItem
    /\ \A d \in Cells : shows[d] # i
    /\ shows' = [shows EXCEPT ![c] = i]
    /\ UNCHANGED <<orange, selected, search>>

(* cellForItemAtIndexPath, for an item that scrolls onto the screen. *)
CellForItem(c, i) ==
    /\ shows[c] = NoItem
    /\ \A d \in Cells : shows[d] # i
    /\ shows' = [shows EXCEPT ![c] = i]
    /\ orange' = orange \ {c}
    /\ UNCHANGED <<selected, search>>

(* didDeselectItem: painted back, if it is on the screen. *)
Deselected(i) == orange \ {c \in Cells : shows[c] = i}

(* A tap on cell c: the item selected before is deselected, then the one   *)
(* tapped is selected.  An orange cell is told by the identity of its      *)
(* colour object, which the getter need not preserve.                      *)
Tap(c) ==
    /\ shows[c] # NoItem
    /\ selected' = shows[c]
    /\ LET others == IF selected \in {NoItem, shows[c]} THEN orange ELSE Deselected(selected)
       IN  \/ orange' = others \cup {c}
           \/ c \in others /\ orange' = others \ {c}
    /\ UNCHANGED <<shows, search>>

SearchNext ==
    \/ BeginEditing
    \/ SearchButtonClicked
    \/ ClickCancelBtn
    \/ ClickOthersCancelSearch
    \/ LoseKeyboard
    \/ \E c \in Cells : Recycle(c) \/ Tap(c) \/ \E i \in Items : CellForItem(c, i)

SearchSpec == SearchInit /\ [][SearchNext]_searchVars

------------------------------------------------------------------------------
(* Properties *)

(* While the search bar is edited there is an enabled Cancel button beside *)
(* it; and however editing ends, heard of or not, bar and button are never *)
(* pushed twice in one direction (hideCancelBtn adds to their frames).     *)
CancelWhileEditing ==
    /\ focused => width = Wide - Room /\ cancelOn
    /\ width \in {Wide, Wide - Room}
    /\ cancelX = width

(* However the user scrolls and taps, no item is painted but the selected  *)
(* one: a recycled cell does not carry its colour to another item, and an  *)
(* item that is deselected off the screen does not come back orange        *)
(* (the comment on didDeselectItem says: single selection).                *)
SingleSelection == \A c \in orange : shows[c] \in {NoItem, selected}
==============================================================================
