------------------------------ MODULE Navigation ------------------------------
(***************************************************************************)
(* The pages of the application and the tab strip below them: a tab bar    *)
(* controller with two navigation controllers and two plain pages, whose   *)
(* strip is a view of its own that the chat page pushes off the screen and *)
(* two of the other pages bring back; the badge on the strip; and the city *)
(* list, whose rows lead to the chat page.                                 *)
(*                                                                         *)
(* UIKit calls viewWillAppear of whatever page comes up, on a push, a pop, *)
(* a change of tabs and the end of a modal page, and lets nobody touch the *)
(* pages during the transition, so each transition is one step.            *)
(***************************************************************************)
EXTENDS Integers, Sequences

CONSTANTS
    Sections,   \* of the city list: 4
    Count       \* Count[s]: cities of section s

ASSUME SectionsAssumption == Count \in [Sections -> Nat]

VARIABLES
    selectedIndex,  \* of the tab bar controller
    lit,            \* the button of the strip that is drawn as selected
    stack,          \* stack[i]: the pages of tab i, the visible one last
    strip,          \* the strip is on the screen, and the page ends above it
    badge,          \* the first button has a badge
    openSections,   \* of the city list, in the order they were opened
    rows            \* rows[s]: what the table view has last been told

strips == <<selectedIndex, lit, strip>>
list   == <<openSections, rows>>
navVars   == <<strips, stack, badge, list>>

Tabs == 0..3
Root == <<"One", "Three", "Four", "Five">>
Page == {"One", "Two", "Three", "Four", "Five"}

NavTypeOK ==
    /\ selectedIndex \in Tabs /\ lit \in Tabs
    /\ stack \in [Tabs -> Seq(Page)]
    /\ strip \in BOOLEAN
    /\ badge \in BOOLEAN
    /\ openSections \in Seq(Sections)
    /\ rows \in [Sections -> Nat]

Last(s) == s[Len(s)]
Visible == Last(stack[selectedIndex])

NavInit ==
    /\ selectedIndex = 0 /\ lit = 0
    /\ stack = [t \in Tabs |-> <<Root[t + 1]>>]
    /\ strip = TRUE
    /\ badge = FALSE
    /\ openSections = <<>>
    /\ rows = [s \in Sections |-> 0]

------------------------------------------------------------------------------
(* viewWillAppear, of the pages that have one; the others leave the strip. *)

(* Mutant: only the chat page has one. *)
WillAppearTwoOnly(page) == strip' = (page # "Two" /\ strip)

WillAppear(page) ==
    strip' = CASE page \in {"One", "Three"} -> TRUE
               [] page = "Two"              -> FALSE
               [] OTHER                     -> strip

Push(page) ==
    /\ stack' = [stack EXCEPT ![selectedIndex] = Append(@, page)]
    /\ WillAppear(page)

Pop ==
    /\ stack' = [stack EXCEPT ![selectedIndex] = SubSeq(@, 1, Len(@) - 1)]
    /\ WillAppear(Visible')

(* tabBarDidSelected: a tap on button t of the strip. *)
TabBarDidSelected(t) ==
    /\ strip
    /\ selectedIndex' = t
    /\ lit' = t
    /\ UNCHANGED <<stack, badge, list>>
    /\ IF t # selectedIndex THEN WillAppear(Visible') ELSE UNCHANGED strip

(* numberOfRowsInSection *)
IsOpen(s, open) == \E i \in 1..Len(open) : open[i] = s
RowsInSection(open) == [s \in Sections |-> IF IsOpen(s, open) THEN Count[s] ELSE 0]

(* clickSection, reloadData included. *)
ClickSection(s) ==
    /\ Visible = "One"
    /\ openSections' = IF IsOpen(s, openSections)
                         THEN SelectSeq(openSections, LAMBDA o : o # s)
                         ELSE Append(openSections, s)
    /\ rows' = RowsInSection(openSections')
    /\ UNCHANGED <<strips, stack, badge>>

(* didSelectRow, up to the chat page's viewDidAppear, which sets the badge. *)
DidSelectRow(s) ==
    /\ Visible = "One"
    /\ rows[s] > 0
    /\ Push("Two")
    /\ badge' = TRUE
    /\ UNCHANGED <<selectedIndex, lit, list>>

(* clickRightDelete, as far as the badge goes. *)
ClickRightDelete ==
    /\ Visible = "Two"
    /\ badge' = FALSE
    /\ UNCHANGED <<strips, stack, list>>

(* The image picker covers the chat page, and uncovers it again. *)
PickImage ==
    /\ Visible = "Two"
    /\ WillAppear("Two")
    /\ badge' = TRUE
    /\ UNCHANGED <<selectedIndex, lit, stack, list>>

(* The back buttons of the chat page and of the pushed carousel page. *)
Back ==
    /\ Len(stack[selectedIndex]) > 1
    /\ UNCHANGED <<selectedIndex, lit, badge, list>>
    /\ Pop

ClickR2 ==
    /\ Visible = "Three"
    /\ Push("Five")
    /\ UNCHANGED <<selectedIndex, lit, badge, list>>

(* The Six page sends a message nobody understands when it is loaded: the  *)
(* process dies, and the next launch begins afresh.                        *)
ClickL2 ==
    /\ Visible = "Three"
    /\ selectedIndex' = 0 /\ lit' = 0
    /\ stack' = [t \in Tabs |-> <<Root[t + 1]>>]
    /\ strip' = TRUE
    /\ badge' = FALSE
    /\ openSections' = <<>>
    /\ rows' = [s \in Sections |-> 0]

NavNext ==
    \/ \E t \in Tabs : TabBarDidSelected(t)
    \/ \E s \in Sections : ClickSection(s) \/ DidSelectRow(s)
    \/ ClickRightDelete
    \/ PickImage
    \/ Back
    \/ ClickR2
    \/ ClickL2

NavSpec == NavInit /\ [][NavNext]_navVars

------------------------------------------------------------------------------
(* Properties *)

(* The chat page has the whole screen and every other page has the strip,  *)
(* although two of them never ask for it: whatever order the user pushes,  *)
(* pops and switches in, they only come after a page that does.            *)
StripFollowsPage == strip <=> Visible # "Two"

==============================================================================
