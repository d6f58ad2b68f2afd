------------------------------ MODULE PagesProofs ------------------------------
(* Theorems about the pages of the application, for any items, cells,      *)
(* widths, city sections and pictures: about the Three page, about the     *)
(* navigation, about Pages, which composes them, and about the carousel of *)
(* the Five page.                                                          *)
EXTENDS Pages, Carousel, SequenceTheorems, TLAPS

------------------------------------------------------------------------------
(* The Three page by itself *)

(* Both properties are inductive once the types are known. *)
SearchInv == SearchTypeOK /\ CancelWhileEditing /\ SingleSelection

(* A step of the search bar keeps bar and button side by side. *)
LEMMA SearchSteps ==
    ASSUME SearchInv, BeginEditing \/ StopEditing \/ LoseKeyboard
    PROVE  SearchInv'
<1> USE SearchPageAssumption DEF SearchInv, SearchTypeOK, CancelWhileEditing, Stretch, HideCancelBtn
<1>1. UNCHANGED collection
  BY DEF BeginEditing, StopEditing, LoseKeyboard
<1>2. SingleSelection'
  BY <1>1 DEF SingleSelection, collection
<1>3. CASE BeginEditing
  BY <1>1, <1>2, <1>3 DEF BeginEditing, collection
<1>4. CASE StopEditing
  <2>1. focused' = FALSE /\ cancelOn' = cancelOn
    BY <1>4 DEF StopEditing
  <2>2. /\ width' \in Int /\ cancelX' \in Int
        /\ width' \in {Wide, Wide - Room} /\ cancelX' = width'
    BY <1>4 DEF StopEditing
  <2>3. SearchTypeOK'
    BY <1>1, <2>1, <2>2 DEF collection
  <2> QED
    BY <1>2, <2>1, <2>2, <2>3, Zenon
<1>5. CASE LoseKeyboard
  BY <1>1, <1>2, <1>5 DEF LoseKeyboard, collection
<1> QED
  BY <1>3, <1>4, <1>5

(* A tap paints no cell but those of the item that is selected by it. *)
LEMMA TapSelectsOne ==
    ASSUME SearchInv, NEW c \in Cells, Tap(c)
    PROVE  SearchInv'
<1> USE SearchPageAssumption DEF SearchInv, SearchTypeOK
<1> DEFINE others == IF selected \in {NoItem, shows[c]} THEN orange ELSE Deselected(selected)
<1>1. /\ shows' = shows /\ selected' = shows[c] /\ UNCHANGED search
      /\ orange' = others \cup {c} \/ orange' = others \ {c}
  BY DEF Tap
<1>2. others \subseteq orange
  BY DEF Deselected
<1>3. \A d \in others : shows[d] \in {NoItem, shows[c]}
  BY DEF SingleSelection, Deselected
<1>4. SingleSelection'
  BY <1>1, <1>3 DEF SingleSelection
<1>5. SearchTypeOK'
  BY <1>1, <1>2 DEF search
<1>6. CancelWhileEditing'
  BY <1>1 DEF CancelWhileEditing, search
<1> QED
  BY <1>4, <1>5, <1>6

(* Bar, cells and colours at the beginning, and after any step. *)
LEMMA SearchStarts == SearchInit => SearchInv
<1> SUFFICES ASSUME SearchInit PROVE SearchInv
  OBVIOUS
<1>1. SearchTypeOK
  <2>1. focused \in BOOLEAN /\ cancelOn \in BOOLEAN
    BY Zenon DEF SearchInit
  <2>2. width \in Int /\ cancelX \in Int
    BY SearchPageAssumption DEF SearchInit
  <2>3. shows \in [Cells -> Items \cup {NoItem}] /\ orange \subseteq Cells
    BY Zenon DEF SearchInit
  <2>4. selected \in Items \cup {NoItem}
    BY Zenon DEF SearchInit
  <2> QED
    BY <2>1, <2>2, <2>3, <2>4, Zenon DEF SearchTypeOK
<1>2. focused = FALSE /\ width = Wide /\ cancelX = Wide /\ orange = {}
  BY DEF SearchInit
<1> QED
  BY <1>1, <1>2, Zenon DEF SearchInv, CancelWhileEditing, SingleSelection

LEMMA SearchKeeps == SearchInv /\ [SearchNext]_searchVars => SearchInv'
<1> SUFFICES ASSUME SearchInv, [SearchNext]_searchVars PROVE SearchInv'
  OBVIOUS
<1>1. CASE BeginEditing \/ StopEditing \/ LoseKeyboard
  BY <1>1, SearchSteps
<1>2. ASSUME NEW c \in Cells, Recycle(c) PROVE SearchInv'
  BY <1>2 DEF Recycle, SearchInv, SearchTypeOK, CancelWhileEditing, SingleSelection, search
<1>3. ASSUME NEW c \in Cells, Tap(c) PROVE SearchInv'
  BY <1>3, TapSelectsOne
<1>4. ASSUME NEW c \in Cells, NEW i \in Items, CellForItem(c, i) PROVE SearchInv'
  BY <1>4 DEF CellForItem, SearchInv, SearchTypeOK, CancelWhileEditing, SingleSelection, search
<1>5. CASE UNCHANGED searchVars
  BY <1>5 DEF searchVars, search, collection, SearchInv, SearchTypeOK, CancelWhileEditing, SingleSelection
<1> QED
  BY <1>1, <1>2, <1>3, <1>4, <1>5
  DEF SearchNext, SearchButtonClicked, ClickCancelBtn, ClickOthersCancelSearch

(* Both properties and the types hold in every reachable state. *)
THEOREM SearchInvariant == SearchSpec => []SearchInv
  BY SearchStarts, SearchKeeps, PTL DEF SearchSpec

(* However editing ends, bar and Cancel button never creep, and while the  *)
(* bar is edited the button is there.                                      *)
THEOREM CancelIsThere == SearchSpec => []CancelWhileEditing
<1>1. SearchInv => CancelWhileEditing
  BY DEF SearchInv
<1> QED
  BY <1>1, SearchInvariant, PTL

(* No item is painted but the selected one. *)
THEOREM OnlySelectedIsOrange == SearchSpec => []SingleSelection
<1>1. SearchInv => SingleSelection
  BY DEF SearchInv
<1> QED
  BY <1>1, SearchInvariant, PTL

------------------------------------------------------------------------------
(* The tabs, the stacks and the strip *)

(* What each tab can have on its stack: that is what makes it certain      *)
(* which page a pop brings back.                                           *)
Stacks(s) ==
    /\ s \in [Tabs -> Seq(Page)]
    /\ s[0] = <<"One">> \/ s[0] = <<"One", "Two">>
    /\ s[1] = <<"Three">> \/ s[1] = <<"Three", "Five">>
    /\ s[2] = <<"Four">>
    /\ s[3] = <<"Five">>

(* StripFollowsPage is not inductive: Four and Five leave the strip where  *)
(* it is, so they must not be what a pop from the chat page uncovers.      *)
NavInv ==
    /\ selectedIndex \in Tabs
    /\ Stacks(stack)
    /\ strip \in BOOLEAN
    /\ StripFollowsPage

(* Stacks of one and of two pages. *)
LEMMA OnePage ==
    ASSUME NEW a \in Page, NEW b \in Page
    PROVE  Len(<<a>>) = 1 /\ Last(<<a>>) = a /\ Append(<<a>>, b) = <<a, b>>
<1>1. <<a>> \in Seq(Page) /\ <<a, b>> \in Seq(Page) /\ Append(<<a>>, b) \in Seq(Page)
  OBVIOUS
<1>2. Len(<<a>>) = 1 /\ Len(<<a, b>>) = 2 /\ Len(Append(<<a>>, b)) = 2
  OBVIOUS
<1>3. \A i \in 1..2 : Append(<<a>>, b)[i] = <<a, b>>[i]
  BY <1>1, <1>2, AppendProperties
<1> QED
  BY <1>1, <1>2, <1>3, SeqEqual DEF Last

LEMMA TwoPages ==
    ASSUME NEW a \in Page, NEW b \in Page
    PROVE  /\ Len(<<a, b>>) = 2 /\ Last(<<a, b>>) = b
           /\ SubSeq(<<a, b>>, 1, Len(<<a, b>>) - 1) = <<a>>
<1>1. Len(<<a, b>>) = 2
  OBVIOUS
<1>2. <<a, b>> \in Seq(Page) /\ <<a>> \in Seq(Page)
  OBVIOUS
<1>3. SubSeq(<<a, b>>, 1, 1) = <<a>>
  <2>1. SubSeq(<<a, b>>, 1, 1) \in Seq(Page) /\ Len(SubSeq(<<a, b>>, 1, 1)) = 1
    BY <1>1, <1>2, SubSeqProperties
  <2>2. SubSeq(<<a, b>>, 1, 1)[1] = a
    BY <1>1, <1>2, SubSeqProperties
  <2>3. Len(<<a>>) = 1 /\ <<a>>[1] = a
    OBVIOUS
  <2> DEFINE s == SubSeq(<<a, b>>, 1, 1)
             t == <<a>>
  <2>4. s \in Seq(Page) /\ t \in Seq(Page) /\ Len(s) = Len(t)
    BY <1>2, <2>1, <2>3
  <2>5. \A i \in 1..Len(s) : s[i] = t[i]
    BY <2>1, <2>2, <2>3
  <2> HIDE DEF s, t
  <2>6. s = t
    BY <2>4, <2>5, SeqEqual
  <2> QED
    BY <2>6 DEF s, t
<1> QED
  BY <1>1, <1>3 DEF Last

(* The page on top of each stack. *)
LEMMA Tops ==
    ASSUME NEW s, Stacks(s)
    PROVE  /\ s[0] = <<"One">>         => Last(s[0]) = "One"   /\ Len(s[0]) = 1
           /\ s[0] = <<"One", "Two">>  => Last(s[0]) = "Two"   /\ Len(s[0]) = 2
           /\ s[1] = <<"Three">>         => Last(s[1]) = "Three" /\ Len(s[1]) = 1
           /\ s[1] = <<"Three", "Five">> => Last(s[1]) = "Five"  /\ Len(s[1]) = 2
           /\ Last(s[2]) = "Four" /\ Len(s[2]) = 1
           /\ Last(s[3]) = "Five" /\ Len(s[3]) = 1
<1>1. \A a \in Page : Len(<<a>>) = 1 /\ Last(<<a>>) = a
  BY OnePage
<1>2. \A a, b \in Page : Len(<<a, b>>) = 2 /\ Last(<<a, b>>) = b
  BY TwoPages
<1>3. {"One", "Two", "Three", "Four", "Five"} \subseteq Page
  BY DEF Page
<1>4. Last(<<"One">>) = "One" /\ Len(<<"One">>) = 1
  BY <1>1, <1>3
<1>5. Last(<<"One", "Two">>) = "Two" /\ Len(<<"One", "Two">>) = 2
  BY <1>2, <1>3
<1>6. Last(<<"Three">>) = "Three" /\ Len(<<"Three">>) = 1
  BY <1>1, <1>3
<1>7. Last(<<"Three", "Five">>) = "Five" /\ Len(<<"Three", "Five">>) = 2
  BY <1>2, <1>3
<1>8. Last(<<"Four">>) = "Four" /\ Len(<<"Four">>) = 1
  BY <1>1, <1>3
<1>9. Last(<<"Five">>) = "Five" /\ Len(<<"Five">>) = 1
  BY <1>1, <1>3
<1> QED
  BY <1>4, <1>5, <1>6, <1>7, <1>8, <1>9, Zenon DEF Stacks

(* The visible page tells the tab and the stack, but for Five. *)
LEMMA VisibleStack ==
    ASSUME NavInv
    PROVE  /\ Visible = "One"   => selectedIndex = 0 /\ stack[0] = <<"One">>
           /\ Visible = "Two"   => selectedIndex = 0 /\ stack[0] = <<"One", "Two">>
           /\ Visible = "Three" => selectedIndex = 1 /\ stack[1] = <<"Three">>
           /\ Len(stack[selectedIndex]) > 1 =>
                 \/ selectedIndex = 0 /\ stack[0] = <<"One", "Two">>
                 \/ selectedIndex = 1 /\ stack[1] = <<"Three", "Five">>
<1>1. Stacks(stack) /\ selectedIndex \in 0..3
  BY DEF NavInv, Tabs
<1>2. CASE selectedIndex = 0
  <2>1. Visible = Last(stack[0])
    BY <1>2 DEF Visible
  <2>2. CASE stack[0] = <<"One">>
    <3>1. Visible = "One" /\ Len(stack[selectedIndex]) = 1
      BY <1>1, <1>2, <2>1, <2>2, Tops
    <3> QED
      BY <1>2, <2>2, <3>1
  <2>3. CASE stack[0] = <<"One", "Two">>
    <3>1. Visible = "Two"
      BY <1>1, <1>2, <2>1, <2>3, Tops
    <3> QED
      BY <1>2, <2>3, <3>1
  <2> QED
    BY <1>1, <2>2, <2>3 DEF Stacks
<1>3. CASE selectedIndex = 1
  <2>1. Visible = Last(stack[1])
    BY <1>3 DEF Visible
  <2>2. CASE stack[1] = <<"Three">>
    <3>1. Visible = "Three" /\ Len(stack[selectedIndex]) = 1
      BY <1>1, <1>3, <2>1, <2>2, Tops
    <3> QED
      BY <1>3, <2>2, <3>1
  <2>3. CASE stack[1] = <<"Three", "Five">>
    <3>1. Visible = "Five"
      BY <1>1, <1>3, <2>1, <2>3, Tops
    <3> QED
      BY <1>3, <2>3, <3>1
  <2> QED
    BY <1>1, <2>2, <2>3 DEF Stacks
<1>4. CASE selectedIndex = 2 \/ selectedIndex = 3
  BY <1>1, <1>4, Tops DEF Visible, Stacks
<1> QED
  BY <1>1, <1>2, <1>3, <1>4

(* The stacks a launch begins with. *)
LEMMA LaunchStacks ==
    ASSUME NEW s, s = [t \in Tabs |-> <<Root[t + 1]>>]
    PROVE  Stacks(s) /\ s[0] = <<"One">>
<1>1. s[0] = <<"One">> /\ s[1] = <<"Three">> /\ s[2] = <<"Four">> /\ s[3] = <<"Five">>
  BY DEF Tabs, Root
<1>2. s \in [Tabs -> Seq(Page)]
  BY <1>1 DEF Tabs, Page
<1> QED
  BY <1>1, <1>2 DEF Stacks

(* viewWillAppear of a page that can be uncovered or pushed in tab t. *)
LEMMA AppearKeeps ==
    ASSUME NEW t \in Tabs, selectedIndex' = t, Stacks(stack'),
           strip \in BOOLEAN, WillAppear(Visible'),
           Visible' \in {"Four", "Five"} => strip
    PROVE  NavInv'
<1>1. Visible' \in Page
  BY Tops DEF Visible, Tabs, Page, Stacks
<1>2. strip' \in BOOLEAN /\ (strip' <=> Visible' # "Two")
  BY <1>1 DEF WillAppear, Page
<1> QED
  BY <1>2 DEF NavInv, StripFollowsPage

LEMMA SelectKeeps == ASSUME NavInv, NEW t \in Tabs, TabBarDidSelected(t) PROVE NavInv'
<1>1. CASE t = selectedIndex
  BY <1>1 DEF NavInv, TabBarDidSelected, StripFollowsPage, Visible
<1>2. CASE t # selectedIndex
  BY <1>2, AppearKeeps DEF NavInv, TabBarDidSelected
<1> QED
  BY <1>1, <1>2

(* A push from One or Three. *)
LEMMA PushKeeps ==
    ASSUME NavInv, UNCHANGED selectedIndex,
           NEW page, Push(page),
           \/ Visible = "One" /\ page = "Two"
           \/ Visible = "Three" /\ page = "Five"
    PROVE  NavInv'
<1>1. Stacks(stack) /\ selectedIndex \in Tabs /\ strip \in BOOLEAN
  BY DEF NavInv
<1>2. CASE Visible = "One" /\ page = "Two"
  <2>1. selectedIndex = 0 /\ stack[0] = <<"One">>
    BY <1>2, VisibleStack
  <2>2. stack' = [stack EXCEPT ![0] = <<"One", "Two">>]
    BY <1>2, <2>1, OnePage DEF Push, Page
  <2>3. Stacks(stack') /\ stack'[0] = <<"One", "Two">>
    BY <1>1, <2>2 DEF Stacks, Tabs, Page
  <2>4. Visible' = "Two"
    BY <2>1, <2>3, Tops DEF Visible
  <2> QED
    BY <1>1, <1>2, <2>3, <2>4, AppearKeeps DEF Push
<1>3. CASE Visible = "Three" /\ page = "Five"
  <2>1. selectedIndex = 1 /\ stack[1] = <<"Three">>
    BY <1>3, VisibleStack
  <2>2. stack' = [stack EXCEPT ![1] = <<"Three", "Five">>]
    BY <1>3, <2>1, OnePage DEF Push, Page
  <2>3. Stacks(stack') /\ stack'[1] = <<"Three", "Five">>
    BY <1>1, <2>2 DEF Stacks, Tabs, Page
  <2>4. Visible' = "Five" /\ strip
    BY <1>3, <2>1, <2>3, Tops DEF Visible, NavInv, StripFollowsPage
  <2> QED
    BY <1>1, <1>3, <2>3, <2>4, AppearKeeps DEF Push
<1> QED
  BY <1>2, <1>3

LEMMA BackKeeps == ASSUME NavInv, Back PROVE NavInv'
<1>1. Stacks(stack) /\ selectedIndex \in Tabs /\ strip \in BOOLEAN
  BY DEF NavInv
<1>2. CASE selectedIndex = 0 /\ stack[0] = <<"One", "Two">>
  <2>1. stack' = [stack EXCEPT ![0] = <<"One">>]
    BY <1>2, TwoPages DEF Back, Pop, Page
  <2>2. Stacks(stack') /\ stack'[0] = <<"One">>
    BY <1>1, <2>1 DEF Stacks, Tabs, Page
  <2>3. Visible' = "One"
    BY <1>2, <2>2, Tops DEF Visible, Back
  <2> QED
    BY <1>1, <2>2, <2>3, AppearKeeps DEF Back, Pop
<1>3. CASE selectedIndex = 1 /\ stack[1] = <<"Three", "Five">>
  <2>1. stack' = [stack EXCEPT ![1] = <<"Three">>]
    BY <1>3, TwoPages DEF Back, Pop, Page
  <2>2. Stacks(stack') /\ stack'[1] = <<"Three">>
    BY <1>1, <2>1 DEF Stacks, Tabs, Page
  <2>3. Visible' = "Three"
    BY <1>3, <2>2, Tops DEF Visible, Back
  <2> QED
    BY <1>1, <2>2, <2>3, AppearKeeps DEF Back, Pop
<1> QED
  BY <1>2, <1>3, VisibleStack DEF Back

LEMMA LaunchKeeps == ASSUME NavInv, ClickL2 PROVE NavInv'
<1>1. Stacks(stack') /\ stack'[0] = <<"One">>
  BY LaunchStacks DEF ClickL2
<1>2. Visible' = "One"
  BY <1>1, Tops DEF ClickL2, Visible
<1> QED
  BY <1>1, <1>2 DEF ClickL2, NavInv, StripFollowsPage, Tabs

LEMMA NavStarts == NavInit => NavInv
  BY LaunchStacks, Tops DEF NavInit, NavInv, StripFollowsPage, Visible, Tabs

LEMMA NavKeeps == NavInv /\ [NavNext]_navVars => NavInv'
<1> SUFFICES ASSUME NavInv, [NavNext]_navVars PROVE NavInv'
  OBVIOUS
<1>1. ASSUME NEW t \in Tabs, TabBarDidSelected(t) PROVE NavInv'
  BY <1>1, SelectKeeps
<1>2. ASSUME UNCHANGED <<strips, stack>> PROVE NavInv'
  BY <1>2 DEF strips, NavInv, StripFollowsPage, Visible
<1>3. ASSUME NEW s \in Sections, ClickSection(s) PROVE NavInv'
  BY <1>2, <1>3 DEF ClickSection
<1>4. ASSUME NEW s \in Sections, DidSelectRow(s) PROVE NavInv'
  BY <1>4, PushKeeps DEF DidSelectRow
<1>5. CASE ClickRightDelete
  BY <1>2, <1>5 DEF ClickRightDelete
<1>6. CASE PickImage
  BY <1>6 DEF PickImage, WillAppear, NavInv, StripFollowsPage, Visible
<1>7. CASE Back
  BY <1>7, BackKeeps
<1>8. CASE ClickR2
  BY <1>8, PushKeeps DEF ClickR2
<1>9. CASE ClickL2
  BY <1>9, LaunchKeeps
<1>10. CASE UNCHANGED navVars
  BY <1>2, <1>10 DEF navVars
<1> QED
  BY <1>1, <1>3, <1>4, <1>5, <1>6, <1>7, <1>8, <1>9, <1>10 DEF NavNext

(* The strengthened invariant holds in every reachable state. *)
THEOREM NavigationInvariant == NavSpec => []NavInv
  BY NavStarts, NavKeeps, PTL DEF NavSpec

(* The chat page is the only one without the tab strip, in whatever order  *)
(* the pages are pushed, popped and switched.                              *)
THEOREM StripIsThere == NavSpec => []StripFollowsPage
<1>1. NavInv => StripFollowsPage
  BY DEF NavInv
<1> QED
  BY <1>1, NavigationInvariant, PTL

------------------------------------------------------------------------------
(* The pages together *)

(* Only the page on the screen has the keyboard: that is what a page that  *)
(* is pushed above the Three page, or a tab that is switched to, finds.    *)
KeyboardOnThree == focused => Visible = "Three"

PagesInv == SearchInv /\ NavInv /\ KeyboardOnThree

LEMMA PagesStart == PagesInit => PagesInv
<1>1. SearchInit => ~focused
  BY DEF SearchInit
<1> QED
  BY <1>1, SearchStarts, NavStarts DEF PagesInit, PagesInv, KeyboardOnThree

(* A step of the Three page on the screen. *)
LEMMA SearchStepKeeps == ASSUME PagesInv, SearchStep PROVE PagesInv'
<1>1. UNCHANGED navVars => NavInv' /\ Visible' = Visible
  BY DEF PagesInv, NavInv, navVars, strips, StripFollowsPage, Visible
<1>2. SearchInv'
  BY SearchKeeps DEF PagesInv, SearchStep
<1> QED
  BY <1>1, <1>2 DEF SearchStep, PagesInv, KeyboardOnThree

(* The other pages on the screen: the Three page does not have the         *)
(* keyboard, and is left alone.                                            *)
LEMMA OtherPageKeeps == ASSUME PagesInv, OtherPage PROVE PagesInv'
<1>1. NavInv /\ NavInv' /\ SearchInv'
  <2>1. SearchInv'
    BY DEF PagesInv, OtherPage, SearchInv, SearchTypeOK, CancelWhileEditing, SingleSelection,
           searchVars, search, collection
  <2> QED
    BY <2>1, NavKeeps DEF PagesInv, OtherPage, NavNext
<1>2. Visible # "Three"
  <2>1. CASE Back
    <3>1. Visible \in {"Two", "Five"}
      BY <1>1, <2>1, VisibleStack, Tops DEF Back, NavInv, Visible
    <3> QED
      BY <3>1
  <2> QED
    BY <2>1 DEF OtherPage, ClickSection, DidSelectRow, ClickRightDelete, PickImage
<1>3. focused' = focused
  BY DEF OtherPage, searchVars, search
<1> QED
  BY <1>1, <1>2, <1>3 DEF PagesInv, KeyboardOnThree

(* Switching tabs and pushing pages takes the keyboard away first. *)
LEMMA LeavingKeeps ==
    ASSUME PagesInv, (\E t \in Tabs : SelectTab(t)) \/ PushFive
    PROVE  PagesInv'
<1>1. NavInv'
  BY NavKeeps DEF PagesInv, SelectTab, PushFive, NavNext
<1>2. SearchInv' /\ ~focused'
  <2>1. CASE LoseKeyboard
    BY <2>1, SearchSteps DEF PagesInv, LoseKeyboard
  <2>2. CASE ~focused /\ UNCHANGED searchVars
    BY <2>2 DEF PagesInv, SearchInv, SearchTypeOK, CancelWhileEditing, SingleSelection,
                searchVars, search, collection
  <2> QED
    BY <2>1, <2>2 DEF SelectTab, PushFive
<1> QED
  BY <1>1, <1>2 DEF PagesInv, KeyboardOnThree

(* The end of the process. *)
LEMMA PushSixKeeps == ASSUME PagesInv, PushSix PROVE PagesInv'
<1>1. NavInv'
  BY LaunchKeeps DEF PagesInv, PushSix
<1>2. SearchTypeOK'
  <2>1. focused' \in BOOLEAN /\ cancelOn' \in BOOLEAN
    BY Zenon DEF PushSix
  <2>2. width' \in Int /\ cancelX' \in Int
    BY SearchPageAssumption DEF PushSix
  <2>3. shows' \in [Cells -> Items \cup {NoItem}] /\ orange' \subseteq Cells
    BY Zenon DEF PushSix
  <2>4. selected' \in Items \cup {NoItem}
    BY Zenon DEF PushSix
  <2> QED
    BY <2>1, <2>2, <2>3, <2>4, Zenon DEF SearchTypeOK
<1>3. focused' = FALSE /\ width' = Wide /\ cancelX' = Wide /\ orange' = {}
  BY DEF PushSix
<1> QED
  BY <1>1, <1>2, <1>3, Zenon
  DEF PagesInv, SearchInv, CancelWhileEditing, SingleSelection, KeyboardOnThree

(* What holds of each page alone holds of them together, although the      *)
(* Three page loses its keyboard to pages it knows nothing of.             *)
THEOREM PagesInvariant == PagesSpec => []PagesInv
<1>1. PagesInv /\ [PagesNext]_pagesVars => PagesInv'
  <2> SUFFICES ASSUME PagesInv, [PagesNext]_pagesVars PROVE PagesInv'
    OBVIOUS
  <2>1. CASE SearchStep
    BY <2>1, SearchStepKeeps
  <2>2. CASE (\E t \in Tabs : SelectTab(t)) \/ PushFive
    BY <2>2, LeavingKeeps
  <2>3. CASE PushSix
    BY <2>3, PushSixKeeps
  <2>4. CASE OtherPage
    BY <2>4, OtherPageKeeps
  <2>5. CASE UNCHANGED pagesVars
    BY <2>5 DEF pagesVars, searchVars, search, collection, navVars, strips, PagesInv, SearchInv,
                SearchTypeOK, CancelWhileEditing, SingleSelection, NavInv, StripFollowsPage,
                Visible, KeyboardOnThree
  <2> QED
    BY <2>1, <2>2, <2>3, <2>4, <2>5 DEF PagesNext
<1> QED
  BY <1>1, PagesStart, PTL DEF PagesSpec

(* However the search bar is left, by a button, by the toolbar, for        *)
(* another page or another tab, it comes back with its Cancel button where *)
(* it belongs, and while it is edited the button is there.                 *)
THEOREM PagesCancelIsThere == PagesSpec => []CancelWhileEditing
<1>1. PagesInv => CancelWhileEditing
  BY DEF PagesInv, SearchInv
<1> QED
  BY <1>1, PagesInvariant, PTL

(* No item of the collection is painted but the selected one, on whatever  *)
(* way the user comes back to the page.                                    *)
THEOREM PagesOneIsOrange == PagesSpec => []SingleSelection
<1>1. PagesInv => SingleSelection
  BY DEF PagesInv, SearchInv
<1> QED
  BY <1>1, PagesInvariant, PTL

(* The strip is there on every page but the chat page, the Three page in   *)
(* whatever state of its search bar.                                       *)
THEOREM PagesStripIsThere == PagesSpec => []StripFollowsPage
<1>1. PagesInv => StripFollowsPage
  BY DEF PagesInv, NavInv
<1> QED
  BY <1>1, PagesInvariant, PTL

(* No page comes up, and no tab is switched, under a keyboard that the     *)
(* Three page still has.                                                   *)
THEOREM NoKeyboardElsewhere == PagesSpec => []KeyboardOnThree
<1>1. PagesInv => KeyboardOnThree
  BY DEF PagesInv
<1> QED
  BY <1>1, PagesInvariant, PTL

------------------------------------------------------------------------------
(* The carousel of the Five page *)

(* While a finger drags, the timer is stopped: the one that is started     *)
(* when it lets go is the only one.                                        *)
CarouselInv ==
    /\ CarouselTypeOK
    /\ RestsOnOriginal
    /\ OneTimer
    /\ DragsNeverMeetFreedTimer
    /\ phase = "dragging" => mine = "freed"

(* The page nearest to the offset of a page is that page. *)
LEMMA NearestOfPage ==
    ASSUME NEW page \in Int
    PROVE  Nearest(At(page)) = page
  BY DEF Nearest, At

(* The page control always holds one of its pages. *)
LEMMA PinnedType ==
    ASSUME NEW i \in Int
    PROVE  Pinned(i) \in 0..LastImage
  BY ImagesAssumption DEF Pinned, LastImage

(* Wherever it is scrolled to, the dot is one of the pictures. *)
LEMMA ScrollType ==
    ASSUME NEW o \in -1 .. At(Images + 1) + 1, DidScroll(o)
    PROVE  offset' \in -1 .. At(Images + 1) + 1 /\ currentPage' \in 0..LastImage
<1>1. o \in Int /\ Nearest(o) - 1 \in Int
  BY ImagesAssumption DEF Nearest, At
<1> QED
  BY <1>1, PinnedType DEF DidScroll

(* Jumping to an original shows it with its dot. *)
LEMMA ShowOriginal ==
    ASSUME NEW page \in 1..Images, Show(page)
    PROVE  /\ offset' \in -1 .. At(Images + 1) + 1
           /\ currentPage' \in 0..LastImage
           /\ \E p \in 1..Images : offset' = At(p) /\ currentPage' = ImageOn(p)
<1> USE ImagesAssumption
<1>1. At(page) \in -1 .. At(Images + 1) + 1
  BY DEF At
<1>2. DidScroll(At(page))
  BY DEF Show
<1>3. offset' = At(page) /\ currentPage' = Pinned(page - 1)
  BY <1>2, NearestOfPage DEF DidScroll
<1>4. Pinned(page - 1) = ImageOn(page)
  BY DEF Pinned, ImageOn, LastImage
<1> QED
  BY <1>1, <1>2, <1>3, <1>4, ScrollType

(* Invalidating the timer leaves none, and one that was live is survived. *)
LEMMA InvalidateStops ==
    ASSUME OneTimer, timers \in Nat, mine \in {"live", "freed"},
           NEW survives \in BOOLEAN, Invalidate(survives)
    PROVE  timers' = 0 /\ mine' = "freed" /\ (mine = "live" => survives)
  BY DEF OneTimer, Invalidate

(* The next picture is an original again. *)
LEMMA TickInv == ASSUME CarouselInv, Tick PROVE CarouselInv'
<1> DEFINE next == IF currentPage + 1 = Images THEN 1 ELSE currentPage + 2
<1>1. next \in 1..Images
  BY ImagesAssumption DEF CarouselInv, CarouselTypeOK, LastImage
<1>2. Show(next)
  BY DEF Tick
<1> HIDE DEF next
<1>3. /\ offset' \in -1 .. At(Images + 1) + 1 /\ currentPage' \in 0..LastImage
      /\ RestsOnOriginal'
  BY <1>1, <1>2, ShowOriginal DEF RestsOnOriginal
<1>4. phase # "dead" /\ phase # "dragging" /\ phase' = "rest" /\ UNCHANGED <<timers, mine, turned>>
  BY DEF Tick
<1> QED
  BY <1>3, <1>4 DEF CarouselInv, CarouselTypeOK, OneTimer, DragsNeverMeetFreedTimer

(* A finger that comes down stops the timer. *)
LEMMA WillBeginDraggingInv == ASSUME CarouselInv, WillBeginDragging PROVE CarouselInv'
<1>1. PICK survives \in BOOLEAN :
        Invalidate(survives) /\ phase' = IF survives THEN "dragging" ELSE "dead"
  BY DEF WillBeginDragging
<1>2. timers' = 0 /\ mine' = "freed" /\ (mine = "live" => survives)
  BY <1>1, InvalidateStops DEF CarouselInv, CarouselTypeOK
<1>3. phase # "dragging" /\ UNCHANGED <<offset, currentPage, turned>>
  BY DEF WillBeginDragging
<1> QED
  BY <1>1, <1>2, <1>3 DEF CarouselInv, CarouselTypeOK, RestsOnOriginal, OneTimer, DragsNeverMeetFreedTimer

(* While the finger moves only the offset and the dot change. *)
LEMMA DragInv ==
    ASSUME CarouselInv, NEW o \in {offset - 1, offset + 1}, Drag(o)
    PROVE  CarouselInv'
<1>1. /\ o \in -1 .. At(Images + 1) + 1 /\ DidScroll(o)
      /\ phase = "dragging" /\ UNCHANGED <<phase, timers, mine, turned>>
  BY DEF Drag
<1>2. offset' \in -1 .. At(Images + 1) + 1 /\ currentPage' \in 0..LastImage
  BY <1>1, ScrollType
<1> QED
  BY <1>1, <1>2 DEF CarouselInv, CarouselTypeOK, RestsOnOriginal, OneTimer, DragsNeverMeetFreedTimer

(* The view comes to rest on the original of the page it ends on. *)
LEMMA DidEndDeceleratingInv ==
    ASSUME CarouselInv, NEW page \in 0 .. Images + 1, DidEndDecelerating(page)
    PROVE  CarouselInv'
<1>1. ImageOn(page) + 1 \in 1..Images
  BY ImagesAssumption DEF ImageOn, LastImage
<1>2. Show(ImageOn(page) + 1)
  BY DEF DidEndDecelerating
<1>3. /\ offset' \in -1 .. At(Images + 1) + 1 /\ currentPage' \in 0..LastImage
      /\ RestsOnOriginal'
  BY <1>1, <1>2, ShowOriginal DEF RestsOnOriginal
<1>4. phase = "decelerating" /\ phase' = "rest" /\ UNCHANGED <<timers, mine, turned>>
  BY DEF DidEndDecelerating
<1> QED
  BY <1>3, <1>4 DEF CarouselInv, CarouselTypeOK, OneTimer, DragsNeverMeetFreedTimer

(* A tap on the page control shows an original and stops the timer. *)
LEMMA PageTurnInv ==
    ASSUME CarouselInv, NEW i \in 0..LastImage, PageTurn(i)
    PROVE  CarouselInv'
<1>1. i + 1 \in 1..Images
  BY ImagesAssumption DEF LastImage
<1>2. Show(i + 1) /\ turned' = TRUE /\ phase # "dead"
  BY DEF PageTurn
<1>3. PICK survives \in BOOLEAN :
        /\ Invalidate(survives)
        /\ phase' = IF ~survives THEN "dead"
                    ELSE IF phase = "dragging" THEN phase ELSE "rest"
  BY DEF PageTurn
<1>4. timers' = 0 /\ mine' = "freed"
  BY <1>3, InvalidateStops DEF CarouselInv, CarouselTypeOK
<1>5. /\ offset' \in -1 .. At(Images + 1) + 1 /\ currentPage' \in 0..LastImage
      /\ RestsOnOriginal'
  BY <1>1, <1>2, ShowOriginal DEF RestsOnOriginal
<1>6. phase' \in {"dead", "dragging", "rest"}
  BY <1>3
<1> QED
  BY <1>2, <1>4, <1>5, <1>6 DEF CarouselInv, CarouselTypeOK, OneTimer, DragsNeverMeetFreedTimer

(* The strengthened invariant holds in every reachable state. *)
THEOREM CarouselInvariant == CarouselSpec => []CarouselInv
<1>1. CarouselInit => CarouselInv
  <2> SUFFICES ASSUME CarouselInit PROVE CarouselInv
    OBVIOUS
  <2>1. CarouselTypeOK
    <3>1. offset \in -1 .. At(Images + 1) + 1 /\ currentPage \in 0..LastImage /\ timers \in Nat
      BY ImagesAssumption DEF CarouselInit, At, LastImage
    <3>2. turned \in BOOLEAN
      BY Zenon DEF CarouselInit
    <3> QED
      BY <3>1, <3>2 DEF CarouselInit, CarouselTypeOK
  <2>2. 1 \in 1..Images /\ offset = At(1) /\ currentPage = ImageOn(1)
    BY ImagesAssumption DEF CarouselInit, ImageOn
  <2> QED
    BY <2>1, <2>2 DEF CarouselInit, CarouselInv, RestsOnOriginal, OneTimer, DragsNeverMeetFreedTimer
<1>2. CarouselInv /\ [CarouselNext]_carouselVars => CarouselInv'
  <2> SUFFICES ASSUME CarouselInv, [CarouselNext]_carouselVars PROVE CarouselInv'
    OBVIOUS
  <2>1. CASE DidEndDragging
    BY <2>1
    DEF DidEndDragging, CarouselInv, CarouselTypeOK, RestsOnOriginal, OneTimer, DragsNeverMeetFreedTimer
  <2>2. CASE UNCHANGED carouselVars
    BY <2>2
    DEF carouselVars, CarouselInv, CarouselTypeOK, RestsOnOriginal, OneTimer, DragsNeverMeetFreedTimer
  <2> QED
    BY <2>1, <2>2, TickInv, WillBeginDraggingInv, DragInv, DidEndDeceleratingInv, PageTurnInv
    DEF CarouselNext
<1> QED
  BY <1>1, <1>2, PTL DEF CarouselSpec

(* Every reachable state of the carousel is well typed. *)
THEOREM CarouselTypeCorrect == CarouselSpec => []CarouselTypeOK
<1>1. CarouselInv => CarouselTypeOK
  BY DEF CarouselInv
<1> QED
  BY <1>1, CarouselInvariant, PTL

(* The carousel comes to rest on an original with its dot. *)
THEOREM AlwaysRestsOnOriginal == CarouselSpec => []RestsOnOriginal
<1>1. CarouselInv => RestsOnOriginal
  BY DEF CarouselInv
<1> QED
  BY <1>1, CarouselInvariant, PTL

(* Timers never pile up, and the page's pointer tells whether there is one. *)
THEOREM TimersNeverPileUp == CarouselSpec => []OneTimer
<1>1. CarouselInv => OneTimer
  BY DEF CarouselInv
<1> QED
  BY <1>1, CarouselInvariant, PTL

(* Without a tap on the page control no freed timer is ever invalidated. *)
THEOREM DragsAreSafe == CarouselSpec => []DragsNeverMeetFreedTimer
<1>1. CarouselInv => DragsNeverMeetFreedTimer
  BY DEF CarouselInv
<1> QED
  BY <1>1, CarouselInvariant, PTL

(* The picture after i, the first after the last. *)
LEMMA NextImage ==
    ASSUME NEW i \in 0..LastImage
    PROVE  (i + 1) % Images = IF i + 1 = Images THEN 0 ELSE i + 1
<1> USE ImagesAssumption DEF LastImage
<1>1. CASE i + 1 = Images
  BY <1>1
<1>2. CASE i + 1 < Images
  BY <1>2
<1> QED
  BY <1>1, <1>2

(* A tick that leaves the carousel at rest shows the picture after the one *)
(* that was shown, from wherever the user has left it.                     *)
THEOREM TicksAdvance == CarouselSpec => TickAdvances
<1>1. CarouselInv /\ [CarouselNext]_carouselVars =>
        [ phase = "rest" /\ phase' = "rest" /\ timers = 1 /\ timers' = 1
            => ImageOn(Nearest(offset')) = (ImageOn(Nearest(offset)) + 1) % Images ]_carouselVars
  <2> SUFFICES ASSUME CarouselInv, CarouselNext, phase = "rest", phase' = "rest", timers = 1, timers' = 1
               PROVE  ImageOn(Nearest(offset')) = (ImageOn(Nearest(offset)) + 1) % Images
    OBVIOUS
  <2> USE ImagesAssumption
  <2>1. Tick
    <3>1. ASSUME NEW i \in 0..LastImage, PageTurn(i) PROVE FALSE
      BY <3>1, InvalidateStops DEF PageTurn, CarouselInv, CarouselTypeOK
    <3>2. ASSUME WillBeginDragging PROVE FALSE
      BY <3>2, InvalidateStops DEF WillBeginDragging, CarouselInv, CarouselTypeOK
    <3> QED
      BY <3>1, <3>2 DEF CarouselNext, Drag, DidEndDragging, DidEndDecelerating
  <2>2. PICK page \in 1..Images : offset = At(page) /\ currentPage = ImageOn(page)
    BY DEF CarouselInv, RestsOnOriginal
  <2>3. currentPage \in 0..LastImage /\ currentPage = ImageOn(Nearest(offset))
    BY <2>2, NearestOfPage DEF CarouselInv, CarouselTypeOK
  <2> DEFINE next == IF currentPage + 1 = Images THEN 1 ELSE currentPage + 2
  <2>4. next \in 1..Images
    BY <2>3 DEF LastImage
  <2>5. offset' = At(next)
    BY <2>1 DEF Tick, Show, DidScroll
  <2>6. ImageOn(Nearest(offset')) = ImageOn(next)
    BY <2>4, <2>5, NearestOfPage
  <2>7. ImageOn(next) = IF currentPage + 1 = Images THEN 0 ELSE currentPage + 1
    BY <2>3, <2>4 DEF ImageOn, LastImage
  <2> QED
    BY <2>3, <2>6, <2>7, NextImage
<1> QED
  BY <1>1, CarouselInvariant, PTL DEF CarouselSpec, TickAdvances
================================================================================
