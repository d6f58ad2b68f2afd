--------------------------- MODULE PhotoPageProofs ---------------------------
(* Theorems about the parts of the Four page, the blurred background, the  *)
(* fan menu and the toast, for any number of requests, buttons and clicks, *)
(* any duration and clock; and about the page that PhotoPage composes of   *)
(* them: what the parts keep alone they keep together.                     *)
EXTENDS PhotoPage, SequenceTheorems, TLAPS

------------------------------------------------------------------------------
(* The blurred background.                                                 *)

(* EachRequestOnce is inductive once the types are known. *)
BlurInv == BlurTypeOK /\ EachRequestOnce

Block == [request : Requests, result : Images]

(* A block posted to the main queue adds its request to those waiting. *)
LEMMA Posted ==
    ASSUME NEW q \in Seq(Block), NEW b \in Block
    PROVE  /\ Append(q, b) \in Seq(Block)
           /\ Len(Append(q, b)) = Len(q) + 1
           /\ \A i \in 1..Len(q) : Append(q, b)[i] = q[i]
           /\ Append(q, b)[Len(q) + 1] = b
  BY AppendProperties

(* A block taken from the main queue. *)
LEMMA Taken ==
    ASSUME NEW q \in Seq(Block), q # <<>>
    PROVE  /\ Tail(q) \in Seq(Block)
           /\ Head(q) = q[1] /\ Head(q) \in Block
           /\ Len(q) \in Nat \ {0} /\ Len(Tail(q)) = Len(q) - 1
           /\ \A i \in 1..Len(Tail(q)) : Tail(q)[i] = q[i + 1]
  BY HeadTailProperties

(* A new request has a name that no other has. *)
LEMMA RequestKeeps == ASSUME BlurInv, SetImageToBlur PROVE BlurInv'
<1> USE BlurAssumption
<1>1. made' \in Requests /\ made' \notin 1..made /\ 1..made' = (1..made) \cup {made'}
  BY DEF BlurInv, BlurTypeOK, SetImageToBlur, Requests
<1>2. BlurTypeOK'
  <2>1. made' \in 0..MaxRequests
    BY <1>1 DEF Requests
  <2> QED
    BY <1>1, <2>1 DEF BlurInv, BlurTypeOK, SetImageToBlur
<1>3. UNCHANGED <<mainQueue, Waiting>>
  BY DEF SetImageToBlur, Waiting
<1>4. EachRequestOnce'
  BY <1>1, <1>3 DEF BlurInv, EachRequestOnce, SetImageToBlur
<1> QED
  BY <1>2, <1>4 DEF BlurInv

(* A rendered request moves to the main queue. *)
LEMMA RenderKeeps == ASSUME BlurInv, NEW r \in Requests, Render(r) PROVE BlurInv'
<1> USE BlurAssumption
<1>1. PICK b \in Block : b.request = r /\ mainQueue' = Append(mainQueue, b)
  BY DEF Render, Block, Images, Requests
<1>2. mainQueue \in Seq(Block)
  BY DEF BlurInv, BlurTypeOK, Block
<1>3. /\ mainQueue' \in Seq(Block) /\ Len(mainQueue) \in Nat
      /\ Len(mainQueue') = Len(mainQueue) + 1
      /\ \A i \in 1..Len(mainQueue) : mainQueue'[i] = mainQueue[i]
      /\ mainQueue'[Len(mainQueue) + 1].request = r
  BY <1>1, <1>2, Posted
<1>4. Waiting' = Waiting \cup {r}
  BY <1>3 DEF Waiting
<1>5. r \in rendering /\ r \notin Waiting
  BY DEF Render, BlurInv, EachRequestOnce
<1>6. \A i, j \in 1..Len(mainQueue') :
         i # j => mainQueue'[i].request # mainQueue'[j].request
  <2>1. \A i \in 1..Len(mainQueue) : mainQueue[i].request # r
    BY <1>5 DEF Waiting
  <2>2. \A i \in 1..Len(mainQueue') : i \in 1..Len(mainQueue) \/ i = Len(mainQueue) + 1
    BY <1>3
  <2> QED
    BY <1>3, <2>1, <2>2 DEF BlurInv, EachRequestOnce
<1>7. EachRequestOnce'
  BY <1>4, <1>5, <1>6 DEF BlurInv, EachRequestOnce, Render
<1>8. BlurTypeOK'
  BY <1>3 DEF BlurInv, BlurTypeOK, Render, Block
<1> QED
  BY <1>7, <1>8 DEF BlurInv

(* The first request of the main queue is completed. *)
LEMMA SetKeeps == ASSUME BlurInv, SetImage PROVE BlurInv'
<1> DEFINE b == Head(mainQueue)
<1>1. mainQueue \in Seq(Block) /\ mainQueue # <<>> /\ mainQueue' = Tail(mainQueue)
  BY DEF BlurInv, BlurTypeOK, Block, SetImage
<1>2. /\ mainQueue' \in Seq(Block)
      /\ b = mainQueue[1] /\ b \in Block
      /\ Len(mainQueue) \in Nat \ {0} /\ Len(mainQueue') = Len(mainQueue) - 1
      /\ \A i \in 1..Len(mainQueue') : mainQueue'[i] = mainQueue[i + 1]
  BY <1>1, Taken
<1>3. \A i, j \in 1..Len(mainQueue) :
         i # j => mainQueue[i].request # mainQueue[j].request
  BY DEF BlurInv, EachRequestOnce
<1>4. \A i \in 1..Len(mainQueue') : i + 1 \in 1..Len(mainQueue) /\ i + 1 # 1
  BY <1>2
<1>5. \A i \in 1..Len(mainQueue) : i = 1 \/ (i - 1 \in 1..Len(mainQueue') /\ (i - 1) + 1 = i)
  BY <1>2
<1>6. 1 \in 1..Len(mainQueue)
  BY <1>2
<1>7. Waiting' = Waiting \ {b.request} /\ b.request \in Waiting
  <2> HIDE DEF b
  <2>1. b.request \in Waiting
    BY <1>2, <1>6 DEF Waiting
  <2>2. ASSUME NEW w \in Waiting' PROVE w \in Waiting /\ w # b.request
    <3>1. PICK i \in 1..Len(mainQueue') : w = mainQueue'[i].request
      BY <2>2 DEF Waiting
    <3>2. i + 1 \in 1..Len(mainQueue) /\ i + 1 # 1 /\ w = mainQueue[i + 1].request
      BY <1>2, <1>4, <3>1
    <3> QED
      BY <1>2, <1>3, <1>6, <3>2 DEF Waiting
  <2>3. ASSUME NEW w \in Waiting, w # b.request PROVE w \in Waiting'
    <3>1. PICK i \in 1..Len(mainQueue) : w = mainQueue[i].request
      BY <2>3 DEF Waiting
    <3>2. i - 1 \in 1..Len(mainQueue') /\ (i - 1) + 1 = i
      BY <1>2, <1>5, <2>3, <3>1
    <3>3. mainQueue'[i - 1].request = w
      BY <1>2, <3>1, <3>2
    <3> QED
      BY <3>2, <3>3 DEF Waiting
  <2> QED
    BY <2>1, <2>2, <2>3
<1>8. \A i, j \in 1..Len(mainQueue') :
         i # j => mainQueue'[i].request # mainQueue'[j].request
  <2> SUFFICES ASSUME NEW i \in 1..Len(mainQueue'), NEW j \in 1..Len(mainQueue'), i # j
               PROVE  mainQueue'[i].request # mainQueue'[j].request
    OBVIOUS
  <2>1. mainQueue'[i] = mainQueue[i + 1] /\ mainQueue'[j] = mainQueue[j + 1]
    BY <1>2
  <2>2. i + 1 \in 1..Len(mainQueue) /\ j + 1 \in 1..Len(mainQueue) /\ i + 1 # j + 1
    BY <1>4
  <2> QED
    BY <1>3, <2>1, <2>2
<1>9. EachRequestOnce'
  BY <1>7, <1>8 DEF BlurInv, EachRequestOnce, SetImage
<1>10. BlurTypeOK'
  BY <1>2 DEF BlurInv, BlurTypeOK, SetImage, Block
<1> QED
  BY <1>9, <1>10 DEF BlurInv

(* The page starts without requests. *)
LEMMA BlurStarts == BlurInit => BlurInv
  BY BlurAssumption DEF BlurInit, BlurInv, BlurTypeOK, EachRequestOnce, Waiting, Requests, Images

(* A request, a picture rendered and a picture set keep the invariant. *)
LEMMA BlurStep == BlurInv /\ [BlurNext]_blurVars => BlurInv'
<1>1. ASSUME BlurInv, UNCHANGED blurVars PROVE BlurInv'
  BY <1>1 DEF blurVars, BlurInv, BlurTypeOK, EachRequestOnce, Waiting
<1> QED
  BY <1>1, RequestKeeps, RenderKeeps, SetKeeps DEF BlurNext

(* The strengthened invariant holds in every reachable state. *)
THEOREM BlurInvariant == BlurSpec => []BlurInv
  BY BlurStarts, BlurStep, PTL DEF BlurSpec

(* Each request is in one place only, in whatever order the threads of the *)
(* global queue finish.                                                    *)
THEOREM RequestsAreNotLost == BlurSpec => []EachRequestOnce
<1>1. BlurInv => EachRequestOnce
  BY DEF BlurInv
<1> QED
  BY <1>1, BlurInvariant, PTL

(* The picture on screen once the blocks now waiting have run. *)
Last == IF mainQueue = <<>> THEN image ELSE mainQueue[Len(mainQueue)].request
Rendered == Waiting \cup completed

(* A block sets the picture of its own request; a request that is still    *)
(* being rendered while a later one is done counts as overtaken; and the   *)
(* picture that will be left is the newest of those rendered, or one that  *)
(* was overtaken.                                                          *)
OrderInv ==
    /\ \A i \in 1..Len(mainQueue) : mainQueue[i].result = mainQueue[i].request
    /\ \A r \in rendering, y \in Rendered : r < y => r \in overtaken
    /\ Rendered # {} => \/ Last \in overtaken
                        \/ Last \in Rendered /\ \A y \in Rendered : y <= Last

LEMMA RequestKeepsOrder == ASSUME BlurInv, OrderInv, SetImageToBlur PROVE OrderInv'
<1>1. UNCHANGED <<mainQueue, image, completed, overtaken, Waiting, Rendered, Last>>
  BY DEF SetImageToBlur, Waiting, Rendered, Last
<1>2. Rendered \subseteq 1..made /\ made \in Nat
  BY DEF Rendered, BlurInv, BlurTypeOK, EachRequestOnce
<1>3. rendering' \subseteq rendering \cup {made + 1}
  BY DEF SetImageToBlur
<1>4. \A r \in rendering', y \in Rendered : r < y => r \in overtaken
  BY <1>2, <1>3 DEF OrderInv
<1> QED
  BY <1>1, <1>4 DEF OrderInv

LEMMA RenderKeepsOrder ==
    ASSUME ~RenderMayFail, BlurInv, OrderInv, NEW r \in Requests, Render(r)
    PROVE  OrderInv'
<1> DEFINE b == [request |-> r, result |-> r]
<1>1. b \in Block /\ mainQueue \in Seq(Block) /\ mainQueue' = Append(mainQueue, b)
  BY DEF Render, Block, Images, BlurInv, BlurTypeOK
<1>2. /\ Len(mainQueue) \in Nat
      /\ Len(mainQueue') = Len(mainQueue) + 1
      /\ \A i \in 1..Len(mainQueue) : mainQueue'[i] = mainQueue[i]
      /\ mainQueue'[Len(mainQueue) + 1] = b
  BY <1>1, Posted
<1>3. \A i \in 1..Len(mainQueue') : i \in 1..Len(mainQueue) \/ i = Len(mainQueue) + 1
  BY <1>2
<1>4. Waiting' = Waiting \cup {r} /\ Rendered' = Rendered \cup {r}
  <2>1. Waiting' = Waiting \cup {r}
    BY <1>2 DEF Waiting
  <2> QED
    BY <2>1 DEF Rendered, Render
<1>5. Last' = r
  <2>1. mainQueue' # <<>>
    BY <1>2
  <2> QED
    BY <1>2, <2>1 DEF Last
<1>6. r \in rendering /\ rendering' = rendering \ {r} /\ overtaken' = overtaken \cup {o \in rendering : o < r}
  BY DEF Render
<1>7. Rendered \subseteq Nat /\ r \in Nat /\ rendering \subseteq Nat
  BY DEF Rendered, BlurInv, BlurTypeOK, EachRequestOnce, Requests
<1>8. \A i \in 1..Len(mainQueue') : mainQueue'[i].result = mainQueue'[i].request
  BY <1>2, <1>3 DEF OrderInv
<1>9. \A o \in rendering', y \in Rendered' : o < y => o \in overtaken'
  BY <1>4, <1>6 DEF OrderInv
<1>10. \/ Last' \in overtaken'
       \/ Last' \in Rendered' /\ \A y \in Rendered' : y <= Last'
  BY <1>4, <1>5, <1>6, <1>7 DEF OrderInv
<1> QED
  BY <1>8, <1>9, <1>10 DEF OrderInv

LEMMA SetKeepsOrder == ASSUME BlurInv, OrderInv, SetImage PROVE OrderInv'
<1> DEFINE b == Head(mainQueue)
<1>1. mainQueue \in Seq(Block) /\ mainQueue # <<>> /\ mainQueue' = Tail(mainQueue)
  BY DEF BlurInv, BlurTypeOK, Block, SetImage
<1>2. /\ b = mainQueue[1]
      /\ Len(mainQueue) \in Nat \ {0} /\ Len(mainQueue') = Len(mainQueue) - 1
      /\ mainQueue' \in Seq(Block)
      /\ \A i \in 1..Len(mainQueue') : mainQueue'[i] = mainQueue[i + 1]
  BY <1>1, Taken
<1>3. image' = b.result /\ completed' = completed \cup {b.request}
      /\ UNCHANGED <<rendering, overtaken>>
  BY DEF SetImage
<1> HIDE DEF b
<1>4. 1 \in 1..Len(mainQueue)
  BY <1>2
<1>5. b.result = b.request
  BY <1>2, <1>4 DEF OrderInv
<1>6. \A i \in 1..Len(mainQueue') : i + 1 \in 1..Len(mainQueue)
  BY <1>2
<1>7. \A i \in 1..Len(mainQueue) : i = 1 \/ (i - 1 \in 1..Len(mainQueue') /\ (i - 1) + 1 = i)
  BY <1>2
<1>8. Waiting = Waiting' \cup {b.request}
  <2>1. ASSUME NEW w \in Waiting' PROVE w \in Waiting
    <3>1. PICK i \in 1..Len(mainQueue') : w = mainQueue'[i].request
      BY <2>1 DEF Waiting
    <3>2. i + 1 \in 1..Len(mainQueue) /\ w = mainQueue[i + 1].request
      BY <1>2, <1>6, <3>1
    <3> QED
      BY <3>2 DEF Waiting
  <2>2. ASSUME NEW w \in Waiting, w # b.request PROVE w \in Waiting'
    <3>1. PICK i \in 1..Len(mainQueue) : w = mainQueue[i].request
      BY <2>2 DEF Waiting
    <3>2. i - 1 \in 1..Len(mainQueue') /\ (i - 1) + 1 = i
      BY <1>2, <1>7, <2>2, <3>1
    <3>3. mainQueue'[i - 1].request = w
      BY <1>2, <3>1, <3>2
    <3> QED
      BY <3>2, <3>3 DEF Waiting
  <2>3. b.request \in Waiting
    BY <1>2, <1>4 DEF Waiting
  <2> QED
    BY <2>1, <2>2, <2>3
<1>9. Rendered' = Rendered
  BY <1>3, <1>8 DEF Rendered
<1>10. Last' = Last
  <2>1. CASE Len(mainQueue) = 1
    <3>1. mainQueue' = <<>>
      BY <1>2, <2>1, EmptySeq
    <3> QED
      BY <1>1, <1>2, <1>3, <1>5, <2>1, <3>1 DEF Last
  <2>2. CASE Len(mainQueue) # 1
    <3>1. Len(mainQueue') \in 1..Len(mainQueue') /\ Len(mainQueue') + 1 = Len(mainQueue)
          /\ mainQueue' # <<>>
      BY <1>2, <2>2
    <3> QED
      BY <1>1, <1>2, <3>1 DEF Last
  <2> QED
    BY <2>1, <2>2
<1>11. \A i \in 1..Len(mainQueue') : mainQueue'[i].result = mainQueue'[i].request
  BY <1>2, <1>6 DEF OrderInv
<1> QED
  BY <1>3, <1>9, <1>10, <1>11 DEF OrderInv

LEMMA OrderStarts == BlurInit => OrderInv
  BY DEF BlurInit, OrderInv, Rendered, Waiting

LEMMA OrderStep ==
    ASSUME ~RenderMayFail, BlurInv, OrderInv, [BlurNext]_blurVars
    PROVE  OrderInv'
<1>1. CASE UNCHANGED blurVars
  BY <1>1 DEF blurVars, OrderInv, Rendered, Waiting, Last
<1> QED
  BY <1>1, RequestKeepsOrder, RenderKeepsOrder, SetKeepsOrder DEF BlurNext

(* An old blur ends up on top of a new one only if it was rendered after.  *)
LEMMA OrderSuffices == BlurInv /\ OrderInv => OnlyOvertakingHidesNewest
<1> SUFFICES ASSUME BlurInv, OrderInv, Idle, completed # {}
             PROVE  image = Newest(completed) \/ image \in overtaken
  BY DEF OnlyOvertakingHidesNewest
<1>1. Rendered = completed /\ Last = image /\ completed \subseteq Nat
  BY DEF Idle, Rendered, Waiting, Last, BlurInv, BlurTypeOK, Requests
<1>2. CASE image \in completed /\ \A y \in completed : y <= image
  <2>1. Newest(completed) \in completed /\ \A o \in completed : o <= Newest(completed)
    BY <1>2 DEF Newest
  <2> DEFINE n == Newest(completed)
  <2> HIDE DEF n
  <2>2. n \in Nat /\ image \in Nat /\ n <= image /\ image <= n
    BY <1>1, <1>2, <2>1 DEF n
  <2> QED
    BY <2>2 DEF n
<1> QED
  BY <1>1, <1>2 DEF OrderInv

(* If every picture can be rendered, the newest is left on screen, unless  *)
(* it was overtaken.                                                       *)
THEOREM NewestIsShown ==
    ASSUME ~RenderMayFail
    PROVE  BlurSpec => []OnlyOvertakingHidesNewest
<1>1. BlurInv /\ OrderInv /\ [BlurNext]_blurVars => OrderInv'
  BY OrderStep
<1> QED
  BY <1>1, OrderStarts, OrderSuffices, BlurInvariant, PTL DEF BlurSpec

------------------------------------------------------------------------------
(* The fan menu.                                                           *)

(* MenuMeetsTouches is not inductive: that a menu put away cannot be       *)
(* touched rests on its buttons being hidden, or never having been shown;  *)
(* that an open one can, on the animations that are still to stop.         *)
FanInv ==
    /\ MenuTypeOK
    /\ isShow => ~hidden
    /\ ~isShow => hidden \/ (center = "away" /\ running = 0)
    /\ isShow /\ running = 0 => center = "out"

(* The menu starts in the invariant. *)
LEMMA FanStarts == MenuInit => FanInv
<1> SUFFICES ASSUME MenuInit PROVE FanInv
  OBVIOUS
<1>1. isShow = FALSE /\ hidden = FALSE /\ center = "away" /\ turned = FALSE /\ running = 0
  BY DEF MenuInit
<1>2. MenuTypeOK
  BY <1>1 DEF MenuTypeOK
<1> QED
  BY <1>1, <1>2, Zenon DEF FanInv

(* Every gesture and every animation that stops keeps it. *)
LEMMA FanKeeps == FanInv /\ [MenuNext]_menuVars => FanInv'
<1> SUFFICES ASSUME FanInv, [MenuNext]_menuVars PROVE FanInv'
  OBVIOUS
<1> USE FanAssumption DEF FanInv, MenuTypeOK
<1>1. CASE SwipeLeft
  <2>1. running' \in Nat /\ running' # 0
    BY <1>1 DEF SwipeLeft, ShowMenu
  <2>2. isShow' = TRUE /\ hidden' = FALSE /\ center' = center
    BY <1>1, Zenon DEF SwipeLeft, ShowMenu
  <2>3. turned' \in BOOLEAN
    BY <1>1, Zenon DEF SwipeLeft, ShowMenu
  <2> QED
    BY <2>1, <2>2, <2>3, Zenon
<1>2. CASE SwipeRight
  BY <1>2 DEF SwipeRight, HideMenu
<1>3. CASE AnimationDidStop
  BY <1>3 DEF AnimationDidStop
<1>4. CASE UNCHANGED menuVars
  BY <1>4 DEF menuVars
<1> QED
  BY <1>1, <1>2, <1>3, <1>4 DEF MenuNext, ClickBegin

(* The strengthened invariant holds in every reachable state. *)
THEOREM FanInvariant == MenuSpec => []FanInv
  BY FanStarts, FanKeeps, PTL DEF MenuSpec

(* Every reachable state of the menu is well typed. *)
THEOREM FanTypeCorrect == MenuSpec => []MenuTypeOK
<1>1. FanInv => MenuTypeOK
  BY DEF FanInv
<1> QED
  BY <1>1, FanInvariant, PTL

(* A menu that was put away cannot be touched, an open one whose           *)
(* animations have stopped can, however the two overlap.                   *)
THEOREM TouchesAreMet == MenuSpec => []MenuMeetsTouches
<1>1. FanInv => MenuMeetsTouches
  BY DEF FanInv, MenuMeetsTouches, Touchable
<1> QED
  BY <1>1, FanInvariant, PTL

------------------------------------------------------------------------------
(* The toast.                                                              *)

(* The clock in whole seconds. *)
LEMMA Quotient ==
    ASSUME NEW a \in Nat, NEW s \in Nat \ {0}
    PROVE  a \div s \in Nat /\ s * (a \div s) <= a /\ a < s * (a \div s) + s
  OBVIOUS

LEMMA Monotone ==
    ASSUME NEW s \in Nat, NEW q \in Nat, NEW r \in Nat, q <= r
    PROVE  s * q <= s * r /\ s * (q + 1) = s * q + s
  OBVIOUS

LEMMA OnlyQuotient ==
    ASSUME NEW a \in Nat, NEW s \in Nat \ {0}, NEW q \in Nat, s * q <= a, a < s * q + s
    PROVE  a \div s = q
<1> DEFINE r == a \div s
<1>1. r \in Nat /\ s * r <= a /\ a < s * r + s
  BY Quotient
<1> HIDE DEF r
<1>2. ASSUME q < r PROVE FALSE
  <2>1. s * (q + 1) <= s * r /\ s * (q + 1) = s * q + s
    BY <1>1, <1>2, Monotone
  <2> QED
    BY <1>1, <2>1
<1>3. ASSUME r < q PROVE FALSE
  <2>1. s * (r + 1) <= s * q /\ s * (r + 1) = s * r + s
    BY <1>1, <1>3, Monotone
  <2> QED
    BY <1>1, <2>1
<1> QED
  BY <1>1, <1>2, <1>3 DEF r

(* A timer that is set for a number of seconds is due that many seconds    *)
(* later on the clock of whole seconds, too; and what is that clock's      *)
(* distance can be almost a second less.                                   *)
LEMMA SecondsLater ==
    ASSUME NEW a \in Nat
    PROVE  InSeconds(a + Duration * Second) = InSeconds(a) + Duration
<1> USE ToastAssumption
<1> DEFINE q == InSeconds(a)
<1>1. q \in Nat /\ Second * q <= a /\ a < Second * q + Second
  BY Quotient DEF InSeconds
<1> HIDE DEF q
<1>2. Second * (q + Duration) = Second * q + Duration * Second /\ Duration * Second \in Nat
      /\ Second * q \in Nat
  BY <1>1
<1>3. Second * (q + Duration) <= a + Duration * Second
      /\ a + Duration * Second < Second * (q + Duration) + Second
  BY <1>1, <1>2
<1>4. a + Duration * Second \in Nat /\ q + Duration \in Nat
  BY <1>1, <1>2
<1>5. (a + Duration * Second) \div Second = q + Duration
  BY <1>3, <1>4, OnlyQuotient
<1> QED
  BY <1>5 DEF InSeconds, q

LEMMA SecondsGrow ==
    ASSUME NEW a \in Nat, NEW b \in Nat, a <= b
    PROVE  InSeconds(a) <= InSeconds(b) /\ InSeconds(a) \in Nat /\ InSeconds(b) \in Nat
<1> USE ToastAssumption
<1> DEFINE q == InSeconds(a) r == InSeconds(b)
<1>1. /\ q \in Nat /\ Second * q <= a
      /\ r \in Nat /\ b < Second * r + Second
  BY Quotient DEF InSeconds
<1> HIDE DEF q, r
<1>2. ASSUME r < q PROVE FALSE
  <2>1. Second * (r + 1) <= Second * q /\ Second * (r + 1) = Second * r + Second
    BY <1>1, <1>2, Monotone
  <2>2. Second * q \in Nat /\ Second * r \in Nat
    BY <1>1
  <2> QED
    BY <1>1, <2>1, <2>2
<1> QED
  BY <1>1, <1>2 DEF q, r

LEMMA SecondsApart ==
    ASSUME NEW a \in Nat, NEW b \in Nat, InSeconds(b) - InSeconds(a) = Duration
    PROVE  b - a > (Duration - 1) * Second
<1> USE ToastAssumption
<1> DEFINE q == InSeconds(a) r == InSeconds(b)
<1>1. /\ q \in Nat /\ a < Second * q + Second
      /\ r \in Nat /\ Second * r <= b
  BY Quotient DEF InSeconds
<1>2. r = q + Duration
  BY <1>1
<1> HIDE DEF q, r
<1>3. Second * r = Second * q + Second * Duration
  BY <1>1, <1>2
<1>4. (Duration - 1) * Second = Second * Duration - Second
  OBVIOUS
<1>5. Second * q \in Nat /\ Second * Duration \in Nat
  BY <1>1
<1> QED
  BY <1>1, <1>3, <1>4, <1>5

(* The timer of the toast on screen, if it has not fired, is due the       *)
(* duration after the click that clickTime remembers in seconds.           *)
ToastInv ==
    /\ now \in Nat /\ clicks \in Nat /\ since \in Nat /\ since <= now
    /\ visible \in BOOLEAN
    /\ timers \subseteq [toast : 1..clicks, due : Nat]
    /\ \A t \in timers : t.toast = clicks => t.due = since + Duration * Second
    /\ visible => clickTime = InSeconds(since)
    /\ GoneWhenOver

LEMMA ToastStarts == ToastInit => ToastInv
<1> SUFFICES ASSUME ToastInit PROVE ToastInv
  OBVIOUS
<1>1. now \in Nat /\ since = 0 /\ clicks = 0 /\ timers = {} /\ visible = FALSE
  BY ToastAssumption DEF ToastInit
<1>2. now \in Nat /\ clicks \in Nat /\ since \in Nat /\ since <= now
  BY <1>1
<1>5. visible \in BOOLEAN
  BY <1>1, Zenon
<1>3. /\ timers \subseteq [toast : 1..clicks, due : Nat]
      /\ \A t \in timers : t.toast = clicks => t.due = since + Duration * Second
  BY <1>1, Zenon
<1>4. (visible => clickTime = InSeconds(since)) /\ GoneWhenOver
  BY <1>1 DEF GoneWhenOver
<1> QED
  BY <1>2, <1>3, <1>4, <1>5 DEF ToastInv

LEMMA ToastKeeps == ToastInv /\ [ToastNext]_toastVars => ToastInv'
<1> SUFFICES ASSUME ToastInv, [ToastNext]_toastVars PROVE ToastInv'
  OBVIOUS
<1> USE ToastAssumption DEF ToastInv
<1>0. Duration * Second \in Nat
  OBVIOUS
<1>1. CASE Click
  <2> DEFINE n == [toast |-> clicks + 1, due |-> now + Duration * Second]
  <2>1. /\ clicks' = clicks + 1 /\ visible' = TRUE /\ clickTime' = InSeconds(now)
        /\ timers' = timers \cup {n} /\ since' = now /\ now' = now
    BY <1>1 DEF Click
  <2>2. n.toast = clicks' /\ n.due = since' + Duration * Second
        /\ n \in [toast : 1..clicks', due : Nat] /\ n \in timers'
    BY <1>0, <2>1
  <2> HIDE DEF n
  <2>3. \A t \in timers : t.toast \in 1..clicks /\ t.due \in Nat /\ t \in [toast : 1..clicks', due : Nat]
    BY <2>1
  <2>4. timers' \subseteq [toast : 1..clicks', due : Nat]
    BY <2>1, <2>2, <2>3
  <2>5. \A t \in timers' : t.toast = clicks' => t.due = since' + Duration * Second
    BY <2>1, <2>2, <2>3
  <2>6. clickTime' = InSeconds(since)'
    BY <2>1 DEF InSeconds
  <2>7. GoneWhenOver'
    BY <2>2 DEF GoneWhenOver
  <2> QED
    BY <2>1, <2>4, <2>5, <2>6, <2>7
<1>2. ASSUME NEW t \in timers, TimeOver(t) PROVE ToastInv'
  <2>1. /\ now >= t.due /\ timers' = timers \ {t}
        /\ visible' = (visible /\ InSeconds(now) - clickTime # Duration)
        /\ slipped' = IF InSeconds(now) > InSeconds(t.due) THEN slipped \cup {t.toast} ELSE slipped
        /\ UNCHANGED <<now, clicks, clickTime, since>>
    BY <1>2 DEF TimeOver
  <2>2. slipped \subseteq slipped'
    BY <2>1
  <2>3. GoneWhenOver'
    <3> SUFFICES ASSUME visible'
                 PROVE  clicks \in slipped' \/ \E u \in timers' : u.toast = clicks
      BY <2>1 DEF GoneWhenOver
    <3>1. visible /\ clickTime = InSeconds(since) /\ InSeconds(now) - clickTime # Duration
      BY <2>1
    <3>2. CASE t.toast = clicks
      <4>1. t.due = since + Duration * Second /\ t.due \in Nat
        BY <1>0, <3>2
      <4>2. InSeconds(t.due) = InSeconds(since) + Duration
        BY <4>1, SecondsLater
      <4>3. InSeconds(t.due) <= InSeconds(now) /\ InSeconds(t.due) \in Nat /\ InSeconds(now) \in Nat
            /\ InSeconds(since) \in Nat
        BY <2>1, <4>1, SecondsGrow
      <4>4. InSeconds(now) > InSeconds(t.due)
        BY <3>1, <4>2, <4>3
      <4> QED
        BY <2>1, <3>2, <4>4
    <3>3. CASE t.toast # clicks
      BY <2>1, <2>2, <3>1, <3>3 DEF GoneWhenOver
    <3> QED
      BY <3>2, <3>3
  <2>4. visible' => clickTime' = InSeconds(since)'
    BY <2>1 DEF InSeconds
  <2>5. visible' \in BOOLEAN
    BY <2>1
  <2> QED
    BY <2>1, <2>3, <2>4, <2>5
<1>3. CASE Advance
  <2>1. now' = now + 1 /\ UNCHANGED <<clicks, visible, clickTime, timers, since, slipped>>
    BY <1>3 DEF Advance
  <2> QED
    BY <2>1 DEF GoneWhenOver, InSeconds
<1>4. CASE UNCHANGED toastVars
  BY <1>4 DEF toastVars, GoneWhenOver, InSeconds
<1> QED
  BY <1>1, <1>2, <1>3, <1>4 DEF ToastNext

(* The strengthened invariant holds in every reachable state. *)
THEOREM ToastInvariant == ToastSpec => []ToastInv
  BY ToastStarts, ToastKeeps, PTL DEF ToastSpec

(* A toast stays only while its timer is still to fire, or has fired in a  *)
(* later second than it was due, for any duration and clock.               *)
THEOREM ToastIsGone == ToastSpec => []GoneWhenOver
<1>1. ToastInv => GoneWhenOver
  BY DEF ToastInv
<1> QED
  BY <1>1, ToastInvariant, PTL

LEMMA ShownLongEnough ==
    ToastInv /\ [ToastNext]_toastVars =>
        [visible /\ ~visible' => now - since > (Duration - 1) * Second]_toastVars
<1> SUFFICES ASSUME ToastInv, ToastNext, visible, ~visible'
             PROVE  now - since > (Duration - 1) * Second
  OBVIOUS
<1>1. PICK t \in timers : TimeOver(t)
  BY DEF ToastNext, Click, Advance
<1>2. InSeconds(now) - InSeconds(since) = Duration
  BY <1>1 DEF TimeOver, ToastInv
<1> QED
  BY <1>2, SecondsApart DEF ToastInv

(* The timer of an earlier toast takes less than a second from a later one.*)
THEOREM ToastStays == ToastSpec => NotCutShort
  BY ShownLongEnough, ToastInvariant, PTL DEF ToastSpec, NotCutShort

------------------------------------------------------------------------------
(* The page.                                                               *)

(* Every step of the page is a step of the menu, or leaves it alone. *)
LEMMA MenuOfPage == [PageNext]_pageVars => [MenuNext]_menuVars
<1>1. PageNext => [MenuNext]_menuVars
  BY Zenon DEF PageNext, InitWithNibName, ClickBtn, ToastStep, RenderStep, ImageStep,
     Gesture, AnimationStep, MenuNext
<1>2. UNCHANGED pageVars => UNCHANGED menuVars
  BY DEF pageVars
<1> QED
  BY <1>1, <1>2

(* Every step of the page is a step of the background, or leaves it alone. *)
LEMMA BlurOfPage == [PageNext]_pageVars => [BlurNext]_blurVars
<1>1. PageNext => [BlurNext]_blurVars
  BY Zenon DEF PageNext, InitWithNibName, ClickBtn, ToastStep, RenderStep, ImageStep,
     Gesture, AnimationStep, BlurNext
<1>2. UNCHANGED pageVars => UNCHANGED blurVars
  BY DEF pageVars
<1> QED
  BY <1>1, <1>2

(* On the page too the buttons of a menu that was put away are out of      *)
(* reach: no click comes from them while animations still stop.            *)
THEOREM PageMeetsTouches == PageSpec => []MenuMeetsTouches
<1>1. PageInit => FanInv
  BY FanStarts DEF PageInit
<1>2. FanInv /\ [PageNext]_pageVars => FanInv'
  BY FanKeeps, MenuOfPage
<1>3. FanInv => MenuMeetsTouches
  BY DEF FanInv, MenuMeetsTouches, Touchable
<1> QED
  BY <1>1, <1>2, <1>3, PTL DEF PageSpec

(* Clicks, whenever the menu lets them through, lose no blur request and   *)
(* complete none twice.                                                    *)
THEOREM PageLosesNoRequest == PageSpec => []EachRequestOnce
<1>1. PageInit => BlurInv
  BY BlurStarts DEF PageInit
<1>2. BlurInv /\ [PageNext]_pageVars => BlurInv'
  BY BlurStep, BlurOfPage
<1>3. BlurInv => EachRequestOnce
  BY DEF BlurInv
<1> QED
  BY <1>1, <1>2, <1>3, PTL DEF PageSpec

(* Every step of the page is a step of the toast, or leaves it alone. *)
LEMMA ToastOfPage == [PageNext]_pageVars => [ToastNext]_toastVars
<1>1. PageNext => [ToastNext]_toastVars
  BY Zenon DEF PageNext, InitWithNibName, ClickBtn, ToastStep, RenderStep, ImageStep,
     Gesture, AnimationStep, ToastNext
<1>2. UNCHANGED pageVars => UNCHANGED toastVars
  BY DEF pageVars
<1> QED
  BY <1>1, <1>2

LEMMA PageKeepsToast == PageSpec => []ToastInv
<1>1. PageInit => ToastInv
  BY ToastStarts DEF PageInit
<1>2. ToastInv /\ [PageNext]_pageVars => ToastInv'
  BY ToastKeeps, ToastOfPage
<1> QED
  BY <1>1, <1>2, PTL DEF PageSpec

(* On the page, too, only a late timer leaves a toast behind. *)
THEOREM PageToastIsGone == PageSpec => []GoneWhenOver
<1>1. ToastInv => GoneWhenOver
  BY DEF ToastInv
<1> QED
  BY <1>1, PageKeepsToast, PTL

(* Nor does a menu or a blur take a toast away before its time. *)
THEOREM PageToastStays == PageSpec => NotCutShort
<1>1. ToastInv /\ [PageNext]_pageVars =>
         [visible /\ ~visible' => now - since > (Duration - 1) * Second]_toastVars
  BY ToastOfPage, ShownLongEnough
<1> QED
  BY <1>1, PageKeepsToast, PTL DEF PageSpec, NotCutShort

(* However clicks and animations meet the rendering, the newest background *)
(* is the one left on screen, unless it was overtaken.                     *)
THEOREM PageShowsNewest ==
    ASSUME ~RenderMayFail
    PROVE  PageSpec => []OnlyOvertakingHidesNewest
<1>1. PageInit => BlurInv /\ OrderInv
  BY BlurStarts, OrderStarts DEF PageInit
<1>2. BlurInv /\ OrderInv /\ [PageNext]_pageVars => BlurInv' /\ OrderInv'
  BY BlurStep, OrderStep, BlurOfPage
<1> QED
  BY <1>1, <1>2, OrderSuffices, PTL DEF PageSpec
==============================================================================
