---------------------------- MODULE KeyboardProofs ----------------------------
(* Theorems about KeyboardManager, for any page, geometry and input        *)
(* methods, and about the bar of the chat page, which lives on the same    *)
(* notifications.                                                          *)
EXTENDS ChatBar, SequenceTheorems, TLAPS

(* Heights a keyboard comes up with: the input method's own, or with a     *)
(* toolbar.                                                                *)
Heights == {input, input + Toolbar}

(* The notifications that UIKit has still to deliver, by what the manager  *)
(* knows meanwhile: its field is the first responder before and after, no  *)
(* field is between the end of one and the beginning of the next.          *)
Rests == queue = <<>> /\ field = focus /\ (focus # NoField <=> keyboard # 0)
Shows == /\ focus # NoField /\ field = focus
         /\ \E h \in Heights : queue = <<WillShow(h)>>
Starts == /\ focus # NoField /\ field = NoField
          /\ \/ \E h \in Heights : \/ queue = <<WillShow(h), DidBegin(focus)>>
                                   \/ queue = <<DidBegin(focus), WillShow(h)>>
             \/ queue = <<DidBegin(focus)>> /\ keyboard # 0
Switches == /\ focus # NoField /\ field # NoField
            /\ \/ \E h \in Heights : \/ queue = <<DidEnd, WillShow(h), DidBegin(focus)>>
                                     \/ queue = <<DidEnd, DidBegin(focus), WillShow(h)>>
               \/ queue = <<DidEnd, DidBegin(focus)>> /\ keyboard # 0
Bounces == /\ focus # NoField /\ field # NoField
           /\ \E h \in Heights :
                \/ queue = <<WillHide, DidEnd, WillShow(h), DidBegin(focus)>>
                \/ queue = <<WillHide, DidEnd, DidBegin(focus), WillShow(h)>>
Ends == /\ focus = NoField /\ field # NoField
        /\ \/ queue = <<WillHide, DidEnd>>
           \/ queue = <<DidEnd>> /\ keyboard = 0 /\ ~showing

Phase == Rests \/ Shows \/ Starts \/ Switches \/ Bounces \/ Ends

(* What the manager knows of the keyboard, in step with the phase. *)
Knowledge ==
    /\ saved = keyboard
    /\ kbHeight = IF enabled /\ keyboard # 0 THEN keyboard + Distance ELSE 0
    /\ keyboard \in {0} \cup Heights \/ Shows
    /\ showing => enabled
    /\ Rests /\ focus = NoField => ~showing
    /\ (Rests \/ Shows) /\ enabled /\ focus # NoField => showing

(* The frame that is saved is the one of the field that is edited. *)
Kept ==
    /\ frame = [f \in Fields |-> f]
    /\ initial \in Frames
    /\ field # NoField => initial = field

KeyTypes ==
    /\ enabled \in BOOLEAN /\ showing \in BOOLEAN /\ toolbar \in BOOLEAN
    /\ field \in Fields \cup {NoField} /\ focus \in Fields \cup {NoField}
    /\ bounce \in Fields \cup {NoField}
    /\ input \in Inputs /\ keyboard \in Nat
    /\ ~MayToggle => enabled

KeyInv == KeyTypes /\ Phase /\ Knowledge /\ Kept

USE FieldsAssumption, GeometryAssumption

------------------------------------------------------------------------------
(* Two notifications after one, and after two. *)
LEMMA OneAndTwo == ASSUME NEW a, NEW b, NEW c PROVE <<a>> \o <<b, c>> = <<a, b, c>>
<1> DEFINE S == {a, b, c} s == <<a>> t == <<b, c>> u == <<a, b, c>>
<1>1. s \in Seq(S) /\ t \in Seq(S) /\ u \in Seq(S) /\ Len(s) = 1 /\ Len(t) = 2 /\ Len(u) = 3
  OBVIOUS
<1>2. /\ s \o t \in Seq(S) /\ Len(s \o t) = 3
      /\ \A i \in 1..3 : (s \o t)[i] = IF i <= 1 THEN s[i] ELSE t[i - 1]
  BY <1>1, ConcatProperties
<1>3. \A i \in 1..3 : i = 1 \/ i = 2 \/ i = 3
  OBVIOUS
<1>4. \A i \in 1..3 : (s \o t)[i] = u[i]
  BY <1>2, <1>3
<1> HIDE DEF S, s, t, u
<1>5. s \o t = u
  BY <1>1, <1>2, <1>4, SeqEqual
<1> QED
  BY <1>5 DEF s, t, u

LEMMA TwoAndTwo == ASSUME NEW a, NEW b, NEW c, NEW d PROVE <<a, b>> \o <<c, d>> = <<a, b, c, d>>
<1> DEFINE S == {a, b, c, d} s == <<a, b>> t == <<c, d>> u == <<a, b, c, d>>
<1>1. s \in Seq(S) /\ t \in Seq(S) /\ u \in Seq(S) /\ Len(s) = 2 /\ Len(t) = 2 /\ Len(u) = 4
  OBVIOUS
<1>2. /\ s \o t \in Seq(S) /\ Len(s \o t) = 4
      /\ \A i \in 1..4 : (s \o t)[i] = IF i <= 2 THEN s[i] ELSE t[i - 2]
  BY <1>1, ConcatProperties
<1>3. \A i \in 1..4 : i = 1 \/ i = 2 \/ i = 3 \/ i = 4
  OBVIOUS
<1>4. \A i \in 1..4 : (s \o t)[i] = u[i]
  BY <1>2, <1>3
<1> HIDE DEF S, s, t, u
<1>5. s \o t = u
  BY <1>1, <1>2, <1>4, SeqEqual
<1> QED
  BY <1>5 DEF s, t, u

(* A keyboard that is on screen has a height, also after a change of the   *)
(* input method.                                                           *)
LEMMA HeightsArePositive ==
    ASSUME input \in Inputs
    PROVE  \A h \in Heights : h \in Nat \ {0}
  BY DEF Heights

(* What UIKit posts when a field becomes the first responder of a window   *)
(* without one, and the same after one or two other notifications.         *)
LEMMA Posts ==
    ASSUME NEW f \in Fields, input \in Inputs
    PROVE  /\ HeightFor(f) \in Heights
           /\ \/ /\ Beginning(f) = <<WillShow(HeightFor(f)), DidBegin(f)>>
                 /\ <<DidEnd>> \o Beginning(f) = <<DidEnd, WillShow(HeightFor(f)), DidBegin(f)>>
                 /\ Resigning \o Beginning(f) =
                        <<WillHide, DidEnd, WillShow(HeightFor(f)), DidBegin(f)>>
              \/ /\ Beginning(f) = <<DidBegin(f), WillShow(HeightFor(f))>>
                 /\ <<DidEnd>> \o Beginning(f) = <<DidEnd, DidBegin(f), WillShow(HeightFor(f))>>
                 /\ Resigning \o Beginning(f) =
                        <<WillHide, DidEnd, DidBegin(f), WillShow(HeightFor(f))>>
<1>1. HeightFor(f) \in Heights
  BY DEF HeightFor, Heights
<1>2. CASE f \in TextViews
  <2>1. Beginning(f) = <<WillShow(HeightFor(f)), DidBegin(f)>>
    BY <1>2 DEF Beginning
  <2>2. <<DidEnd>> \o Beginning(f) = <<DidEnd, WillShow(HeightFor(f)), DidBegin(f)>>
    BY <2>1, OneAndTwo, Zenon
  <2>3. Resigning \o Beginning(f) = <<WillHide, DidEnd, WillShow(HeightFor(f)), DidBegin(f)>>
    BY <2>1, TwoAndTwo, Zenon DEF Resigning
  <2> QED
    BY <1>1, <2>1, <2>2, <2>3, Zenon
<1>3. CASE f \notin TextViews
  <2>1. Beginning(f) = <<DidBegin(f), WillShow(HeightFor(f))>>
    BY <1>3 DEF Beginning
  <2>2. <<DidEnd>> \o Beginning(f) = <<DidEnd, DidBegin(f), WillShow(HeightFor(f))>>
    BY <2>1, OneAndTwo, Zenon
  <2>3. Resigning \o Beginning(f) = <<WillHide, DidEnd, DidBegin(f), WillShow(HeightFor(f))>>
    BY <2>1, TwoAndTwo, Zenon DEF Resigning
  <2> QED
    BY <1>1, <2>1, <2>2, <2>3, Zenon
<1> QED
  BY <1>2, <1>3

(* Only in the first two phases the field is the first responder's.        *)
LEMMA Apart == Starts \/ Switches \/ Bounces \/ Ends => ~Rests /\ ~Shows
<1> SUFFICES ASSUME Starts \/ Switches \/ Bounces \/ Ends PROVE ~Rests /\ ~Shows
  OBVIOUS
<1>1. CASE Starts \/ Ends
  BY <1>1 DEF Starts, Ends, Rests, Shows
<1>2. CASE Switches
  <2>1. CASE \E h \in Heights : queue = <<DidEnd, WillShow(h), DidBegin(focus)>>
    BY <2>1 DEF Rests, Shows, WillShow, DidEnd
  <2>2. CASE \E h \in Heights : queue = <<DidEnd, DidBegin(focus), WillShow(h)>>
    BY <2>2 DEF Rests, Shows, WillShow, DidEnd
  <2>3. CASE queue = <<DidEnd, DidBegin(focus)>>
    BY <2>3 DEF Rests, Shows, WillShow, DidEnd
  <2> QED
    BY <1>2, <2>1, <2>2, <2>3 DEF Switches
<1>3. CASE Bounces
  <2>1. queue # <<>> /\ Head(queue).name = "WillHide"
    BY <1>3 DEF Bounces, WillHide
  <2> QED
    BY <2>1 DEF Rests, Shows, WillShow
<1> QED
  BY <1>1, <1>2, <1>3

------------------------------------------------------------------------------
(* The manager, the first responder and the keyboard stay in step.         *)

LEMMA BecomeKeepsKeyInv ==
    ASSUME KeyInv, NEW f \in Fields, BecomeFirstResponder(f)
    PROVE  KeyInv'
<1> USE DEF KeyInv
<1>1. /\ queue = <<>> /\ queue' \in Becoming(f) /\ focus' = f
      /\ UNCHANGED <<enabled, field, showing, kbHeight, saved, initial, frame, toolbar, bounce,
                     input, keyboard>>
  BY DEF BecomeFirstResponder, manager
<1>2. KeyTypes' /\ Kept' /\ Heights' = Heights /\ f # NoField /\ input \in Inputs
  BY <1>1 DEF KeyTypes, Kept, Heights
<1>3. Rests
  BY <1>1 DEF Phase, Rests, Shows, Starts, Switches, Bounces, Ends
<1>4. CASE focus = f
  <2>1. queue' = <<>>
    BY <1>1, <1>2, <1>4 DEF Becoming
  <2> QED
    BY <1>1, <1>2, <1>3, <1>4, <2>1 DEF Phase, Rests, Shows, Knowledge
<1>5. CASE focus = NoField
  <2>1. queue' = Beginning(f)
    BY <1>1, <1>5 DEF Becoming
  <2>2. Starts'
    BY <1>1, <1>2, <1>3, <1>5, <2>1, Posts DEF Starts, Rests
  <2>3. ~Rests' /\ ~Shows'
    BY <2>2, Apart, PTL
  <2> QED
    BY <1>1, <1>2, <1>3, <2>2, <2>3 DEF Phase, Knowledge, Rests, Shows
<1>6. CASE focus # f /\ focus # NoField
  <2>1. queue' = <<DidEnd>> \o Beginning(f) \/ queue' = <<DidEnd, DidBegin(f)>>
    BY <1>1, <1>6 DEF Becoming, Switching
  <2>2. Switches'
    BY <1>1, <1>2, <1>3, <1>6, <2>1, Posts DEF Switches, Rests
  <2>3. ~Rests' /\ ~Shows'
    BY <2>2, Apart, PTL
  <2> QED
    BY <1>1, <1>2, <1>3, <2>2, <2>3 DEF Phase, Knowledge, Rests, Shows
<1> QED
  BY <1>4, <1>5, <1>6

LEMMA DismissKeepsKeyInv ==
    ASSUME KeyInv, Dismiss
    PROVE  KeyInv'
<1> USE DEF KeyInv
<1>1. /\ queue = <<>> /\ queue' = <<WillHide, DidEnd>> /\ focus # NoField /\ focus' = NoField
      /\ UNCHANGED <<enabled, field, showing, kbHeight, saved, initial, frame, toolbar, bounce,
                     input, keyboard>>
  BY DEF Dismiss, manager, Resigning
<1>2. KeyTypes' /\ Kept' /\ Heights' = Heights
  BY <1>1 DEF KeyTypes, Kept, Heights
<1>3. Rests
  BY <1>1 DEF Phase, Rests, Shows, Starts, Switches, Bounces, Ends
<1>4. Ends' /\ ~Rests' /\ ~Shows'
  BY <1>1, <1>2, <1>3 DEF Ends, Rests, Shows
<1> QED
  BY <1>1, <1>2, <1>3, <1>4 DEF Phase, Knowledge, Rests, Shows

LEMMA ChangeKeepsKeyInv ==
    ASSUME KeyInv, NEW h \in Inputs, ChangeInput(h)
    PROVE  KeyInv'
<1> USE DEF KeyInv
<1>1. /\ queue = <<>> /\ queue' = <<WillShow(keyboard - input + h)>> /\ keyboard # 0 /\ input' = h
      /\ UNCHANGED <<enabled, field, showing, kbHeight, saved, initial, frame, toolbar, bounce,
                     focus, keyboard>>
  BY DEF ChangeInput, manager
<1>2. KeyTypes' /\ Kept'
  BY <1>1 DEF KeyTypes, Kept
<1>3. Rests
  BY <1>1 DEF Phase, Rests, Shows, Starts, Switches, Bounces, Ends
<1>4. ~Shows
  BY <1>1 DEF Shows
<1>5. keyboard - input + h \in Heights'
  <2>1. keyboard \in Heights
    BY <1>1, <1>4 DEF Knowledge
  <2> QED
    BY <1>1, <2>1 DEF Heights, KeyTypes
<1>6. Shows' /\ ~Rests'
  BY <1>1, <1>3, <1>5 DEF Shows, Rests
<1> QED
  BY <1>1, <1>2, <1>3, <1>6 DEF Phase, Knowledge, Rests, Shows

LEMMA CompletionKeepsKeyInv ==
    ASSUME KeyInv, RunCompletion
    PROVE  KeyInv'
<1> USE DEF KeyInv
<1>1. /\ queue = <<>> /\ bounce \in Fields /\ focus' = bounce /\ bounce' = NoField
      /\ UNCHANGED <<enabled, field, showing, kbHeight, saved, initial, frame, toolbar,
                     input, keyboard>>
  BY DEF RunCompletion, KeyTypes
<1>2. KeyTypes' /\ Kept' /\ Heights' = Heights /\ bounce # NoField /\ input \in Inputs
  BY <1>1 DEF KeyTypes, Kept, Heights
<1>3. Rests
  BY <1>1 DEF Phase, Rests, Shows, Starts, Switches, Bounces, Ends
<1>4. CASE focus = bounce
  <2>1. queue' = Resigning \o Beginning(bounce)
    BY <1>4 DEF RunCompletion
  <2>2. Bounces'
    BY <1>1, <1>2, <1>3, <1>4, <2>1, Posts DEF Bounces, Rests
  <2>3. ~Rests' /\ ~Shows'
    BY <2>2, Apart, PTL
  <2> QED
    BY <1>1, <1>2, <1>3, <2>2, <2>3 DEF Phase, Knowledge, Rests, Shows
<1>5. CASE focus = NoField
  <2>1. queue' = Beginning(bounce)
    BY <1>1, <1>2, <1>5 DEF RunCompletion, Becoming
  <2>2. Starts'
    BY <1>1, <1>2, <1>3, <1>5, <2>1, Posts DEF Starts, Rests
  <2>3. ~Rests' /\ ~Shows'
    BY <2>2, Apart, PTL
  <2> QED
    BY <1>1, <1>2, <1>3, <2>2, <2>3 DEF Phase, Knowledge, Rests, Shows
<1>6. CASE focus # bounce /\ focus # NoField
  <2>1. queue' = <<DidEnd>> \o Beginning(bounce) \/ queue' = <<DidEnd, DidBegin(bounce)>>
    BY <1>1, <1>6 DEF RunCompletion, Becoming, Switching
  <2>2. Switches'
    BY <1>1, <1>2, <1>3, <1>6, <2>1, Posts DEF Switches, Rests
  <2>3. ~Rests' /\ ~Shows'
    BY <2>2, Apart, PTL
  <2> QED
    BY <1>1, <1>2, <1>3, <2>2, <2>3 DEF Phase, Knowledge, Rests, Shows
<1> QED
  BY <1>4, <1>5, <1>6

LEMMA LeaveKeepsKeyInv ==
    ASSUME KeyInv, LeavePage
    PROVE  KeyInv'
<1> USE DEF KeyInv
<1>1. /\ toolbar' = FALSE /\ bounce' = NoField
      /\ UNCHANGED <<enabled, field, showing, kbHeight, saved, initial, frame,
                     focus, input, keyboard, queue>>
  BY DEF LeavePage, uikit
<1> QED
  BY <1>1 DEF KeyTypes, Phase, Knowledge, Kept, Heights, Rests, Shows, Starts, Switches, Bounces, Ends

LEMMA EnableKeepsKeyInv ==
    ASSUME KeyInv, SetEnable
    PROVE  KeyInv'
<1> USE DEF KeyInv
<1>1. /\ queue = <<>> /\ ~enabled /\ enabled' = TRUE /\ MayToggle
      /\ UNCHANGED <<field, saved, frame, toolbar, bounce, focus, input, keyboard, queue>>
  BY DEF SetEnable, uikit
<1>2. Rests /\ ~showing /\ kbHeight = 0 /\ saved = keyboard
  BY <1>1 DEF Phase, Rests, Shows, Starts, Switches, Bounces, Ends, Knowledge
<1>3. Rests' /\ Heights' = Heights /\ ~Shows /\ ~Shows'
  BY <1>1, <1>2 DEF Rests, Heights, Shows
<1>4. CASE keyboard = 0
  <2>1. UNCHANGED <<initial, kbHeight, showing>>
    BY <1>2, <1>4 DEF SetEnable
  <2> QED
    BY <1>1, <1>2, <1>3, <1>4, <2>1 DEF KeyTypes, Phase, Knowledge, Kept, Rests
<1>5. CASE keyboard # 0
  <2>1. field \in Fields /\ field = focus /\ focus # NoField
    BY <1>2, <1>5 DEF Rests, KeyTypes
  <2>2. initial' = field /\ kbHeight' = keyboard + Distance /\ keyboard + Distance # 0
    BY <1>2, <1>5, <2>1 DEF SetEnable, FrameOf, Kept, KeyTypes
  <2>3. showing' = TRUE
    BY <1>2, <1>5, <2>1, <2>2 DEF SetEnable
  <2> QED
    BY <1>1, <1>2, <1>3, <1>5, <2>1, <2>2, <2>3
       DEF KeyTypes, Phase, Knowledge, Kept, Rests, Frames
<1> QED
  BY <1>4, <1>5

LEMMA DisableKeepsKeyInv ==
    ASSUME KeyInv, SetDisable
    PROVE  KeyInv'
<1> USE DEF KeyInv
<1>1. /\ queue = <<>> /\ enabled /\ enabled' = FALSE /\ MayToggle /\ Restore
      /\ UNCHANGED <<field, saved, initial, toolbar, bounce, focus, input, keyboard, queue>>
  BY DEF SetDisable, uikit
<1>2. Rests
  BY <1>1 DEF Phase, Rests, Shows, Starts, Switches, Bounces, Ends
<1>3. Rests' /\ Heights' = Heights /\ ~Shows /\ ~Shows'
  BY <1>1, <1>2 DEF Rests, Heights, Shows
<1>4. frame' = frame /\ showing' = FALSE /\ kbHeight' = 0
  <2>1. CASE field = NoField
    <3>1. UNCHANGED <<frame, showing, kbHeight>>
      BY <1>1, <2>1 DEF Restore
    <3>2. focus = NoField /\ keyboard = 0
      BY <1>2, <2>1 DEF Rests
    <3>3. showing = FALSE
      BY <1>2, <3>2 DEF Knowledge, KeyTypes
    <3>4. kbHeight = 0
      BY <3>2 DEF Knowledge
    <3> QED
      BY <3>1, <3>3, <3>4
  <2>2. CASE field # NoField
    <3>1. frame' = [frame EXCEPT ![field] = initial] /\ showing' = FALSE /\ kbHeight' = 0
      BY <1>1, <2>2 DEF Restore
    <3>2. frame = [f \in Fields |-> f] /\ initial = field
      BY <2>2 DEF Kept
    <3> QED
      BY <3>1, <3>2
  <2> QED
    BY <2>1, <2>2
<1> QED
  BY <1>1, <1>2, <1>3, <1>4 DEF KeyTypes, Phase, Knowledge, Kept, Rests

(* What each handler leaves the manager with. *)
LEMMA AfterWillShow ==
    ASSUME KeyInv, NEW h \in Nat, KeyboardWillShow(h)
    PROVE  /\ saved' = h /\ Kept'
           /\ kbHeight' = IF enabled THEN h + Distance ELSE 0
           /\ \/ showing' = showing
              \/ showing' = TRUE /\ enabled /\ field # NoField
           /\ UNCHANGED <<enabled, field, toolbar, bounce>>
<1> USE DEF KeyInv
<1>1. ~enabled => kbHeight = 0
  BY DEF Knowledge
<1>2. FrameOf(field) \in Frames /\ (field # NoField => FrameOf(field) = field)
  BY DEF FrameOf, Kept, KeyTypes, Frames
<1> QED
  BY <1>1, <1>2 DEF KeyboardWillShow, Kept

LEMMA AfterWillHide ==
    ASSUME KeyInv, KeyboardWillHide, field # NoField
    PROVE  saved' = 0 /\ Kept' /\ kbHeight' = 0 /\ showing' = FALSE
           /\ UNCHANGED <<enabled, field, toolbar, bounce>>
  BY DEF KeyInv, KeyboardWillHide, Restore, Knowledge, Kept, KeyTypes

LEMMA AfterDidBegin ==
    ASSUME KeyInv, NEW f \in Fields, DidBeginEditing(f)
    PROVE  /\ field' = f /\ Kept' /\ toolbar' = TRUE
           /\ bounce' \in Fields \cup {NoField}
           /\ showing' = enabled
           /\ UNCHANGED <<enabled, kbHeight, saved>>
<1> USE DEF KeyInv
<1>1. bounce' = f \/ bounce' = bounce
  BY DEF DidBeginEditing
<1>2. showing' = enabled
  BY DEF DidBeginEditing, Knowledge, KeyTypes
<1>3. Kept'
  BY DEF DidBeginEditing, Kept, Frames
<1> QED
  BY <1>1, <1>2, <1>3 DEF DidBeginEditing, KeyTypes

LEMMA AfterDidEnd ==
    ASSUME KeyInv, DidEndEditing
    PROVE  field' = NoField /\ Kept'
           /\ UNCHANGED <<enabled, showing, kbHeight, saved, toolbar, bounce>>
  BY DEF KeyInv, DidEndEditing, Kept, KeyTypes

LEMMA DeliverKeepsKeyInv ==
    ASSUME KeyInv, Deliver
    PROVE  KeyInv'
<1> USE DEF KeyInv
<1>1. focus' = focus /\ input' = input /\ Heights' = Heights /\ queue # <<>>
      /\ queue' = Tail(queue) /\ input \in Inputs
  BY DEF Deliver, Heights, KeyTypes
<1>2. \A h \in Heights : h \in Nat \ {0}
  BY <1>1, HeightsArePositive
<1>3. ~Rests
  BY <1>1 DEF Rests
<1>4. ASSUME NEW h \in Heights, Head(queue) = WillShow(h),
             (field = NoField /\ focus # NoField) \/ (Shows /\ queue' = <<>>)
      PROVE  /\ KeyTypes' /\ Knowledge' /\ Kept'
             /\ keyboard' = h /\ UNCHANGED field
  <2>1. keyboard' = h /\ KeyboardWillShow(h)
    BY <1>4 DEF Deliver, WillShow
  <2>2. KeyTypes' /\ Kept' /\ UNCHANGED field
    BY <1>1, <1>2, <2>1, AfterWillShow DEF KeyTypes
  <2>3. ~Shows'
    <3>1. CASE queue' = <<>>
      BY <3>1 DEF Shows
    <3>2. CASE field = NoField /\ focus # NoField
      BY <1>1, <2>2, <3>2 DEF Shows
    <3> QED
      BY <1>4, <3>1, <3>2
  <2>4. Knowledge'
    <3>1. /\ saved' = h
          /\ kbHeight' = IF enabled THEN h + Distance ELSE 0
          /\ \/ showing' = showing
             \/ showing' = TRUE /\ enabled /\ field # NoField
          /\ UNCHANGED <<enabled, field>>
      BY <1>2, <2>1, AfterWillShow
    <3>2. showing' => enabled'
      BY <3>1 DEF Knowledge
    <3>3. Rests' /\ focus' = NoField => ~showing'
      BY <1>1, <1>2, <2>1 DEF Rests
    <3>4. Rests' /\ enabled' /\ focus' # NoField => showing'
      <4> SUFFICES ASSUME Rests', enabled', focus' # NoField PROVE showing'
        OBVIOUS
      <4>1. Shows
        BY <1>1, <1>4, <3>1 DEF Rests
      <4> QED
        BY <1>1, <3>1, <4>1 DEF Knowledge
    <3> QED
      BY <1>1, <1>2, <2>1, <2>3, <3>1, <3>2, <3>3, <3>4 DEF Knowledge
  <2> QED
    BY <2>1, <2>2, <2>4
<1>5. ASSUME Head(queue) = WillHide, field # NoField, queue' # <<>>, Head(queue') = DidEnd
      PROVE  /\ KeyTypes' /\ Knowledge' /\ Kept'
             /\ keyboard' = 0 /\ ~showing' /\ UNCHANGED field
  <2>0. ~Rests' /\ ~Shows'
    BY <1>5 DEF Rests, Shows, DidEnd, WillShow
  <2>1. keyboard' = 0 /\ KeyboardWillHide
    BY <1>5 DEF Deliver, WillHide
  <2> QED
    BY <1>1, <1>5, <2>0, <2>1, AfterWillHide DEF KeyTypes, Knowledge
<1>6. ASSUME Head(queue) = DidBegin(focus), focus \in Fields, keyboard \in {0} \cup Heights
      PROVE  /\ KeyTypes' /\ Knowledge' /\ Kept'
             /\ field' = focus /\ UNCHANGED keyboard
  <2>1. keyboard' = keyboard /\ DidBeginEditing(focus)
    BY <1>6 DEF Deliver, DidBegin
  <2>2. focus # NoField
    BY <1>6
  <2>3. KeyTypes' /\ Kept' /\ field' = focus
    BY <1>1, <1>6, <2>1, AfterDidBegin DEF KeyTypes
  <2>4. Knowledge'
    BY <1>1, <1>6, <2>1, <2>2, AfterDidBegin DEF Knowledge
  <2> QED
    BY <2>1, <2>3, <2>4
<1>7. ASSUME Head(queue) = DidEnd, ~Shows, focus = NoField => ~showing
      PROVE  /\ KeyTypes' /\ Knowledge' /\ Kept'
             /\ field' = NoField /\ UNCHANGED keyboard
  <2>1. keyboard' = keyboard /\ DidEndEditing
    BY <1>7 DEF Deliver, DidEnd
  <2>2. KeyTypes' /\ Kept' /\ field' = NoField
    BY <1>1, <2>1, AfterDidEnd DEF KeyTypes
  <2>3. Knowledge'
    BY <1>1, <1>7, <2>1, AfterDidEnd DEF KeyTypes, Knowledge, Rests, Shows
  <2> QED
    BY <2>1, <2>2, <2>3
<1>8. CASE Shows
  <2>1. PICK h \in Heights : queue = <<WillShow(h)>>
    BY <1>8 DEF Shows
  <2>2. Head(queue) = WillShow(h) /\ queue' = <<>> /\ ~Shows'
    BY <1>1, <2>1 DEF Shows
  <2>3. KeyTypes' /\ Knowledge' /\ Kept' /\ keyboard' = h /\ field' = field
    BY <1>4, <1>8, <2>2
  <2>4. Rests'
    BY <1>1, <1>2, <1>8, <2>2, <2>3 DEF Rests, Shows
  <2> QED
    BY <2>3, <2>4 DEF Phase
<1>9. CASE Starts
  <2>1. focus \in Fields /\ focus # NoField /\ field = NoField /\ ~Shows
    BY <1>9, Apart DEF Starts, KeyTypes
  <2>2. keyboard \in {0} \cup Heights
    BY <2>1 DEF Knowledge
  <2>3. CASE \E h \in Heights : queue = <<WillShow(h), DidBegin(focus)>>
    <3>1. PICK h \in Heights : queue = <<WillShow(h), DidBegin(focus)>>
      BY <2>3
    <3>2. Head(queue) = WillShow(h) /\ queue' = <<DidBegin(focus)>>
      BY <1>1, <3>1
    <3>3. KeyTypes' /\ Knowledge' /\ Kept' /\ keyboard' = h /\ field' = field
      BY <1>4, <2>1, <3>2
    <3>4. Starts'
      BY <1>1, <1>2, <2>1, <3>2, <3>3 DEF Starts
    <3> QED
      BY <3>3, <3>4 DEF Phase
  <2>4. CASE \E h \in Heights : queue = <<DidBegin(focus), WillShow(h)>>
    <3>1. PICK h \in Heights : queue = <<DidBegin(focus), WillShow(h)>>
      BY <2>4
    <3>2. Head(queue) = DidBegin(focus) /\ queue' = <<WillShow(h)>>
      BY <1>1, <3>1
    <3>3. KeyTypes' /\ Knowledge' /\ Kept' /\ field' = focus
      BY <1>6, <2>1, <2>2, <3>2
    <3>4. Shows'
      BY <1>1, <2>1, <3>2, <3>3 DEF Shows
    <3> QED
      BY <3>3, <3>4 DEF Phase
  <2>5. CASE queue = <<DidBegin(focus)>> /\ keyboard # 0
    <3>1. Head(queue) = DidBegin(focus) /\ queue' = <<>>
      BY <1>1, <2>5
    <3>2. KeyTypes' /\ Knowledge' /\ Kept' /\ field' = focus /\ keyboard' = keyboard
      BY <1>6, <2>1, <2>2, <3>1
    <3>3. Rests'
      BY <1>1, <2>1, <2>5, <3>1, <3>2 DEF Rests
    <3> QED
      BY <3>2, <3>3 DEF Phase
  <2> QED
    BY <1>9, <2>3, <2>4, <2>5 DEF Starts
<1>10. CASE Switches
  <2>1. focus # NoField /\ ~Shows
    BY <1>10, Apart DEF Switches
  <2>2. Head(queue) = DidEnd =>
          KeyTypes' /\ Knowledge' /\ Kept' /\ field' = NoField /\ keyboard' = keyboard
    BY <1>7, <2>1
  <2>3. CASE \E h \in Heights : queue = <<DidEnd, WillShow(h), DidBegin(focus)>>
    <3>1. PICK h \in Heights : queue = <<DidEnd, WillShow(h), DidBegin(focus)>>
      BY <2>3
    <3>2. Head(queue) = DidEnd /\ queue' = <<WillShow(h), DidBegin(focus)>>
      BY <1>1, <3>1
    <3> QED
      BY <1>1, <2>1, <2>2, <3>2 DEF Phase, Starts
  <2>4. CASE \E h \in Heights : queue = <<DidEnd, DidBegin(focus), WillShow(h)>>
    <3>1. PICK h \in Heights : queue = <<DidEnd, DidBegin(focus), WillShow(h)>>
      BY <2>4
    <3>2. Head(queue) = DidEnd /\ queue' = <<DidBegin(focus), WillShow(h)>>
      BY <1>1, <3>1
    <3> QED
      BY <1>1, <2>1, <2>2, <3>2 DEF Phase, Starts
  <2>5. CASE queue = <<DidEnd, DidBegin(focus)>> /\ keyboard # 0
    <3>1. Head(queue) = DidEnd /\ queue' = <<DidBegin(focus)>>
      BY <1>1, <2>5
    <3> QED
      BY <1>1, <2>1, <2>2, <2>5, <3>1 DEF Phase, Starts
  <2> QED
    BY <1>10, <2>3, <2>4, <2>5 DEF Switches
<1>11. CASE Bounces
  <2>1. focus # NoField /\ field # NoField
    BY <1>11 DEF Bounces
  <2>2. CASE \E h \in Heights : queue = <<WillHide, DidEnd, WillShow(h), DidBegin(focus)>>
    <3>1. PICK h \in Heights : queue = <<WillHide, DidEnd, WillShow(h), DidBegin(focus)>>
      BY <2>2
    <3>2. /\ Head(queue) = WillHide /\ queue' = <<DidEnd, WillShow(h), DidBegin(focus)>>
          /\ queue' # <<>> /\ Head(queue') = DidEnd
      BY <1>1, <3>1
    <3>3. KeyTypes' /\ Knowledge' /\ Kept' /\ field' = field
      BY <1>5, <2>1, <3>2
    <3> QED
      BY <1>1, <2>1, <3>2, <3>3 DEF Phase, Switches
  <2>3. CASE \E h \in Heights : queue = <<WillHide, DidEnd, DidBegin(focus), WillShow(h)>>
    <3>1. PICK h \in Heights : queue = <<WillHide, DidEnd, DidBegin(focus), WillShow(h)>>
      BY <2>3
    <3>2. /\ Head(queue) = WillHide /\ queue' = <<DidEnd, DidBegin(focus), WillShow(h)>>
          /\ queue' # <<>> /\ Head(queue') = DidEnd
      BY <1>1, <3>1
    <3>3. KeyTypes' /\ Knowledge' /\ Kept' /\ field' = field
      BY <1>5, <2>1, <3>2
    <3> QED
      BY <1>1, <2>1, <3>2, <3>3 DEF Phase, Switches
  <2> QED
    BY <1>11, <2>2, <2>3 DEF Bounces
<1>12. CASE Ends
  <2>1. focus = NoField /\ field # NoField /\ ~Shows
    BY <1>12, Apart DEF Ends
  <2>2. CASE queue = <<WillHide, DidEnd>>
    <3>1. Head(queue) = WillHide /\ queue' = <<DidEnd>> /\ queue' # <<>> /\ Head(queue') = DidEnd
      BY <1>1, <2>2
    <3>2. KeyTypes' /\ Knowledge' /\ Kept' /\ field' = field /\ keyboard' = 0 /\ ~showing'
      BY <1>5, <2>1, <3>1
    <3>3. Ends'
      BY <1>1, <2>1, <3>1, <3>2 DEF Ends
    <3> QED
      BY <3>2, <3>3 DEF Phase
  <2>3. CASE queue = <<DidEnd>> /\ keyboard = 0 /\ ~showing
    <3>1. Head(queue) = DidEnd /\ queue' = <<>>
      BY <1>1, <2>3
    <3>2. KeyTypes' /\ Knowledge' /\ Kept' /\ field' = NoField /\ keyboard' = keyboard
      BY <1>7, <2>1, <2>3, <3>1
    <3>3. Rests'
      BY <1>1, <2>1, <2>3, <3>1, <3>2 DEF Rests
    <3> QED
      BY <3>2, <3>3 DEF Phase
  <2> QED
    BY <1>12, <2>2, <2>3 DEF Ends
<1> QED
  BY <1>3, <1>8, <1>9, <1>10, <1>11, <1>12 DEF Phase

(* Every step of the manager and of UIKit, wherever the page moves its     *)
(* fields meanwhile.                                                       *)
LEMMA StepKeepsKeyInv ==
    ASSUME KeyInv, KeyboardStep
    PROVE  KeyInv'
<1>1. ASSUME NEW f \in Fields, TapField(f) PROVE KeyInv'
  BY <1>1, BecomeKeepsKeyInv DEF TapField
<1>2. ASSUME NEW step \in {-1, 1}, Neighbour(step) PROVE KeyInv'
  <2>1. PICK i \in 1..Len(Order) :
           i + step \in 1..Len(Order) /\ BecomeFirstResponder(Order[i + step])
    BY <1>2 DEF Neighbour
  <2>2. Order[i + step] \in Fields
    BY <2>1 DEF Fields
  <2> QED
    BY <2>1, <2>2, BecomeKeepsKeyInv
<1>3. ASSUME Dismiss PROVE KeyInv'
  BY <1>3, DismissKeepsKeyInv
<1>4. ASSUME NEW h \in Inputs, ChangeInput(h) PROVE KeyInv'
  BY <1>4, ChangeKeepsKeyInv
<1>5. ASSUME RunCompletion PROVE KeyInv'
  BY <1>5, CompletionKeepsKeyInv
<1>6. ASSUME LeavePage PROVE KeyInv'
  BY <1>6, LeaveKeepsKeyInv
<1>7. ASSUME Deliver PROVE KeyInv'
  BY <1>7, DeliverKeepsKeyInv
<1>8. ASSUME SetEnable PROVE KeyInv'
  BY <1>8, EnableKeepsKeyInv
<1>9. ASSUME SetDisable PROVE KeyInv'
  BY <1>9, DisableKeepsKeyInv
<1> QED
  BY <1>1, <1>2, <1>3, <1>4, <1>5, <1>6, <1>7, <1>8, <1>9
     DEF KeyboardStep, PreviousAction, NextAction

LEMMA StutterKeepsKeyInv ==
    ASSUME KeyInv, UNCHANGED <<manager, uikit>>
    PROVE  KeyInv'
  BY DEF KeyInv, KeyTypes, Phase, Knowledge, Kept, Heights, Rests, Shows, Starts, Switches,
         Bounces, Ends, manager, uikit

LEMMA InitHasKeyInv == Init => KeyInv
<1> SUFFICES ASSUME Init PROVE KeyInv
  OBVIOUS
<1>1. Rests
  BY DEF Init, Rests
<1> QED
  BY <1>1 DEF Init, KeyInv, KeyTypes, Phase, Knowledge, Kept, Frames

(* What the first notification says of the manager that is to hear it.     *)
LEMMA FirstNotification ==
    ASSUME KeyInv, queue # <<>>
    PROVE  \/ /\ \E h \in Heights : Head(queue) = WillShow(h)
              /\ field # NoField => Shows
           \/ Head(queue) = DidBegin(focus) /\ focus \in Fields /\ field = NoField
           \/ Head(queue) \in {WillHide, DidEnd} /\ field # NoField
<1> USE DEF KeyInv
<1>1. CASE Shows
  BY <1>1 DEF Shows
<1>2. CASE Starts
  <2>1. field = NoField /\ focus \in Fields
    BY <1>2 DEF Starts, KeyTypes
  <2>2. CASE \E h \in Heights : queue = <<WillShow(h), DidBegin(focus)>>
    BY <2>1, <2>2
  <2>3. CASE \E h \in Heights : queue = <<DidBegin(focus), WillShow(h)>>
    BY <2>1, <2>3
  <2>4. CASE queue = <<DidBegin(focus)>>
    BY <2>1, <2>4
  <2> QED
    BY <1>2, <2>2, <2>3, <2>4 DEF Starts
<1>3. CASE Switches
  <2>1. CASE \E h \in Heights : queue = <<DidEnd, WillShow(h), DidBegin(focus)>>
    BY <1>3, <2>1 DEF Switches
  <2>2. CASE \E h \in Heights : queue = <<DidEnd, DidBegin(focus), WillShow(h)>>
    BY <1>3, <2>2 DEF Switches
  <2>3. CASE queue = <<DidEnd, DidBegin(focus)>>
    BY <1>3, <2>3 DEF Switches
  <2> QED
    BY <1>3, <2>1, <2>2, <2>3 DEF Switches
<1>4. CASE Bounces
  <2>1. CASE \E h \in Heights : queue = <<WillHide, DidEnd, WillShow(h), DidBegin(focus)>>
    BY <1>4, <2>1 DEF Bounces
  <2>2. CASE \E h \in Heights : queue = <<WillHide, DidEnd, DidBegin(focus), WillShow(h)>>
    BY <1>4, <2>2 DEF Bounces
  <2> QED
    BY <1>4, <2>1, <2>2 DEF Bounces
<1>5. CASE Ends
  <2>1. CASE queue = <<WillHide, DidEnd>>
    BY <1>5, <2>1 DEF Ends
  <2>2. CASE queue = <<DidEnd>>
    BY <1>5, <2>2 DEF Ends
  <2> QED
    BY <1>5, <2>1, <2>2 DEF Ends
<1> QED
  BY <1>1, <1>2, <1>3, <1>4, <1>5 DEF Phase, Rests

(* UIKit's queue, the manager and the frames fit together in every state.  *)
THEOREM KeyInvariant == Spec => []KeyInv
<1>1. KeyInv /\ [Next]_vars => KeyInv'
  BY StepKeepsKeyInv, StutterKeepsKeyInv DEF Next, vars
<1> QED
  BY <1>1, InitHasKeyInv, PTL DEF Spec

(* Saving and restoring the frame of whatever is edited never mixes up the *)
(* frames of two fields.                                                   *)
THEOREM EveryFrameIntact == Spec => []FramesIntact
<1>1. KeyInv => FramesIntact
  BY DEF KeyInv, Kept, FramesIntact
<1> QED
  BY <1>1, KeyInvariant, PTL

(* The manager's field, height and notification are UIKit's whenever no    *)
(* notification is under way, switched off or on.                          *)
THEOREM AlwaysInStep == Spec => []InStepWithUIKit
<1>1. KeyInv => InStepWithUIKit
  <2> SUFFICES ASSUME KeyInv, Settled PROVE InStepWithUIKit
    BY DEF InStepWithUIKit
  <2>1. Rests
    BY DEF KeyInv, Settled, Phase, Rests, Shows, Starts, Switches, Bounces, Ends
  <2> QED
    BY <2>1 DEF KeyInv, Knowledge, Rests, InStepWithUIKit
<1> QED
  BY <1>1, KeyInvariant, PTL

------------------------------------------------------------------------------
(* The root view.                                                          *)

(* The frame the manager saves is the one the root view had at first, or   *)
(* none at all; with no field to show, the root view is back at it.  As    *)
(* long as nobody switches the manager off it has saved one by the time it *)
(* needs it.                                                               *)
RootInv ==
    /\ begin \in {CGRectZero, Home}
    /\ root \in [y : Int, h : {0, WindowHeight}]
    /\ root.y <= 0
    /\ begin # CGRectZero => root.h = WindowHeight
    /\ ~showing => root \in {CGRectZero, Home} /\ (begin # CGRectZero => root = Home)
    /\ ~MayToggle => /\ showing \/ field # NoField => begin = Home
                     /\ ~showing => root = Home

(* On a page that leaves its fields alone, the lift is the one the field   *)
(* and the keyboard ask for.                                               *)
Lifted == enabled /\ showing /\ field # NoField => root.y = - Lift(field, kbHeight)

(* Repeated relative moves of adjustFrame: the result has the height of    *)
(* the frame before, is never below the frame that was saved, and does not *)
(* depend on where the root view was.                                      *)
LEMMA LiftOfMove ==
    ASSUME NEW f \in Fields, NEW h \in Nat
    PROVE  Lift(f, h) = Max2(0, Move(f, 0, h))
<1>1. Top[f] \in Int /\ Bottom[f] \in Int
  BY DEF Frames
<1>2. /\ Bottom[f] + 0 - (WindowHeight - h) = Bottom[f] - (WindowHeight - h)
      /\ Top[f] + 0 - (5 + StatusBar) = Top[f] - (5 + StatusBar)
  BY <1>1
<1> QED
  BY <1>2 DEF Lift, Move

LEMMA AdjustedFrame ==
    ASSUME RootInv, frame = [f \in Fields |-> f],
           NEW f \in Fields, NEW d \in Int, NEW h \in Nat, NEW b \in {CGRectZero, Home}
    PROVE  LET a == Adjusted(f, d, h, b) IN
           /\ a \in [y : Int, h : {0, WindowHeight}]
           /\ a.y <= 0
           /\ a.h = root.h
           /\ a.y = - Max2(0, Move(f, d, h))
           /\ d = 0 => a.y = - Lift(f, h)
<1> DEFINE a == Adjusted(f, d, h, b)
           m == Move(f, d + root.y, h)
<1>1. root.y \in Int /\ root.y <= 0 /\ b.y = 0 /\ frame[f] = f
  BY DEF RootInv, CGRectZero, Home
<1>2. Top[f] \in Int /\ Bottom[f] \in Int
  BY DEF Frames
<1>3. m \in Int
  <2>1. WindowHeight - h \in Int /\ 5 + StatusBar \in Int /\ d + root.y \in Int
    BY <1>1
  <2>2. \A x \in Int, y \in Int, z \in Int : x + y - z \in Int
    OBVIOUS
  <2>3. /\ Bottom[f] + (d + root.y) - (WindowHeight - h) \in Int
        /\ Top[f] + (d + root.y) - (5 + StatusBar) \in Int
    BY <1>2, <2>1, <2>2
  <2> QED
    BY <1>1, <2>3 DEF Move, Min2
<1>4. a = [root EXCEPT !.y = IF m >= 0 THEN root.y - m
                             ELSE IF root.y < 0 THEN root.y - Max2(m, root.y)
                             ELSE root.y]
  BY <1>1 DEF Adjusted
<1>5. a.y = IF m >= 0 THEN root.y - m
            ELSE IF root.y < 0 THEN root.y - Max2(m, root.y)
            ELSE root.y
  BY <1>4 DEF RootInv
<1>6. a.y \in Int /\ a.y <= 0
  BY <1>1, <1>3, <1>5 DEF Max2
<1>7. a \in [y : Int, h : {0, WindowHeight}] /\ a.h = root.h
  BY <1>4, <1>5, <1>6 DEF RootInv
<1>8. a.y = - Max2(0, Move(f, d, h))
  <2> DEFINE n == Move(f, d, h)
  <2>1. m = root.y + n /\ n \in Int
    <3>1. /\ Bottom[f] + d - (WindowHeight - h) \in Int
          /\ Top[f] + d - (5 + StatusBar) \in Int
      BY <1>2
    <3>2. \A x \in Int, z \in Int : x + (d + root.y) - z = root.y + (x + d - z)
      BY <1>1
    <3>3. /\ Bottom[f] + (d + root.y) - (WindowHeight - h)
                = root.y + (Bottom[f] + d - (WindowHeight - h))
          /\ Top[f] + (d + root.y) - (5 + StatusBar) = root.y + (Top[f] + d - (5 + StatusBar))
      <4>1. WindowHeight - h \in Int /\ 5 + StatusBar \in Int
        OBVIOUS
      <4> QED
        BY <1>2, <3>2, <4>1
    <3> QED
      BY <1>1, <3>1, <3>3 DEF Move, Min2
  <2> HIDE DEF a, m, n
  <2>2. a.y = - Max2(0, n)
    BY <1>1, <1>3, <1>5, <2>1 DEF Max2
  <2> QED
    BY <2>2 DEF n
<1>9. d = 0 => a.y = - Lift(f, h)
  BY <1>8, LiftOfMove
<1> QED
  BY <1>6, <1>7, <1>8, <1>9

LEMMA RestoreKeepsRootInv ==
    ASSUME KeyInv, RootInv, Restore, field' = field, begin' = begin
    PROVE  RootInv' /\ ~ (enabled /\ showing' /\ field # NoField)
<1> USE DEF RootInv
<1>1. CASE ~enabled \/ field = NoField
  <2>1. UNCHANGED <<showing, root>>
    BY <1>1 DEF Restore
  <2> QED
    BY <1>1, <2>1
<1>2. CASE enabled /\ field # NoField
  <2>1. showing' = FALSE /\ root' = begin
    BY <1>2 DEF Restore
  <2> QED
    BY <1>2, <2>1 DEF CGRectZero, Home
<1> QED
  BY <1>1, <1>2

(* What a step of the manager does to the root view, on a page that moves  *)
(* its fields by shift.                                                    *)
LiftKept == shift = 0 /\ shift' = 0 /\ Lifted => Lifted'

LEMMA ReplayKeepsRootInv ==
    ASSUME KeyInv, RootInv, shift \in Int, NEW h \in Nat,
           field # NoField, field' = field, begin' = begin,
           kbHeight' = h, showing' = TRUE, root' = Adjusted(field, shift, h, begin),
           showing \/ MayToggle
    PROVE  RootInv' /\ LiftKept
<1>1. field \in Fields /\ frame = [f \in Fields |-> f]
  BY DEF KeyInv, KeyTypes, Kept
<1>2. begin \in {CGRectZero, Home}
  BY DEF RootInv
<1>3. /\ root' \in [y : Int, h : {0, WindowHeight}]
      /\ root'.y <= 0
      /\ root'.h = root.h
      /\ shift = 0 => root'.y = - Lift(field, h)
  BY <1>1, <1>2, AdjustedFrame
<1> QED
  BY <1>2, <1>3 DEF RootInv, LiftKept, Lifted, Lift

LEMMA WillShowKeepsRootInv ==
    ASSUME KeyInv, RootInv, shift \in Int, NEW h \in Nat, KeyboardWillShow(h),
           enabled /\ field # NoField => showing
    PROVE  RootInv' /\ LiftKept
<1>1. UNCHANGED <<enabled, field, begin>>
  BY DEF KeyboardWillShow
<1>2. CASE enabled /\ field # NoField /\ h + Distance # kbHeight
  <2>1. /\ kbHeight' = h + Distance /\ showing' = TRUE
        /\ root' = Adjusted(field, shift, kbHeight', begin)
    BY <1>2 DEF KeyboardWillShow
  <2> QED
    BY <1>1, <1>2, <2>1, ReplayKeepsRootInv
<1>3. CASE ~ (enabled /\ field # NoField /\ h + Distance # kbHeight)
  <2>1. UNCHANGED <<showing, root>> /\ (enabled /\ field # NoField => kbHeight' = kbHeight)
    BY <1>3 DEF KeyboardWillShow
  <2> QED
    BY <1>1, <1>3, <2>1 DEF RootInv, LiftKept, Lifted, Lift
<1> QED
  BY <1>2, <1>3

LEMMA DidBeginKeepsRootInv ==
    ASSUME KeyInv, RootInv, shift' \in Int, NEW f \in Fields, DidBeginEditing(f)
    PROVE  RootInv' /\ LiftKept
<1>1. UNCHANGED <<enabled, kbHeight, frame>> /\ field' = f /\ frame = [g \in Fields |-> g]
  BY DEF DidBeginEditing, KeyInv, Kept
<1>2. CASE ~enabled
  <2>1. UNCHANGED <<begin, showing, root>> /\ MayToggle
    BY <1>2 DEF DidBeginEditing, KeyInv, KeyTypes
  <2> QED
    BY <1>1, <1>2, <2>1 DEF RootInv, LiftKept, Lifted
<1>3. CASE enabled
  <2>1. /\ begin' = IF showing THEN begin ELSE root
        /\ showing' = TRUE
        /\ root' = Adjusted(f, shift', kbHeight, begin')
    BY <1>3 DEF DidBeginEditing
  <2>2. begin' \in {CGRectZero, Home}
    BY <2>1 DEF RootInv
  <2>3. kbHeight \in Nat
    BY DEF KeyInv, KeyTypes, Knowledge
  <2>4. /\ root' \in [y : Int, h : {0, WindowHeight}]
        /\ root'.y <= 0
        /\ root'.h = root.h
        /\ shift' = 0 => root'.y = - Lift(f, kbHeight)
    BY <1>1, <2>1, <2>2, <2>3, AdjustedFrame
  <2>5. begin' # CGRectZero => root.h = WindowHeight
    BY <2>1 DEF RootInv, Home
  <2>6. ~MayToggle => begin' = Home
    BY <2>1 DEF RootInv
  <2> QED
    BY <1>1, <2>1, <2>2, <2>4, <2>5, <2>6 DEF RootInv, LiftKept, Lifted, Lift
<1> QED
  BY <1>2, <1>3

LEMMA DeliverKeepsRootInv ==
    ASSUME KeyInv, RootInv, shift \in Int, shift' \in Int, Deliver
    PROVE  RootInv' /\ LiftKept
<1>0. queue # <<>>
  BY DEF Deliver
<1>1. CASE Head(queue).name = "WillShow" /\ KeyboardWillShow(Head(queue).height)
  <2>1. (\E h \in Heights : Head(queue) = WillShow(h)) /\ (field # NoField => Shows)
    BY <1>0, <1>1, FirstNotification DEF DidBegin, WillHide, DidEnd
  <2>2. Head(queue).height \in Nat
    BY <2>1, HeightsArePositive DEF WillShow, KeyInv, KeyTypes
  <2>3. enabled /\ field # NoField => showing
    BY <2>1 DEF KeyInv, Knowledge, Shows
  <2> QED
    BY <1>1, <2>2, <2>3, WillShowKeepsRootInv
<1>2. CASE KeyboardWillHide
  <2>1. Restore /\ UNCHANGED <<enabled, field, begin>>
    BY <1>2 DEF KeyboardWillHide
  <2> QED
    BY <2>1, RestoreKeepsRootInv DEF LiftKept, Lifted
<1>3. CASE Head(queue).name = "DidBegin" /\ DidBeginEditing(Head(queue).of)
  <2>1. Head(queue) = DidBegin(focus) /\ focus \in Fields
    BY <1>0, <1>3, FirstNotification DEF WillShow, WillHide, DidEnd
  <2>2. Head(queue).of \in Fields
    BY <2>1 DEF DidBegin
  <2> QED
    BY <1>3, <2>2, DidBeginKeepsRootInv
<1>4. CASE DidEndEditing
  BY <1>4 DEF DidEndEditing, RootInv, LiftKept, Lifted
<1> QED
  BY <1>1, <1>2, <1>3, <1>4 DEF Deliver

LEMMA StepKeepsRootInv ==
    ASSUME KeyInv, RootInv, shift \in Int, shift' \in Int, KeyboardStep
    PROVE  RootInv' /\ LiftKept
<1>1. CASE Deliver
  BY <1>1, DeliverKeepsRootInv
<1>2. CASE SetEnable
  <2>1. /\ MayToggle /\ ~enabled /\ enabled' = TRUE /\ UNCHANGED <<field, begin>>
    BY <1>2 DEF SetEnable
  <2>2. CASE saved # 0 /\ field # NoField
    <3>1. saved + Distance \in Nat /\ kbHeight # saved + Distance /\ ~showing
      BY <2>1, <2>2 DEF KeyInv, Knowledge, KeyTypes
    <3>2. /\ kbHeight' = saved + Distance /\ showing' = TRUE
          /\ root' = Adjusted(field, shift, kbHeight', begin)
      BY <1>2, <2>2, <3>1 DEF SetEnable
    <3> QED
      BY <2>1, <2>2, <3>1, <3>2, ReplayKeepsRootInv
  <2>3. CASE saved = 0 \/ field = NoField
    <3>1. UNCHANGED <<showing, root>>
      BY <2>3, <1>2 DEF SetEnable
    <3> QED
      BY <2>1, <3>1 DEF RootInv, LiftKept, Lifted, KeyInv, Knowledge
  <2> QED
    BY <2>2, <2>3
<1>3. CASE SetDisable
  <2>1. enabled' = FALSE /\ Restore /\ UNCHANGED <<field, begin>>
    BY <1>3 DEF SetDisable
  <2> QED
    BY <2>1, RestoreKeepsRootInv DEF LiftKept, Lifted
<1>4. CASE UNCHANGED <<enabled, field, showing, kbHeight, begin, root>>
  BY <1>4 DEF RootInv, LiftKept, Lifted, Lift
<1> QED
  BY <1>1, <1>2, <1>3, <1>4
     DEF KeyboardStep, PreviousAction, NextAction, Neighbour, TapField, BecomeFirstResponder,
         Dismiss, ChangeInput, RunCompletion, LeavePage, manager

(* What Spec keeps: the page does not move its fields.                     *)
PageInv == KeyInv /\ RootInv /\ shift = 0 /\ Lifted

(* Where the root view is, whatever is edited, switched or dismissed.      *)
THEOREM PageInvariant == Spec => []PageInv
<1>1. Init => PageInv
  <2> SUFFICES ASSUME Init PROVE PageInv
    OBVIOUS
  <2>1. RootInv
    BY DEF Init, RootInv, Home, CGRectZero
  <2>2. shift = 0 /\ Lifted
    BY DEF Init, Lifted
  <2> QED
    BY <2>1, <2>2, InitHasKeyInv DEF PageInv
<1>2. PageInv /\ [Next]_vars => PageInv'
  <2> SUFFICES ASSUME PageInv, [Next]_vars PROVE PageInv'
    OBVIOUS
  <2>1. CASE Next
    <3>1. shift = 0 /\ shift' = 0 /\ KeyboardStep
      BY <2>1 DEF Next, PageInv
    <3>2. KeyInv'
      BY <3>1, StepKeepsKeyInv DEF PageInv
    <3>3. RootInv' /\ LiftKept
      BY <3>1, StepKeepsRootInv DEF PageInv
    <3> QED
      BY <3>1, <3>2, <3>3 DEF PageInv, LiftKept
  <2>2. CASE UNCHANGED vars
    <3>1. KeyInv'
      BY <2>2, StutterKeepsKeyInv DEF PageInv, vars
    <3> QED
      BY <2>2, <3>1 DEF PageInv, RootInv, Lifted, Lift, vars, manager
  <2> QED
    BY <2>1, <2>2
<1> QED
  BY <1>1, <1>2, PTL DEF Spec

LEMMA SettledRests ==
    ASSUME KeyInv, Settled
    PROVE  Rests
  BY DEF KeyInv, Settled, Phase, Rests, Shows, Starts, Switches, Bounces, Ends

LEMMA TuplesOf ==
    ASSUME NEW S, NEW a \in S, NEW b \in S
    PROVE  /\ <<>> \in Seq(S) /\ <<a>> \in Seq(S) /\ <<b>> \in Seq(S)
           /\ <<a, b>> \in Seq(S) /\ <<b, a>> \in Seq(S)
           /\ \A c \in S : <<a, b, c>> \in Seq(S)
           /\ \A c, d \in S : <<a, b, c, d>> \in Seq(S)
  OBVIOUS

(* Every variable keeps its type. *)
THEOREM TypesHold == Spec => []TypeOK
<1>1. PageInv => TypeOK
  <2> SUFFICES ASSUME PageInv PROVE TypeOK
    OBVIOUS
  <2>1. queue \in Seq(Notification)
    <3>1. \A h \in Heights : WillShow(h) \in Notification
      BY HeightsArePositive DEF PageInv, KeyInv, KeyTypes, WillShow, Notification
    <3>2. WillHide \in Notification /\ DidEnd \in Notification
      BY DEF WillHide, DidEnd, Notification
    <3>3. focus # NoField => DidBegin(focus) \in Notification
      BY DEF PageInv, KeyInv, KeyTypes, DidBegin, Notification
    <3>4. CASE Rests
      BY <3>4 DEF Rests
    <3>5. CASE focus = NoField /\ ~Rests
      <4>1. <<WillHide, DidEnd>> \in Seq(Notification) /\ <<DidEnd>> \in Seq(Notification)
        BY <3>2, TuplesOf, Zenon
      <4>2. Ends
        BY <3>5 DEF PageInv, KeyInv, Phase, Shows, Starts, Switches, Bounces
      <4> QED
        BY <4>1, <4>2 DEF Ends
    <3>6. CASE focus # NoField /\ ~Rests
      <4>1. DidBegin(focus) \in Notification
        BY <3>3, <3>6
      <4>2. CASE Shows
        BY <3>1, <4>2, TuplesOf DEF Shows
      <4>3. CASE Starts
        <5>1. \A h \in Heights : /\ <<WillShow(h), DidBegin(focus)>> \in Seq(Notification)
                                 /\ <<DidBegin(focus), WillShow(h)>> \in Seq(Notification)
          BY <3>1, <4>1, TuplesOf, Zenon
        <5>2. <<DidBegin(focus)>> \in Seq(Notification)
          BY <4>1, TuplesOf, Zenon
        <5> QED
          BY <4>3, <5>1, <5>2 DEF Starts
      <4>4. \A h \in Heights : /\ <<DidEnd, WillShow(h), DidBegin(focus)>> \in Seq(Notification)
                               /\ <<DidEnd, DidBegin(focus), WillShow(h)>> \in Seq(Notification)
        BY <3>1, <3>2, <4>1, TuplesOf, Zenon
      <4>5. CASE Switches
        <5>1. <<DidEnd, DidBegin(focus)>> \in Seq(Notification)
          BY <3>2, <4>1, TuplesOf, Zenon
        <5> QED
          BY <4>4, <4>5, <5>1 DEF Switches
      <4>6. \A h \in Heights :
               /\ <<WillHide, DidEnd, WillShow(h), DidBegin(focus)>> \in Seq(Notification)
               /\ <<WillHide, DidEnd, DidBegin(focus), WillShow(h)>> \in Seq(Notification)
        BY <3>1, <3>2, <4>1, TuplesOf, Zenon
      <4>7. CASE Bounces
        BY <4>6, <4>7 DEF Bounces
      <4> QED
        BY <3>6, <4>2, <4>3, <4>5, <4>7 DEF PageInv, KeyInv, Phase, Ends
    <3> QED
      BY <3>4, <3>5, <3>6
  <2>2. kbHeight \in Nat /\ saved \in Nat /\ keyboard \in Nat
    BY DEF PageInv, KeyInv, KeyTypes, Knowledge
  <2>3. begin \in [y : Int, h : {0, WindowHeight}]
    BY DEF PageInv, RootInv, CGRectZero, Home
  <2>4. root \in [y : Int, h : {0, WindowHeight}] /\ shift \in Int
    BY DEF PageInv, RootInv
  <2>5. initial \in Frames /\ frame \in [Fields -> Frames]
    BY DEF PageInv, KeyInv, Kept, Frames
  <2> QED
    BY <2>1, <2>2, <2>3, <2>4, <2>5 DEF TypeOK, PageInv, KeyInv, KeyTypes
<1> QED
  BY <1>1, PageInvariant, PTL

(* No order of fields, keyboards and switching leaves the page lifted once *)
(* the manager has saved a frame to put it back to.                        *)
THEOREM AlwaysRestored == Spec => []RestoredOnceSaved
<1>1. PageInv => RestoredOnceSaved
  <2> SUFFICES ASSUME PageInv, Settled, keyboard = 0, begin # CGRectZero PROVE root = Home
    BY DEF RestoredOnceSaved
  <2>1. ~showing
    BY SettledRests DEF PageInv, KeyInv, Knowledge, Rests
  <2> QED
    BY <2>1 DEF PageInv, RootInv
<1> QED
  BY <1>1, PageInvariant, PTL

(* The source's promise to put the root view back holds as the application *)
(* uses the manager: nobody switches it off.  (It fails otherwise.)        *)
THEOREM RestoredUnlessToggled ==
    ASSUME ~MayToggle
    PROVE  Spec => []RestoredWhenHidden
<1>1. PageInv => RestoredWhenHidden
  <2> SUFFICES ASSUME PageInv, Settled, keyboard = 0 PROVE root = Home
    BY DEF RestoredWhenHidden
  <2>1. ~showing
    BY SettledRests DEF PageInv, KeyInv, Knowledge, Rests
  <2> QED
    BY <2>1 DEF PageInv, RootInv
<1> QED
  BY <1>1, PageInvariant, PTL

(* The lift depends on the edited field and on the keyboard only.          *)
THEOREM NoResidueEver == Spec => []NoResidue
<1>1. PageInv => NoResidue
  <2> SUFFICES ASSUME PageInv, Settled, enabled, focus # NoField
               PROVE  root.y = - Lift(focus, keyboard + Distance)
    BY DEF NoResidue
  <2>1. field = focus /\ showing /\ kbHeight = keyboard + Distance
    BY SettledRests DEF PageInv, KeyInv, Knowledge, Rests
  <2> QED
    BY <2>1 DEF PageInv, Lifted
<1> QED
  BY <1>1, PageInvariant, PTL

(* The edited field is visible, on a page with no field under the status   *)
(* bar to begin with.                                                      *)
THEOREM FieldStaysVisible ==
    ASSUME \A f \in Fields : Top[f] >= StatusBar + 5
    PROVE  Spec => []FieldVisible
<1>1. PageInv => FieldVisible
  <2> SUFFICES ASSUME PageInv, Settled, enabled, focus # NoField
               PROVE  \/ Bottom[focus] + shift + root.y <= WindowHeight - keyboard - Distance
                      \/ Top[focus] + shift + root.y = StatusBar + 5
    BY DEF FieldVisible
  <2>1. field = focus /\ showing /\ kbHeight = keyboard + Distance
    BY SettledRests DEF PageInv, KeyInv, Knowledge, Rests
  <2>2. root.y = - Lift(focus, keyboard + Distance) /\ shift = 0
    BY <2>1 DEF PageInv, Lifted
  <2>3. /\ focus \in Fields /\ Top[focus] \in Int /\ Bottom[focus] \in Int /\ keyboard \in Nat
        /\ Top[focus] >= StatusBar + 5
    BY DEF PageInv, KeyInv, KeyTypes, Frames
  <2> QED
    BY <2>2, <2>3 DEF Lift, Max2, Min2
<1> QED
  BY <1>1, PageInvariant, PTL

------------------------------------------------------------------------------
(* The bar of the chat page.                                               *)

(* Additions that SMT does not try inside a product.                       *)
LEMMA OneMore ==
    ASSUME NEW b \in Nat, NEW m \in Int
    PROVE  b * (m + 1) = b * m + b /\ b * (m - 1) = b * m - b /\ b * m \in Int
  OBVIOUS

(* The bar is up exactly while the manager has a field, and where the      *)
(* keyboard and the swipes have put it.                                    *)
BarInv ==
    /\ KeyInv
    /\ keyBoardIsOpen \in BOOLEAN /\ isEng \in BOOLEAN
    /\ keyBoardIsOpen <=> field # NoField
    /\ ups \in Nat /\ downs \in Nat
    /\ BarNeverCreeps

LEMMA BarInvariant == BarSpec => []BarInv
<1> USE BarAssumption
<1>1. BarInit => BarInv
  <2> SUFFICES ASSUME BarInit PROVE BarInv
    OBVIOUS
  <2>1. KeyInv /\ shift = 0 /\ field = NoField
    BY InitHasKeyInv DEF BarInit, Init
  <2>2. downs + ups = 0 /\ downs - ups = 0 /\ BarHeight * 0 = 0
    BY DEF BarInit
  <2> QED
    BY <2>1, <2>2 DEF BarInit, BarInv, BarNeverCreeps, KeyboardPart
<1>2. BarInv /\ [BarNext]_barVars => BarInv'
  <2> SUFFICES ASSUME BarInv, [BarNext]_barVars PROVE BarInv'
    OBVIOUS
  <2> USE DEF BarInv
  <2> DEFINE P == BarHeight * (downs + ups)
             Q == BarHeight * (downs - ups)
  <2>a. P \in Int /\ Q \in Int
    <3>1. downs + ups \in Int /\ downs - ups \in Int
      OBVIOUS
    <3> QED
      BY <3>1, OneMore
  <2>b. KeyboardPart \in Int
    BY DEF KeyboardPart, EnglishHeight, ChineseHeight
  <2>c. shift = KeyboardPart + P /\ scroll = KeyboardPart + Q
    BY DEF BarNeverCreeps
  <2>d. ASSUME UNCHANGED <<ups, downs>>, shift' = KeyboardPart' + P, scroll' = KeyboardPart' + Q
        PROVE  BarNeverCreeps'
    BY <2>d DEF BarNeverCreeps
  <2>1. CASE SwipeDown
    <3>1. KeyInv'
      BY <2>1, StutterKeepsKeyInv DEF SwipeDown
    <3>2. BarHeight * (downs' + ups) = BarHeight * (downs + ups) + BarHeight
          /\ BarHeight * (downs' - ups) = BarHeight * (downs - ups) + BarHeight
      BY <2>1, OneMore DEF SwipeDown
    <3> QED
      BY <2>1, <3>1, <3>2, OneMore DEF SwipeDown, Slide, BarNeverCreeps, KeyboardPart, manager
  <2>2. CASE SwipeUp
    <3>1. KeyInv'
      BY <2>2, StutterKeepsKeyInv DEF SwipeUp
    <3>2. BarHeight * (downs + ups') = BarHeight * (downs + ups) + BarHeight
          /\ BarHeight * (downs - ups') = BarHeight * (downs - ups) - BarHeight
      BY <2>2, OneMore DEF SwipeUp
    <3> QED
      BY <2>2, <3>1, <3>2, OneMore DEF SwipeUp, BarNeverCreeps, KeyboardPart, manager
  <2> HIDE DEF P, Q
  <2>3. CASE KeyboardWasChanged
    <3>1. KeyInv'
      BY <2>3, StutterKeepsKeyInv DEF KeyboardWasChanged
    <3>2. UNCHANGED <<ups, downs, field>>
      BY <2>3 DEF KeyboardWasChanged, history, manager
    <3>4. CASE keyBoardIsOpen /\ ~isEng /\ ToEnglish
      <4>1. keyBoardIsOpen' = keyBoardIsOpen /\ isEng' = TRUE
            /\ shift' = shift + (252 - 216) /\ scroll' = scroll + (252 - 216)
        BY <3>4 DEF ToEnglish, Slide, EnglishHeight, ChineseHeight
      <4>2. KeyboardPart = -252 /\ KeyboardPart' = -216
        BY <3>4, <4>1 DEF KeyboardPart, EnglishHeight, ChineseHeight
      <4>3. shift' = KeyboardPart' + P /\ scroll' = KeyboardPart' + Q
        BY <2>a, <2>b, <2>c, <4>1, <4>2
      <4>4. BarNeverCreeps'
        BY <2>d, <3>2, <4>3
      <4> QED
        BY <3>1, <3>2, <4>1, <4>4
    <3>5. CASE keyBoardIsOpen /\ isEng /\ ToChinese
      <4>1. keyBoardIsOpen' = keyBoardIsOpen /\ isEng' = FALSE
            /\ shift' = shift + (216 - 252) /\ scroll' = scroll + (216 - 252)
        BY <3>5 DEF ToChinese, Slide, EnglishHeight, ChineseHeight
      <4>2. KeyboardPart = -216 /\ KeyboardPart' = -252
        BY <3>5, <4>1 DEF KeyboardPart, EnglishHeight, ChineseHeight
      <4>3. shift' = KeyboardPart' + P /\ scroll' = KeyboardPart' + Q
        BY <2>a, <2>b, <2>c, <4>1, <4>2
      <4>4. BarNeverCreeps'
        BY <2>d, <3>2, <4>3
      <4> QED
        BY <3>1, <3>2, <4>1, <4>4
    <3>6. CASE UNCHANGED bar
      BY <3>1, <3>2, <3>6 DEF bar, BarNeverCreeps, KeyboardPart
    <3> QED
      BY <2>3, <3>4, <3>5, <3>6 DEF KeyboardWasChanged
  <2>4. CASE BarDeliver
    <3>1. queue # <<>> /\ Deliver /\ UNCHANGED history
      BY <2>4 DEF BarDeliver
    <3>2. KeyInv'
      BY <3>1, StepKeepsKeyInv DEF KeyboardStep
    <3>3. UNCHANGED <<ups, downs>>
      BY <3>1 DEF history
    <3>4. CASE Head(queue).name \in {"WillShow", "WillHide"}
      <4>1. UNCHANGED bar
        BY <2>4, <3>4 DEF BarDeliver
      <4>2. UNCHANGED field
        BY <3>1, <3>4 DEF Deliver, KeyboardWillShow, KeyboardWillHide
      <4> QED
        BY <3>2, <3>3, <4>1, <4>2 DEF bar, BarNeverCreeps, KeyboardPart
    <3>5. CASE Head(queue) = DidBegin(focus) /\ focus \in Fields /\ field = NoField
      <4>1. OpenBar /\ DidBeginEditing(focus)
        BY <2>4, <3>1, <3>5 DEF BarDeliver, Deliver, DidBegin
      <4>2. field' # NoField
        BY <3>5, <4>1 DEF DidBeginEditing
      <4> QED
        BY <2>a, <2>b, <2>c, <2>d, <3>2, <3>3, <3>5, <4>1, <4>2 DEF OpenBar, Slide, KeyboardPart, EnglishHeight
    <3>6. CASE Head(queue) = DidEnd /\ field # NoField
      <4>1. CloseBar /\ field' = NoField
        BY <2>4, <3>1, <3>6 DEF BarDeliver, Deliver, DidEnd, DidEndEditing
      <4>2. keyBoardIsOpen' = FALSE /\ isEng' = TRUE /\ KeyboardPart' = 0
        BY <4>1 DEF CloseBar, KeyboardPart
      <4>3. shift' = shift - KeyboardPart /\ scroll' = scroll - KeyboardPart
        <5>1. shift \in Int /\ scroll \in Int
          BY <2>a, <2>b, <2>c
        <5> QED
          BY <3>6, <4>1, <5>1 DEF CloseBar, Slide, KeyboardPart, EnglishHeight, ChineseHeight
      <4>4. shift' = KeyboardPart' + P /\ scroll' = KeyboardPart' + Q
        BY <2>a, <2>b, <2>c, <4>2, <4>3
      <4>5. BarNeverCreeps'
        BY <2>d, <3>3, <4>4
      <4> QED
        BY <3>2, <3>3, <4>1, <4>2, <4>5
    <3> QED
      BY <3>1, <3>4, <3>5, <3>6, FirstNotification DEF WillShow, WillHide
  <2>5. CASE Elsewhere
    <3>1. UNCHANGED <<bar, ups, downs>>
      BY <2>5 DEF Elsewhere
    <3>2. CASE TapBox
      <4>1. Box \in Fields
        BY DEF Box, Fields
      <4>2. KeyInv' /\ UNCHANGED field
        BY <3>2, <4>1, StepKeepsKeyInv
           DEF KeyboardStep, TapBox, TapField, BecomeFirstResponder, manager
      <4> QED
        BY <3>1, <4>2 DEF bar, BarNeverCreeps, KeyboardPart
    <3>3. CASE Dismiss \/ (\E h \in Inputs : ChangeInput(h)) \/ RunCompletion \/ LeavePage
      <4>1. KeyInv'
        BY <3>3, StepKeepsKeyInv DEF KeyboardStep
      <4>2. UNCHANGED field
        BY <3>3 DEF Dismiss, ChangeInput, RunCompletion, LeavePage, manager
      <4> QED
        BY <3>1, <4>1, <4>2 DEF bar, BarNeverCreeps, KeyboardPart
    <3> QED
      BY <2>5, <3>2, <3>3 DEF Elsewhere
  <2>6. CASE UNCHANGED barVars
    <3>1. KeyInv' /\ UNCHANGED <<bar, history, field>>
      BY <2>6, StutterKeepsKeyInv DEF barVars, manager
    <3> QED
      BY <3>1 DEF bar, history, BarNeverCreeps, KeyboardPart
  <2> QED
    BY <2>1, <2>2, <2>3, <2>4, <2>5, <2>6 DEF BarNext
<1> QED
  BY <1>1, <1>2, PTL DEF BarSpec

(* Whatever the user types, switches, swipes and dismisses, the bar never  *)
(* creeps.                                                                 *)
THEOREM BarStaysPut == BarSpec => []BarNeverCreeps
  BY BarInvariant, PTL DEF BarInv

(* The root view is where adjustFrame put it for a bar that stood at one   *)
(* of the two heights the page knows.                                      *)
BarLift ==
    showing /\ field # NoField =>
        \E height \in {EnglishHeight, ChineseHeight} :
            root.y = - Max2(0, Move(field, BarHeight * (downs + ups) - height, kbHeight))

(* Where the page has put an open bar. *)
BarStands ==
    /\ shift \in Int
    /\ \E height \in {EnglishHeight, ChineseHeight} : shift = BarHeight * (downs + ups) - height

OpenBarStands == BarInv /\ field # NoField => BarStands

LEMMA OpenBarIsThere == OpenBarStands
<1> USE BarAssumption
<1>1. SUFFICES ASSUME BarInv, field # NoField PROVE BarStands
  BY DEF OpenBarStands
<1>2. BarHeight * (downs + ups) \in Int
  <2>1. downs + ups \in Int
    BY <1>1 DEF BarInv
  <2> QED
    BY <2>1, OneMore
<1>3. shift = KeyboardPart + BarHeight * (downs + ups)
  BY <1>1 DEF BarInv, BarNeverCreeps
<1>4. KeyboardPart = - EnglishHeight \/ KeyboardPart = - ChineseHeight
  BY <1>1 DEF BarInv, KeyboardPart
<1> QED
  BY <1>2, <1>3, <1>4 DEF BarStands, EnglishHeight, ChineseHeight

LEMMA OpenBarStays == OpenBarStands /\ OpenBarStands'
  BY OpenBarIsThere, PTL

BarShiftIsInt == BarInv => shift \in Int

LEMMA BarIsSomewhere == BarShiftIsInt
<1> USE BarAssumption
<1>1. SUFFICES ASSUME BarInv PROVE shift \in Int
  BY DEF BarShiftIsInt
<1>2. downs + ups \in Int
  BY <1>1 DEF BarInv
<1>3. BarHeight * (downs + ups) \in Int /\ KeyboardPart \in Int
  BY <1>2, OneMore DEF KeyboardPart, EnglishHeight, ChineseHeight
<1> QED
  BY <1>1, <1>3 DEF BarInv, BarNeverCreeps

LEMMA BarShifts == BarShiftIsInt /\ BarShiftIsInt'
  BY BarIsSomewhere, PTL

(* What BoxFollowsKeyboard needs of earlier states. *)
BoxInv == BarInv /\ RootInv /\ BarLift

LEMMA DeliverKeepsBarLift ==
    ASSUME BoxInv, BarInv', BarDeliver
    PROVE  BarLift'
<1> USE BarAssumption
<1>1. KeyInv /\ RootInv /\ Deliver /\ UNCHANGED <<ups, downs>> /\ queue # <<>> /\ enabled
  BY DEF BoxInv, BarInv, BarDeliver, history, KeyInv, KeyTypes
<1>2. frame = [f \in Fields |-> f] /\ kbHeight \in Nat /\ begin \in {CGRectZero, Home}
  BY <1>1 DEF KeyInv, KeyTypes, Knowledge, Kept, RootInv
<1>3. CASE Head(queue).name = "WillShow" /\ KeyboardWillShow(Head(queue).height)
  <2> DEFINE h == Head(queue).height
  <2>1. UNCHANGED <<field, shift>> /\ h \in Nat
    <3>1. \E k \in Heights : Head(queue) = WillShow(k)
      BY <1>1, <1>3, FirstNotification DEF DidBegin, WillHide, DidEnd
    <3>2. h \in Nat
      BY <1>1, <3>1, HeightsArePositive DEF WillShow, KeyInv, KeyTypes
    <3> QED
      BY <1>3, <3>2 DEF KeyboardWillShow, BarDeliver, bar
  <2> HIDE DEF h
  <2>2. CASE kbHeight' # kbHeight /\ field # NoField
    <3>1. kbHeight' = h + Distance /\ root' = Adjusted(field, shift, kbHeight', begin)
      BY <1>1, <1>3, <2>2 DEF KeyboardWillShow, h
    <3>2. PICK height \in {EnglishHeight, ChineseHeight} :
             shift = BarHeight * (downs + ups) - height /\ shift \in Int
      BY <2>2, OpenBarStays DEF BoxInv, OpenBarStands, BarStands
    <3>3. field \in Fields /\ kbHeight' \in Nat
      BY <1>1, <2>1, <2>2, <3>1 DEF KeyInv, KeyTypes
    <3>4. root'.y = - Max2(0, Move(field, shift, kbHeight'))
      BY <1>1, <1>2, <3>1, <3>2, <3>3, AdjustedFrame
    <3> QED
      BY <1>1, <2>1, <3>2, <3>4 DEF BarLift, Move
  <2>3. CASE ~ (kbHeight' # kbHeight /\ field # NoField)
    <3>1. UNCHANGED <<showing, root>>
      BY <1>1, <1>3, <2>3 DEF KeyboardWillShow
    <3> QED
      BY <1>1, <2>1, <2>3, <3>1 DEF BoxInv, BarLift, Move
  <2> QED
    BY <2>2, <2>3
<1>4. CASE Head(queue).name = "WillHide" /\ KeyboardWillHide
  <2>1. Head(queue) \in {WillHide, DidEnd} /\ field # NoField
    BY <1>1, <1>4, FirstNotification DEF WillShow, DidBegin, WillHide
  <2>2. showing' = FALSE
    BY <1>1, <1>4, <2>1 DEF KeyboardWillHide, Restore
  <2> QED
    BY <2>2 DEF BarLift
<1>5. CASE Head(queue).name = "DidBegin" /\ DidBeginEditing(Head(queue).of)
  <2> DEFINE f == Head(queue).of
  <2>1. f \in Fields
    BY <1>1, <1>5, FirstNotification DEF WillShow, DidBegin, WillHide, DidEnd
  <2> HIDE DEF f
  <2>2. /\ field' = f /\ kbHeight' = kbHeight /\ begin' = IF showing THEN begin ELSE root
        /\ root' = Adjusted(f, shift', kbHeight, begin')
    BY <1>1, <1>5 DEF DidBeginEditing, f
  <2>3. begin' \in {CGRectZero, Home}
    BY <1>1, <2>2 DEF RootInv
  <2>4. field' # NoField
    BY <2>1, <2>2
  <2>5. PICK height \in {EnglishHeight, ChineseHeight} :
           shift' = BarHeight * (downs' + ups') - height /\ shift' \in Int
    BY <2>4, OpenBarStays DEF OpenBarStands, BarStands
  <2>6. root'.y = - Max2(0, Move(f, shift', kbHeight))
    BY <1>1, <1>2, <2>1, <2>2, <2>3, <2>5, AdjustedFrame
  <2> QED
    BY <2>2, <2>5, <2>6 DEF BarLift, Move
<1>6. CASE DidEndEditing
  BY <1>6 DEF DidEndEditing, BarLift
<1> QED
  BY <1>1, <1>3, <1>4, <1>5, <1>6 DEF Deliver

LEMMA BoxInvariant == BarSpec => []BoxInv
<1> USE BarAssumption
<1>1. BarInit => RootInv /\ BarLift
  BY DEF BarInit, Init, RootInv, BarLift, CGRectZero, Home
<1>2. BoxInv /\ BarInv' /\ [BarNext]_barVars => BoxInv'
  <2> SUFFICES ASSUME BoxInv, BarInv', [BarNext]_barVars PROVE RootInv' /\ BarLift'
    BY DEF BoxInv
  <2>1. BarInv /\ RootInv /\ BarLift /\ KeyInv
    BY DEF BoxInv, BarInv
  <2>2. ASSUME UNCHANGED <<field, showing, root, begin, kbHeight, ups, downs>>
        PROVE  RootInv' /\ BarLift'
    BY <2>1, <2>2 DEF RootInv, BarLift, Move
  <2>3. CASE SwipeDown \/ SwipeUp
    <3>1. UNCHANGED <<field, showing, root, begin>> /\ ~keyBoardIsOpen
      BY <2>3 DEF SwipeDown, SwipeUp, manager
    <3> QED
      BY <2>1, <3>1 DEF BarInv, RootInv, BarLift
  <2>4. CASE KeyboardWasChanged
    BY <2>2, <2>4 DEF KeyboardWasChanged, manager, history
  <2>5. CASE BarDeliver
    <3>1. shift \in Int /\ shift' \in Int
      BY <2>1, BarShifts DEF BarShiftIsInt
    <3>2. Deliver
      BY <2>5 DEF BarDeliver
    <3>3. RootInv'
      BY <2>1, <3>1, <3>2, DeliverKeepsRootInv
    <3> QED
      BY <2>5, <3>3, DeliverKeepsBarLift
  <2>6. CASE Elsewhere
    <3>1. UNCHANGED <<ups, downs>>
      BY <2>6 DEF Elsewhere
    <3>2. UNCHANGED <<field, showing, root, begin, kbHeight>>
      BY <2>6 DEF Elsewhere, TapBox, TapField, BecomeFirstResponder, Dismiss, ChangeInput,
                  RunCompletion, LeavePage, manager
    <3> QED
      BY <2>2, <3>1, <3>2
  <2>7. CASE UNCHANGED barVars
    BY <2>2, <2>7 DEF barVars, manager, history
  <2> QED
    BY <2>3, <2>4, <2>5, <2>6, <2>7 DEF BarNext
<1> QED
  BY <1>1, <1>2, BarInvariant, PTL DEF BarSpec, BoxInv

(* Lifted for a bar at d, the text view of a bar at s is that much off.    *)
LiftedFor(p, s, d, top, bottom, line, edge, y) ==
    /\ p \in Nat /\ s \in {216, 252} /\ d \in {216, 252}
    /\ top \in Int /\ bottom \in Int /\ line \in Int /\ edge \in Int
    /\ y = - Max2(0, Min2(bottom + (p - d) - line, top + (p - d) - edge))
    /\ top + (p - d) - edge >= 0

LEMMA BoxArithmetic ==
    ASSUME NEW p, NEW s, NEW d, NEW top, NEW bottom, NEW line, NEW edge, NEW y,
           LiftedFor(p, s, d, top, bottom, line, edge, y)
    PROVE  \/ (bottom + (p - s) + y) - line <= 36
           \/ (top + (p - s) + y) - edge \in -36 .. 36
<1> USE DEF LiftedFor
<1> DEFINE low  == bottom + (p - d) - line
           high == top + (p - d) - edge
<1>1. low \in Int /\ high \in Int /\ high >= 0
  OBVIOUS
<1>2. y = - Max2(0, Min2(low, high))
  OBVIOUS
<1>3. \A z \in Int : /\ (bottom + (p - s) + z) - line = low + z + (d - s)
                     /\ (top + (p - s) + z) - edge = high + z + (d - s)
  OBVIOUS
<1> HIDE DEF low, high
<1>4. y \in Int /\ (y <= - low \/ y = - high)
  BY <1>1, <1>2 DEF Max2, Min2
<1>5. d - s \in -36 .. 36 /\ d - s \in Int
  OBVIOUS
<1>7. CASE y <= - low
  <2>1. (bottom + (p - s) + y) - line <= 36
    BY <1>1, <1>3, <1>4, <1>5, <1>7
  <2> QED
    BY <2>1
<1>8. CASE y = - high
  <2>1. (top + (p - s) + y) - edge = d - s
    BY <1>1, <1>3, <1>4, <1>5, <1>8
  <2> QED
    BY <1>5, <2>1
<1> QED
  BY <1>4, <1>7, <1>8

(* The page and the manager both move the text view and do not know of     *)
(* each other; they never disagree by more than the difference of the two  *)
(* heights the page knows, whatever keyboards there are and however late   *)
(* their frames are heard.  The text view is to be below the status bar    *)
(* where the page puts it, as it is on every screen with that keyboard.    *)
THEOREM BoxIsFollowed ==
    ASSUME Top[Box] - ChineseHeight >= StatusBar + 5
    PROVE  BarSpec => []BoxFollowsKeyboard
<1> USE BarAssumption
<1>1. BoxInv => BoxFollowsKeyboard
  <2> SUFFICES ASSUME BoxInv, Settled, focus = Box PROVE BoxFollowsKeyboard
    BY DEF BoxFollowsKeyboard
  <2>1. KeyInv /\ BarInv /\ enabled /\ Box \in Fields
    BY DEF BoxInv, BarInv, KeyInv, KeyTypes, Box, Fields
  <2>2. field = Box /\ showing /\ kbHeight = keyboard + Distance /\ keyboard \in Nat
    <3>1. Rests
      BY <2>1, SettledRests
    <3> QED
      BY <2>1, <3>1 DEF Rests, KeyInv, KeyTypes, Knowledge
  <2>3. BarStands /\ BarHeight * (downs + ups) \in Nat
    <3>1. field # NoField /\ downs + ups \in Nat /\ BarHeight \in Nat
      BY <2>1, <2>2 DEF BarInv
    <3>2. \A b \in Nat, m \in Nat : b * m \in Nat
      OBVIOUS
    <3> QED
      BY <2>1, <3>1, <3>2, OpenBarIsThere DEF OpenBarStands
  <2> DEFINE P    == BarHeight * (downs + ups)
             line == WindowHeight - (keyboard + Distance)
             edge == 5 + StatusBar
  <2>4. PICK s \in {216, 252} : shift = P - s
    BY <2>3 DEF BarStands, EnglishHeight, ChineseHeight
  <2>5. PICK d \in {216, 252} : root.y = - Max2(0, Move(Box, P - d, keyboard + Distance))
    BY <2>1, <2>2 DEF BoxInv, BarLift, EnglishHeight, ChineseHeight
  <2>6. Top[Box] \in Int /\ Bottom[Box] \in Int /\ line \in Int /\ edge \in Int
    BY <2>1, <2>2 DEF Frames
  <2>7. root.y = - Max2(0, Min2(Bottom[Box] + (P - d) - line, Top[Box] + (P - d) - edge))
    BY <2>5 DEF Move
  <2>8. P \in Nat /\ Top[Box] - 252 >= edge
    BY <2>3, <2>6 DEF ChineseHeight
  <2> HIDE DEF P
  <2> DEFINE bottom == Bottom[Box] + (P - s) + root.y
             top    == Top[Box] + (P - s) + root.y
  <2>9. bottom - line <= 36 \/ top - edge \in -36 .. 36
    <3> HIDE DEF line, edge
    <3>1. Top[Box] + (P - d) - edge >= 0
      BY <2>6, <2>8
    <3>2. LiftedFor(P, s, d, Top[Box], Bottom[Box], line, edge, root.y)
      BY <2>6, <2>7, <2>8, <3>1 DEF LiftedFor
    <3> QED
      BY <3>2, BoxArithmetic
  <2>10. bottom \in Int /\ root.y \in Int
    BY <2>1, <2>6, <2>8 DEF BoxInv, RootInv
  <2>11. Bottom[Box] + shift + root.y = bottom /\ Top[Box] + shift + root.y = top
    BY <2>4
  <2> HIDE DEF bottom, top
  <2>12. Slack = 36 /\ edge = StatusBar + 5 /\ line = WindowHeight - keyboard - Distance
    BY <2>2 DEF Slack, EnglishHeight, ChineseHeight
  <2>13. bottom - line <= 36 => bottom <= line + 36
    BY <2>6, <2>10
  <2> HIDE DEF line, edge
  <2>14. bottom <= line + Slack \/ top - edge \in -Slack .. Slack
    BY <2>9, <2>12, <2>13
  <2> QED
    BY <2>11, <2>12, <2>14 DEF BoxFollowsKeyboard
<1> QED
  BY <1>1, BoxInvariant, PTL
==============================================================================
