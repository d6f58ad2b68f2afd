-------------------------- MODULE ChatStoreProofs --------------------------
(***************************************************************************)
(* Theorems of ChatStore, for all peers, texts, literals and bounds.       *)
(***************************************************************************)
EXTENDS ChatStore, TLAPS

(* Sending t stores Stored[t] last: the mapping of a longer sequence. *)
LEMMA StoredFormAppend ==
    ASSUME NEW s \in Seq(Text), NEW t \in Text
    PROVE  StoredForm(Append(s, t)) = Append(StoredForm(s), Stored[t])
  <1> DEFINE a == StoredForm(Append(s, t))
             b == Append(StoredForm(s), Stored[t])
  <1>1. Len(Append(s, t)) = Len(s) + 1 /\ Len(s) \in Nat
    OBVIOUS
  <1>2. a = [i \in 1..Len(s) + 1 |-> Stored[Append(s, t)[i]]]
    BY <1>1 DEF StoredForm
  <1>3. b = [i \in 1..Len(s) + 1 |-> IF i <= Len(s) THEN Stored[s[i]] ELSE Stored[t]]
    BY <1>1 DEF StoredForm
  <1>4. \A i \in 1..Len(s) + 1 :
            Stored[Append(s, t)[i]] = IF i <= Len(s) THEN Stored[s[i]] ELSE Stored[t]
    BY <1>1
  <1>5. a = b
    BY <1>2, <1>3, <1>4
  <1> QED
    BY <1>5

(* The newest part of a sequence is a sequence of the same elements, as    *)
(* long as the window allows, and each as far from its end.                *)
LEMMA NewestType ==
    ASSUME NEW S, NEW s \in Seq(S)
    PROVE  /\ Newest(s) \in Seq(S)
           /\ Len(Newest(s)) = IF Len(s) < Window THEN Len(s) ELSE Window
           /\ \A i \in 1..Len(Newest(s)) : Newest(s)[i] = s[Len(s) - Len(Newest(s)) + i]
  <1> USE ConstantsAssumption
  <1>1. Len(s) \in Nat
    OBVIOUS
  <1>2. CASE Len(s) <= Window
    <2>1. Newest(s) = s
      BY <1>2 DEF Newest
    <2>2. \A i \in 1..Len(s) : Len(s) - Len(s) + i = i
      BY <1>1
    <2> QED
      BY <1>1, <1>2, <2>1, <2>2
  <1>3. CASE Len(s) > Window
    <2> DEFINE w == [i \in 1..Window |-> s[Len(s) - Window + i]]
    <2>1. Newest(s) = w
      BY <1>1, <1>3 DEF Newest
    <2>2. \A i \in 1..Window : Len(s) - Window + i \in 1..Len(s)
      BY <1>1, <1>3
    <2>3. w \in Seq(S) /\ Len(w) = Window
      BY <2>2
    <2>4. \A i \in 1..Window : w[i] = s[Len(s) - Window + i]
      OBVIOUS
    <2> HIDE DEF w
    <2> QED
      BY <1>1, <1>3, <2>1, <2>3, <2>4
  <1> QED
    BY <1>1, <1>2, <1>3

(* Whatever a text that was run as SQL left in the table are rows.         *)
LEMMA RowsType ==
    ASSUME NEW f \in [Peer -> UNION {[1..n -> Row] : n \in 0..MaxRows}]
    PROVE  f \in [Peer -> Seq(Row)]
  <1>1. ASSUME NEW q \in UNION {[1..n -> Row] : n \in 0..MaxRows}
        PROVE  q \in Seq(Row)
    <2>1. PICK n \in 0..MaxRows : q \in [1..n -> Row]
      BY <1>1
    <2>2. n \in Nat
      BY <2>1, BoundsAssumption
    <2> QED
      BY <2>1, <2>2
  <1> QED
    BY <1>1

(* What a page reads is a prefix of the log, and a sequence of texts. *)
LEMMA PrefixType ==
    ASSUME NEW S, NEW s \in Seq(S), NEW k \in 0..Len(s)
    PROVE  SubSeq(s, 1, k) \in Seq(S)
  OBVIOUS

(* The empty page, and one more bubble. *)
LEMMA BubblesType ==
    /\ <<>> \in Seq(Body)
    /\ \A s \in Seq(Body), b \in Body : Append(s, b) \in Seq(Body)
  OBVIOUS

(* Opening a page leaves the store alone, except that it may create the file. *)
LEMMA OpenPageType ==
    ASSUME TypeOK, NEW p \in Peer, Open(p)
    PROVE  TypeOK'
  <1> USE ConstantsAssumption
  <1>1. PICK k \in 0..Len(log[p]) :
            /\ Select(p, SubSeq(log[p], 1, k))
            /\ bubbles' = Newest(SubSeq(log[p], 1, k))
    BY DEF Open
  <1>2. SubSeq(log[p], 1, k) \in Seq(Row)
    BY PrefixType DEF TypeOK
  <1>3. bubbles' \in Seq(Row)
    BY <1>1, <1>2, NewestType
  <1>4. Seq(Row) \subseteq Seq(Body)
    BY DEF Body
  <1>5. bubbles' \in Seq(Body)
    BY <1>3, <1>4
  <1>6. file' \in BOOLEAN /\ complete' \in BOOLEAN
    BY <1>1, Zenon DEF Select, TypeOK
  <1> QED
    BY <1>5, <1>6 DEF Open, TypeOK

(* The type invariant is inductive. *)
LEMMA TypeStep ==
    ASSUME TypeOK, SendMatchesDraft, PageOnlyWhileRunning, [Next]_vars
    PROVE  TypeOK'
  <1> USE ConstantsAssumption, BubblesType DEF TypeOK
  <1>1. CASE LaunchWithFile BY <1>1 DEF LaunchWithFile, page
  <1>2. CASE LaunchCreatesFile BY <1>2 DEF LaunchCreatesFile, page
  <1>3. CASE LaunchCannotOpen BY <1>3 DEF LaunchCannotOpen, page
  <1>4. CASE CreateTable BY <1>4 DEF CreateTable, page
  <1>5. CASE CreateTableFails BY <1>5 DEF CreateTableFails, page
  <1>6. CASE Crash
    <2>1. faulted' \in BOOLEAN
      BY <1>6, Zenon DEF Crash
    <2> QED
      BY <1>6, <2>1 DEF Crash, ClosePage
  <1>7. ASSUME NEW p \in Peer, Open(p) PROVE TypeOK'
    BY <1>7, OpenPageType
  <1>8. CASE Back BY <1>8 DEF Back, ClosePage, store
  <1>9. ASSUME NEW t \in Text \cup {Empty}, Edit(t) PROVE TypeOK'
    BY <1>9 DEF Edit, store
  <1>10. CASE ClickSend
    <2>1. peer \in Peer /\ draft \in Text
      BY <1>10 DEF ClickSend, SendMatchesDraft, PageOnlyWhileRunning
    <2>2. log' \in [Peer -> Seq(Row)]
      <3>1. CASE InsertFails
        BY <3>1 DEF InsertFails
      <3>2. CASE InsertRow(peer, draft)
        <4>1. Stored[draft] \in Row
          BY <2>1, <3>2 DEF InsertRow, Row
        <4>2. Append(log[peer], Stored[draft]) \in Seq(Row)
          BY <2>1, <4>1
        <4> QED
          BY <3>2, <4>2 DEF InsertRow
      <3>3. CASE InsertRunsText(draft)
        BY <3>3, RowsType DEF InsertRunsText
      <3> QED
        BY <1>10, <3>1, <3>2, <3>3 DEF ClickSend, Insert
    <2>5. /\ file' \in BOOLEAN /\ faulted' \in BOOLEAN
          /\ table' \in BOOLEAN /\ intact' \in BOOLEAN
      BY <1>10, Zenon DEF ClickSend, Insert, InsertFails, InsertRow, InsertRunsText
    <2>6. complete' \in BOOLEAN
      BY <1>10, Zenon DEF ClickSend
    <2>3. sent' \in [Peer -> Seq(Text)]
      BY <1>10, <2>1 DEF ClickSend
    <2>4. bubbles' \in Seq(Body)
      BY <1>10, <2>1 DEF ClickSend, ShowBubble, Body, Row
    <2> QED
      BY <1>10, <2>2, <2>3, <2>4, <2>5, <2>6 DEF ClickSend, ShowBubble
  <1>11. CASE PickPicture
    <2>1. bubbles' \in Seq(Body)
      BY <1>11 DEF PickPicture, ShowBubble, Body
    <2>2. pictures' \in Nat
      BY <1>11 DEF PickPicture
    <2> QED
      BY <1>11, <2>1, <2>2 DEF PickPicture, ShowBubble, store
  <1>12. CASE Trash BY <1>12 DEF Trash, store
  <1>13. CASE UNCHANGED vars BY <1>13 DEF vars
  <1> QED
    BY <1>1, <1>2, <1>3, <1>4, <1>5, <1>6, <1>7, <1>8, <1>9, <1>10, <1>11,
       <1>12, <1>13 DEF Next

(* The store starts empty, closed and faultless. *)
LEMMA StoreInvInit == Init => StoreInv
  <1> SUFFICES ASSUME Init PROVE StoreInv
    OBVIOUS
  <1>1. TypeOK
    <2>1. /\ [p \in Peer |-> <<>>] \in [Peer -> Seq(Text)]
          /\ [p \in Peer |-> <<>>] \in [Peer -> Seq(Row)]
      OBVIOUS
    <2> QED
      BY <2>1, BubblesType DEF Init, TypeOK
  <1>2. NothingLost
    <2>1. StoredForm(<<>>) = <<>>
      BY DEF StoredForm
    <2> QED
      BY <2>1 DEF Init, NothingLost
  <1>3. /\ HealthyStoreHasTable /\ SendMatchesDraft /\ PageOnlyWhileRunning
        /\ RowsNeedTable /\ IntactWhileFaultless
    BY DEF Init, HealthyStoreHasTable, SendMatchesDraft, PageOnlyWhileRunning,
           RowsNeedTable, IntactWhileFaultless
  <1> QED
    BY <1>1, <1>2, <1>3 DEF StoreInv

(* A text sent without a fault is stored, and is stored last. *)
LEMMA SendStores ==
    ASSUME StoreInv, ClickSend
    PROVE  NothingLost'
  <1> USE ConstantsAssumption
  <1> SUFFICES ASSUME ~faulted', NEW p \in Peer
               PROVE  log'[p] = StoredForm(sent'[p])
    BY DEF NothingLost, StoredForm
  <1>1. peer \in Peer /\ draft \in Text /\ phase = "running"
    BY DEF StoreInv, TypeOK, ClickSend, SendMatchesDraft, PageOnlyWhileRunning
  <1>2. InsertRow(peer, draft)
    BY DEF ClickSend, Insert, InsertFails, InsertRunsText
  <1>3. ~faulted
    BY <1>2 DEF InsertRow
  <1>4. log' = [log EXCEPT ![peer] = Append(@, Stored[draft])]
    BY <1>2 DEF InsertRow
  <1>5. log[p] = StoredForm(sent[p])
    BY <1>3 DEF StoreInv, NothingLost
  <1>6. sent' = [sent EXCEPT ![peer] = Append(@, draft)] /\ sent[p] \in Seq(Text)
    BY DEF ClickSend, StoreInv, TypeOK
  <1>7. CASE p = peer
    <2>1. log'[p] = Append(log[p], Stored[draft])
      BY <1>4, <1>7 DEF StoreInv, TypeOK
    <2>2. sent'[p] = Append(sent[p], draft)
      BY <1>6, <1>7 DEF StoreInv, TypeOK
    <2> QED
      BY <1>1, <1>5, <1>6, <2>1, <2>2, StoredFormAppend
  <1>8. CASE p # peer
    BY <1>4, <1>5, <1>6, <1>8 DEF StoreInv, TypeOK
  <1> QED
    BY <1>7, <1>8

(* A step that neither sends nor stores cannot lose anything. *)
LEMMA QuietStep ==
    ASSUME StoreInv, UNCHANGED <<log, sent>>, faulted => faulted'
    PROVE  NothingLost'
  BY DEF StoreInv, NothingLost, StoredForm

(* What an insert leaves alone, whatever comes of it.                      *)
LEMMA InsertKeeps ==
    ASSUME ClickSend
    PROVE  /\ file => file'
           /\ faulted => faulted'
           /\ UNCHANGED <<table, intact>> \/ (faulted' /\ ~intact')
           /\ ~table' => UNCHANGED <<table, log>> \/ (\A p \in Peer : log'[p] = <<>>)
  <1>1. CASE InsertFails
    BY <1>1 DEF InsertFails
  <1>2. CASE InsertRow(peer, draft)
    BY <1>2 DEF InsertRow
  <1>3. CASE InsertRunsText(draft)
    <2>1. file' /\ faulted' /\ ~intact' /\ (~table' => \A p \in Peer : log'[p] = <<>>)
      BY <1>3, Zenon DEF InsertRunsText
    <2> QED
      BY <2>1
  <1> QED
    BY <1>1, <1>2, <1>3 DEF ClickSend, Insert

(* Every step preserves the inductive invariant. *)
LEMMA StoreInvStep == StoreInv /\ [Next]_vars => StoreInv'
  <1> SUFFICES ASSUME StoreInv, [Next]_vars
               PROVE  StoreInv'
    OBVIOUS
  <1> DEFINE Rest == /\ HealthyStoreHasTable
                     /\ SendMatchesDraft
                     /\ PageOnlyWhileRunning
                     /\ RowsNeedTable
                     /\ IntactWhileFaultless
  <1>t. TypeOK'
    BY TypeStep DEF StoreInv
  <1>r. Rest
    BY DEF StoreInv
  <1>q. NothingLost' /\ Rest' => StoreInv'
    BY <1>t DEF StoreInv
  <1> HIDE DEF Rest
  <1> USE DEF Rest, HealthyStoreHasTable, SendMatchesDraft,
              PageOnlyWhileRunning, RowsNeedTable, IntactWhileFaultless
  <1>1. CASE LaunchWithFile
    <2>1. NothingLost'
      BY <1>1, QuietStep DEF LaunchWithFile, page
    <2>2. Rest'
      BY <1>1, <1>r DEF LaunchWithFile, page
    <2> QED
      BY <1>q, <2>1, <2>2
  <1>2. CASE LaunchCreatesFile
    <2>1. NothingLost'
      BY <1>2, QuietStep DEF LaunchCreatesFile, page
    <2>2. Rest'
      BY <1>2, <1>r DEF LaunchCreatesFile, page
    <2> QED
      BY <1>q, <2>1, <2>2
  <1>3. CASE LaunchCannotOpen
    <2>1. NothingLost'
      BY <1>3, QuietStep DEF LaunchCannotOpen, page
    <2>2. Rest'
      BY <1>3, <1>r DEF LaunchCannotOpen, page
    <2> QED
      BY <1>q, <2>1, <2>2
  <1>4. CASE CreateTable
    <2>1. NothingLost'
      BY <1>4, QuietStep DEF CreateTable, page
    <2>2. Rest'
      BY <1>4, <1>r DEF CreateTable, page
    <2> QED
      BY <1>q, <2>1, <2>2
  <1>5. CASE CreateTableFails
    <2>1. NothingLost'
      BY <1>5, QuietStep DEF CreateTableFails, page
    <2>2. Rest'
      BY <1>5, <1>r DEF CreateTableFails, page
    <2> QED
      BY <1>q, <2>1, <2>2
  <1>6. CASE Crash
    <2>1. NothingLost'
      BY <1>6, QuietStep DEF Crash, ClosePage
    <2>2. Rest'
      BY <1>6, <1>r DEF Crash, ClosePage
    <2> QED
      BY <1>q, <2>1, <2>2
  <1>7. ASSUME NEW p \in Peer, Open(p) PROVE StoreInv'
    <2>1. NothingLost'
      BY <1>7, QuietStep DEF Open
    <2>2. file => file'
      BY <1>7 DEF Open, Select
    <2>3. Rest'
      BY <1>7, <1>r, <2>2 DEF Open
    <2> QED
      BY <1>q, <2>1, <2>3
  <1>8. CASE Back
    <2>1. NothingLost'
      BY <1>8, QuietStep DEF Back, ClosePage, store
    <2>2. Rest'
      BY <1>8, <1>r DEF Back, ClosePage, store
    <2> QED
      BY <1>q, <2>1, <2>2
  <1>9. ASSUME NEW t \in Text \cup {Empty}, Edit(t) PROVE StoreInv'
    <2>1. NothingLost'
      BY <1>9, QuietStep DEF Edit, store
    <2>2. Rest'
      BY <1>9, <1>r DEF Edit, store
    <2> QED
      BY <1>q, <2>1, <2>2
  <1>10. CASE ClickSend
    <2>1. NothingLost'
      BY <1>10, SendStores
    <2>2. Rest'
      BY <1>10, <1>r, InsertKeeps DEF ClickSend, ShowBubble
    <2> QED
      BY <1>q, <2>1, <2>2
  <1>11. CASE PickPicture
    <2>1. NothingLost'
      BY <1>11, QuietStep DEF PickPicture, ShowBubble, store
    <2>2. Rest'
      BY <1>11, <1>r DEF PickPicture, ShowBubble, store
    <2> QED
      BY <1>q, <2>1, <2>2
  <1>12. CASE Trash
    <2>1. NothingLost'
      BY <1>12, QuietStep DEF Trash, store
    <2>2. Rest'
      BY <1>12, <1>r DEF Trash, store
    <2> QED
      BY <1>q, <2>1, <2>2
  <1>13. CASE UNCHANGED vars
    <2>1. NothingLost'
      BY <1>13, QuietStep DEF vars
    <2>2. Rest'
      BY <1>13, <1>r DEF vars
    <2> QED
      BY <1>q, <2>1, <2>2
  <1> QED
    BY <1>1, <1>2, <1>3, <1>4, <1>5, <1>6, <1>7, <1>8, <1>9, <1>10, <1>11, <1>12, <1>13 DEF Next

(* Every conjunct of StoreInv holds in every reachable state. *)
THEOREM StoreInvariant == Spec => []StoreInv
  BY StoreInvInit, StoreInvStep, PTL DEF Spec

(* The variables always have their types. *)
THEOREM TypeCorrect == Spec => []TypeOK
  <1>1. StoreInv => TypeOK
    BY DEF StoreInv
  <1> QED
    BY <1>1, StoreInvariant, PTL

(* Without a fault, the store holds exactly what was sent, in order. *)
THEOREM FaultFreeIsLossless == Spec => []NothingLost
  <1>1. StoreInv => NothingLost
    BY DEF StoreInv
  <1> QED
    BY <1>1, StoreInvariant, PTL

------------------------------------------------------------------------------
(* Appending keeps what was there as a prefix; so does changing nothing. *)
LEMMA PrefixKept ==
    ASSUME NEW S, NEW s \in Seq(S), NEW x \in S
    PROVE  /\ Len(s) <= Len(s) /\ SubSeq(s, 1, Len(s)) = s
           /\ Len(s) <= Len(Append(s, x)) /\ SubSeq(Append(s, x), 1, Len(s)) = s
  OBVIOUS

(* Only ClickSend touches the rows.  Unless it runs a text as SQL, or     *)
(* something that one left behind, it touches one log, at its end.         *)
LEMMA LogStep ==
    ASSUME StoreInv, [Next]_vars
    PROVE  \/ UNCHANGED <<log, intact>>
           \/ /\ ClickSend /\ table /\ intact
              /\ peer \in Peer /\ draft \in Text /\ Stored[draft] \in Text
              /\ log' = [log EXCEPT ![peer] = Append(@, Stored[draft])]
              /\ UNCHANGED intact
           \/ /\ ClickSend /\ table
              /\ Stored[draft] = BadLiteral \/ ~intact
              /\ ~intact'
  <1> USE ConstantsAssumption
  <1>1. CASE ClickSend
    <2>1. peer \in Peer /\ draft \in Text
      BY <1>1 DEF ClickSend, StoreInv, TypeOK, SendMatchesDraft, PageOnlyWhileRunning
    <2>2. CASE InsertFails
      BY <2>2 DEF InsertFails
    <2>3. CASE InsertRow(peer, draft)
      BY <1>1, <2>1, <2>3 DEF InsertRow
    <2>4. CASE InsertRunsText(draft)
      BY <1>1, <2>4 DEF InsertRunsText
    <2> QED
      BY <1>1, <2>2, <2>3, <2>4 DEF ClickSend, Insert
  <1>2. CASE ~ClickSend
    BY <1>2 DEF Next, LaunchWithFile, LaunchCreatesFile, LaunchCannotOpen, CreateTable,
                CreateTableFails, Crash, Open, Back, Edit, PickPicture, Trash, store, vars
  <1> QED
    BY <1>1, <1>2

(* The file and the pictures outlive every step, the table all but those   *)
(* that run a text as SQL.                                                 *)
DocumentsStay ==
    /\ file => file'
    /\ pictures <= pictures'
    /\ intact' /\ table => table'

LEMMA DocumentsStep ==
    ASSUME StoreInv, [Next]_vars
    PROVE  DocumentsStay
  <1> SUFFICES ASSUME TypeOK
               PROVE  DocumentsStay
    BY DEF StoreInv
  <1> USE DEF DocumentsStay, TypeOK, store
  <1>1. CASE LaunchWithFile \/ LaunchCreatesFile \/ LaunchCannotOpen
    BY <1>1 DEF LaunchWithFile, LaunchCreatesFile, LaunchCannotOpen
  <1>2. CASE CreateTable \/ CreateTableFails \/ Crash
    BY <1>2 DEF CreateTable, CreateTableFails, Crash
  <1>3. ASSUME NEW p \in Peer, Open(p)
        PROVE  DocumentsStay
    BY <1>3 DEF Open, Select
  <1>4. CASE Back \/ Trash \/ PickPicture
    BY <1>4 DEF Back, Trash, PickPicture
  <1>5. ASSUME NEW t \in Text \cup {Empty}, Edit(t)
        PROVE  DocumentsStay
    BY <1>5 DEF Edit
  <1>6. CASE ClickSend
    BY <1>6, InsertKeeps DEF ClickSend
  <1>7. CASE UNCHANGED vars
    BY <1>7 DEF vars
  <1> QED
    BY <1>1, <1>2, <1>3, <1>4, <1>5, <1>6, <1>7 DEF Next

(* What a step may never do to Documents. *)
THEOREM Durability == Spec => DurableOnlyGrows
  <1>1. StoreInv /\ [Next]_vars =>
           [ /\ file => file'
             /\ pictures <= pictures'
             /\ intact' => /\ table => table'
                           /\ \A p \in Peer : /\ Len(log[p]) <= Len(log'[p])
                                              /\ SubSeq(log'[p], 1, Len(log[p])) = log[p] ]_vars
    <2> SUFFICES ASSUME StoreInv, [Next]_vars, intact', NEW p \in Peer
                 PROVE  /\ Len(log[p]) <= Len(log'[p])
                        /\ SubSeq(log'[p], 1, Len(log[p])) = log[p]
      BY DocumentsStep DEF DocumentsStay
    <2>1. log[p] \in Seq(Row) /\ log \in [Peer -> Seq(Row)]
      BY DEF StoreInv, TypeOK
    <2>2. CASE log' = log
      BY <2>1, <2>2
    <2>3. CASE /\ peer \in Peer /\ Stored[draft] \in Text
               /\ log' = [log EXCEPT ![peer] = Append(@, Stored[draft])]
      <3>1. log'[p] = log[p] \/ log'[p] = Append(log[p], Stored[draft])
        BY <2>1, <2>3
      <3>2. Stored[draft] \in Row
        BY <2>3 DEF Row
      <3> QED
        BY <2>1, <3>1, <3>2, PrefixKept
    <2> QED
      BY <2>2, <2>3, LogStep
  <1> QED
    BY <1>1, StoreInvariant, PTL DEF Spec, DurableOnlyGrows

(* A file without its table is never repaired. *)
THEOREM Tableless == Spec => TablelessForever
  <1>1. StoreInv /\ [Next]_vars =>
           [ file /\ ~table /\ phase # "creating"
                => ~table' /\ \A p \in Peer : log'[p] = <<>> ]_vars
    <2> SUFFICES ASSUME StoreInv, [Next]_vars, file, ~table, phase # "creating"
                 PROVE  ~table' /\ \A p \in Peer : log'[p] = <<>>
      OBVIOUS
    <2>1. log' = log
      BY LogStep
    <2>2. table' = table
      BY DEF Insert, InsertFails, InsertRow, InsertRunsText, Next, LaunchWithFile, LaunchCreatesFile, LaunchCannotOpen, CreateTable,
             CreateTableFails, Crash, Open, Back, Edit, ClickSend, PickPicture, Trash,
             store, vars
    <2> QED
      BY <2>1, <2>2 DEF StoreInv, RowsNeedTable
  <1> QED
    BY <1>1, StoreInvariant, PTL DEF Spec, TablelessForever

------------------------------------------------------------------------------
(* The Send button and the text view agree, however they were changed.     *)
THEOREM ButtonMatchesDraft == Spec => []SendMatchesDraft
  <1>1. StoreInv => SendMatchesDraft
    BY DEF StoreInv
  <1> QED
    BY <1>1, StoreInvariant, PTL

(* Adding to the longer sequence, or the same element to both, keeps a     *)
(* subsequence one.                                                        *)
LEMMA SubsequenceOfLonger ==
    ASSUME NEW S, NEW s \in Seq(S), NEW t \in Seq(S), NEW x \in S, IsSubsequence(s, t)
    PROVE  IsSubsequence(s, Append(t, x))
  <1>1. PICK f \in [1..Len(s) -> 1..Len(t)] :
            /\ \A i \in 1..Len(s) : s[i] = t[f[i]]
            /\ \A i, j \in 1..Len(s) : i < j => f[i] < f[j]
    BY DEF IsSubsequence
  <1>2. Len(Append(t, x)) = Len(t) + 1 /\ Len(t) \in Nat
    OBVIOUS
  <1>3. f \in [1..Len(s) -> 1..Len(Append(t, x))]
    BY <1>2
  <1>4. \A i \in 1..Len(s) : s[i] = Append(t, x)[f[i]]
    BY <1>1
  <1> QED
    BY <1>1, <1>3, <1>4 DEF IsSubsequence

LEMMA SubsequenceOfBoth ==
    ASSUME NEW S, NEW s \in Seq(S), NEW t \in Seq(S), NEW x \in S, IsSubsequence(s, t)
    PROVE  IsSubsequence(Append(s, x), Append(t, x))
  <1>1. PICK f \in [1..Len(s) -> 1..Len(t)] :
            /\ \A i \in 1..Len(s) : s[i] = t[f[i]]
            /\ \A i, j \in 1..Len(s) : i < j => f[i] < f[j]
    BY DEF IsSubsequence
  <1> DEFINE g == [i \in 1..Len(s) + 1 |-> IF i <= Len(s) THEN f[i] ELSE Len(t) + 1]
  <1>2. /\ Len(Append(s, x)) = Len(s) + 1 /\ Len(s) \in Nat
        /\ Len(Append(t, x)) = Len(t) + 1 /\ Len(t) \in Nat
    OBVIOUS
  <1>3. \A i \in 1..Len(s) : i \in 1..Len(s) + 1 /\ f[i] \in 1..Len(t) /\ g[i] = f[i]
    BY <1>2
  <1>4. g[Len(s) + 1] = Len(t) + 1
    BY <1>2
  <1>5. \A i \in 1..Len(s) + 1 : i \in 1..Len(s) \/ i = Len(s) + 1
    BY <1>2
  <1> HIDE DEF g
  <1>6. g \in [1..Len(Append(s, x)) -> 1..Len(Append(t, x))]
    <2>1. \A i \in 1..Len(s) + 1 : g[i] \in 1..Len(t) + 1
      BY <1>2, <1>3, <1>4, <1>5
    <2> QED
      BY <1>2, <2>1 DEF g
  <1>7. \A i \in 1..Len(Append(s, x)) : Append(s, x)[i] = Append(t, x)[g[i]]
    BY <1>1, <1>2, <1>3, <1>4, <1>5
  <1>8. \A i, j \in 1..Len(Append(s, x)) : i < j => g[i] < g[j]
    BY <1>1, <1>2, <1>3, <1>4, <1>5
  <1> QED
    BY <1>6, <1>7, <1>8 DEF IsSubsequence

LEMMA StoredFormType ==
    ASSUME NEW s \in Seq(Text)
    PROVE  StoredForm(s) \in Seq(Text \cup {BadLiteral})
  BY ConstantsAssumption DEF StoredForm

(* Only ClickSend adds to what was sent, and what it stores it has sent.   *)
LEMMA InventedStep == StoreInv /\ NothingInvented /\ [Next]_vars => NothingInvented'
  <1> SUFFICES ASSUME StoreInv, NothingInvented, [Next]_vars, intact', NEW p \in Peer
               PROVE  IsSubsequence(log'[p], StoredForm(sent'[p]))
    BY DEF NothingInvented, IsSubsequence, StoredForm
  <1> DEFINE S == Row \cup {BadLiteral}
  <1>1. /\ log[p] \in Seq(Row) /\ log \in [Peer -> Seq(Row)]
        /\ sent[p] \in Seq(Text) /\ sent \in [Peer -> Seq(Text)]
    BY DEF StoreInv, TypeOK
  <1>2. log[p] \in Seq(S) /\ StoredForm(sent[p]) \in Seq(S)
    BY <1>1, StoredFormType DEF Row
  <1>a. intact
    BY LogStep
  <1>3. IsSubsequence(log[p], StoredForm(sent[p]))
    BY <1>a DEF NothingInvented
  <1>4. CASE ~ClickSend
    <2>1. sent' = sent /\ log' = log
      BY <1>4, LogStep
         DEF Next, LaunchWithFile, LaunchCreatesFile, LaunchCannotOpen, CreateTable,
             CreateTableFails, Crash, Open, Back, Edit, PickPicture, Trash, store, vars
    <2> QED
      BY <1>3, <2>1
  <1>5. CASE ClickSend
    <2>1. peer \in Peer /\ draft \in Text
      BY <1>5 DEF ClickSend, StoreInv, TypeOK, SendMatchesDraft, PageOnlyWhileRunning
    <2>2. sent' = [sent EXCEPT ![peer] = Append(@, draft)]
      BY <1>5 DEF ClickSend
    <2>3. Stored[draft] \in S
      BY <2>1, ConstantsAssumption DEF Row
    <2>4. CASE p # peer
      <3>1. log'[p] = log[p] /\ sent'[p] = sent[p]
        BY <1>1, <2>2, <2>4, LogStep
      <3> QED
        BY <1>3, <3>1
    <2>5. CASE p = peer
      <3>1. StoredForm(sent'[p]) = Append(StoredForm(sent[p]), Stored[draft])
        BY <1>1, <2>1, <2>2, <2>5, StoredFormAppend
      <3>2. log'[p] = log[p] \/ log'[p] = Append(log[p], Stored[draft])
        BY <1>1, <2>5, LogStep
      <3> QED
        BY <1>2, <1>3, <2>3, <3>1, <3>2, SubsequenceOfLonger, SubsequenceOfBoth
    <2> QED
      BY <2>4, <2>5
  <1> QED
    BY <1>4, <1>5

(* As long as no text has been run as SQL, the store never holds a text    *)
(* that was not sent, nor twice, nor out of order, nor under another peer. *)
THEOREM NothingIsInvented == Spec => []NothingInvented
  <1>1. Init => NothingInvented
    <2> SUFFICES ASSUME Init, NEW p \in Peer PROVE IsSubsequence(log[p], StoredForm(sent[p]))
      BY DEF NothingInvented
    <2>1. log[p] = <<>> /\ sent[p] = <<>> /\ Len(<<>>) = 0 /\ 1..0 = {}
      BY DEF Init
    <2>2. [i \in {} |-> i] \in [{} -> 1..Len(StoredForm(sent[p]))]
      OBVIOUS
    <2> QED
      BY <2>1, <2>2 DEF IsSubsequence
  <1> QED
    BY <1>1, InventedStep, StoreInvariant, PTL DEF Spec

(* The newest of rows are shown by the bubbles b, in the same order. *)
ShownBy(f, rows, b) ==
    /\ f \in [NewestRows(rows) -> 1..Len(b)]
    /\ \A i \in NewestRows(rows) : rows[i] \in ShownAs(b[f[i]])
    /\ \A i, j \in NewestRows(rows) : i < j => f[i] < f[j]

Shown(rows, b) == \E f : ShownBy(f, rows, b)

(* A page that has just read all rows shows the newest of them. *)
LEMMA ShownAtOnce ==
    ASSUME NEW rows \in Seq(Row)
    PROVE  Shown(rows, Newest(rows))
  <1> DEFINE b == Newest(rows)
             d == Len(rows) - Len(b)
             f == [i \in NewestRows(rows) |-> i - d]
  <1>1. /\ b \in Seq(Row) /\ Len(b) \in Nat /\ Len(rows) \in Nat
        /\ Len(b) = IF Len(rows) < Window THEN Len(rows) ELSE Window
        /\ \A i \in 1..Len(b) : b[i] = rows[d + i]
    BY NewestType
  <1>2. ASSUME NEW i \in NewestRows(rows)
        PROVE  i \in 1..Len(rows) /\ i - d \in 1..Len(b) /\ d + (i - d) = i
    <2> HIDE DEF b
    <2>1. i \in 1..Len(rows) /\ Len(rows) - i < Window
      BY DEF NewestRows
    <2>2. d \in Int /\ d >= 0 /\ i > d
      BY <1>1, <2>1, ConstantsAssumption
    <2> HIDE DEF d
    <2>3. Len(b) = Len(rows) - d
      BY <1>1 DEF d
    <2> QED
      BY <1>1, <2>1, <2>2, <2>3
  <1>3. \A i \in NewestRows(rows) : f[i] = i - d
    OBVIOUS
  <1>4. f \in [NewestRows(rows) -> 1..Len(b)]
    BY <1>2
  <1> HIDE DEF f, b
  <1>5. \A i \in NewestRows(rows) : rows[i] \in ShownAs(b[f[i]])
    <2> TAKE i \in NewestRows(rows)
    <2>1. b[f[i]] = rows[i] /\ rows[i] \in Row
      BY <1>1, <1>2, <1>3
    <2> QED
      BY <2>1 DEF ShownAs
  <1>6. \A i, j \in NewestRows(rows) : i < j => f[i] < f[j]
    BY <1>1, <1>2, <1>3
  <1> QED
    BY <1>4, <1>5, <1>6 DEF Shown, ShownBy, b

(* One more bubble hides nothing. *)
LEMMA ShownStill ==
    ASSUME NEW rows \in Seq(Row), NEW b \in Seq(Body), NEW c \in Body, Shown(rows, b)
    PROVE  Shown(rows, Append(b, c))
  <1>1. PICK f : ShownBy(f, rows, b)
    BY DEF Shown
  <1>2. Len(Append(b, c)) = Len(b) + 1 /\ Len(b) \in Nat
    OBVIOUS
  <1>3. f \in [NewestRows(rows) -> 1..Len(Append(b, c))]
    BY <1>1, <1>2 DEF ShownBy
  <1>4. \A i \in NewestRows(rows) : Append(b, c)[f[i]] = b[f[i]]
    BY <1>1 DEF ShownBy
  <1>5. \A i \in NewestRows(rows) : rows[i] \in ShownAs(Append(b, c)[f[i]])
    BY <1>1, <1>4 DEF ShownBy
  <1> QED
    BY <1>1, <1>3, <1>5 DEF Shown, ShownBy

(* One more row is shown by the bubble of the text it was sent as; the     *)
(* oldest of the newest rows may cease to be one of them.                  *)
LEMMA ShownWhenStored ==
    ASSUME NEW rows \in Seq(Row), NEW x \in Row, NEW b \in Seq(Body), NEW c \in Body,
           x \in ShownAs(c), Shown(rows, b)
    PROVE  Shown(Append(rows, x), Append(b, c))
  <1>1. PICK f : ShownBy(f, rows, b)
    BY DEF Shown
  <1> DEFINE more == Append(rows, x)
             g == [i \in NewestRows(more) |-> IF i <= Len(rows) THEN f[i] ELSE Len(b) + 1]
  <1>2. /\ Len(more) = Len(rows) + 1 /\ Len(rows) \in Nat
        /\ Len(Append(b, c)) = Len(b) + 1 /\ Len(b) \in Nat
    OBVIOUS
  <1>3. ASSUME NEW i \in NewestRows(more), i <= Len(rows)
        PROVE  /\ i \in NewestRows(rows) /\ more[i] = rows[i]
               /\ g[i] = f[i] /\ f[i] \in 1..Len(b)
    <2>1. i \in NewestRows(rows) /\ i \in 1..Len(rows)
      BY <1>2, <1>3, ConstantsAssumption DEF NewestRows
    <2> QED
      BY <1>1, <1>3, <2>1 DEF ShownBy
  <1>4. ASSUME NEW i \in NewestRows(more), ~ (i <= Len(rows))
        PROVE  i = Len(rows) + 1 /\ more[i] = x /\ g[i] = Len(b) + 1
    BY <1>2, <1>4 DEF NewestRows
  <1>5. g \in [NewestRows(more) -> 1..Len(Append(b, c))]
    <2>1. ASSUME NEW i \in NewestRows(more)
          PROVE  (IF i <= Len(rows) THEN f[i] ELSE Len(b) + 1) \in 1..Len(Append(b, c))
      BY <1>2, <1>3, <2>1
    <2> QED
      BY <2>1
  <1> HIDE DEF g, more
  <1>6. \A i \in NewestRows(more) : more[i] \in ShownAs(Append(b, c)[g[i]])
    <2> TAKE i \in NewestRows(more)
    <2>1. CASE i <= Len(rows)
      <3>1. Append(b, c)[g[i]] = b[f[i]]
        BY <1>3, <2>1
      <3> QED
        BY <1>1, <1>3, <2>1, <3>1 DEF ShownBy
    <2>2. CASE ~ (i <= Len(rows))
      <3>1. Append(b, c)[g[i]] = c
        BY <1>4, <2>2
      <3> QED
        BY <1>4, <2>2, <3>1
    <2> QED
      BY <2>1, <2>2
  <1>7. ASSUME NEW i \in NewestRows(more), NEW j \in NewestRows(more), i < j
        PROVE  g[i] < g[j]
    <2>1. i \in Int /\ j \in Int /\ j <= Len(rows) + 1
      BY <1>2 DEF NewestRows
    <2>2. i <= Len(rows) /\ g[i] = f[i] /\ f[i] \in 1..Len(b) /\ i \in NewestRows(rows)
      BY <1>2, <1>3, <1>7, <2>1
    <2>3. CASE j <= Len(rows)
      BY <1>1, <1>3, <1>7, <2>2, <2>3 DEF ShownBy
    <2>4. CASE ~ (j <= Len(rows))
      BY <1>2, <1>4, <2>2, <2>4
    <2> QED
      BY <2>3, <2>4
  <1> QED
    BY <1>5, <1>6, <1>7 DEF Shown, ShownBy, more

(* What the page shows while it is complete. *)
CompletePage == complete => intact /\ peer \in Peer /\ Shown(log[peer], bubbles)

LEMMA CompletePageStep == StoreInv /\ CompletePage /\ [Next]_vars => CompletePage'
  <1> SUFFICES ASSUME StoreInv, CompletePage, [Next]_vars, complete'
               PROVE  intact' /\ peer' \in Peer /\ Shown(log'[peer'], bubbles')
    BY DEF CompletePage, Shown, ShownBy, ShownAs, NewestRows
  <1> USE ConstantsAssumption
  <1>1. /\ log \in [Peer -> Seq(Row)] /\ bubbles \in Seq(Body)
        /\ Picture \in Body /\ Text \subseteq Body /\ Text \subseteq Row
    BY DEF StoreInv, TypeOK, Body, Row
  <1>2. (complete /\ intact') \/ \E p \in Peer : Open(p)
    <2>1. complete \/ \E p \in Peer : Open(p)
      BY DEF Next, LaunchWithFile, LaunchCreatesFile, LaunchCannotOpen, CreateTable,
             CreateTableFails, Crash, Back, Edit, ClickSend, PickPicture, Trash, ClosePage,
             page, vars, StoreInv, TypeOK
    <2>2. CASE complete /\ ClickSend
      BY <2>2 DEF ClickSend
    <2>3. CASE complete /\ ~ClickSend
      BY <2>3, LogStep DEF CompletePage
    <2> QED
      BY <2>1, <2>2, <2>3
  <1>3. ASSUME NEW p \in Peer, Open(p)
        PROVE  intact' /\ peer' \in Peer /\ Shown(log'[peer'], bubbles')
    <2>1. /\ peer' = p /\ log' = log /\ bubbles' = Newest(log[p])
          /\ intact' = intact /\ intact
      BY <1>3 DEF Open, Select
    <2> QED
      BY <1>1, <2>1, ShownAtOnce
  <1>4. CASE complete /\ intact' /\ peer' = peer /\ log' = log /\ bubbles' = bubbles
    BY <1>4 DEF CompletePage
  <1>5. CASE complete /\ intact' /\ PickPicture
    <2>1. peer' = peer /\ log' = log /\ bubbles' = Append(bubbles, Picture)
      BY <1>5 DEF PickPicture, ShowBubble, store
    <2>2. peer \in Peer /\ Shown(log[peer], bubbles)
      BY <1>5 DEF CompletePage
    <2> QED
      BY <1>1, <1>5, <2>1, <2>2, ShownStill
  <1>6. CASE complete /\ intact' /\ ClickSend
    <2>1. peer' = peer /\ bubbles' = Append(bubbles, draft)
      BY <1>6 DEF ClickSend, ShowBubble
    <2>2. peer \in Peer /\ Shown(log[peer], bubbles)
      BY <1>6 DEF CompletePage
    <2>3. draft \in Text /\ draft \in Body
      BY <1>1, <1>6 DEF ClickSend, StoreInv, TypeOK, SendMatchesDraft, PageOnlyWhileRunning
    <2>4. CASE log' = log
      BY <1>1, <1>6, <2>1, <2>2, <2>3, <2>4, ShownStill
    <2>5. CASE /\ Stored[draft] \in Text
               /\ log' = [log EXCEPT ![peer] = Append(@, Stored[draft])]
      <3>1. log'[peer'] = Append(log[peer], Stored[draft]) /\ log[peer] \in Seq(Row)
        BY <1>1, <2>1, <2>2, <2>5
      <3>2. Stored[draft] \in Row /\ Stored[draft] \in ShownAs(draft)
        BY <1>1, <2>3, <2>5 DEF ShownAs
      <3>3. Shown(Append(log[peer], Stored[draft]), Append(bubbles, draft))
        BY <1>1, <2>2, <2>3, <3>1, <3>2, ShownWhenStored
      <3> QED
        BY <1>6, <2>1, <2>2, <3>1, <3>3
    <2> QED
      BY <1>6, <2>4, <2>5, LogStep
  <1> QED
    BY <1>2, <1>3, <1>4, <1>5, <1>6
       DEF Next, LaunchWithFile, LaunchCreatesFile, LaunchCannotOpen, CreateTable,
           CreateTableFails, Crash, Back, Edit, Trash, ClosePage, store, page, vars

(* A page whose read met no error and that was not wiped shows what it     *)
(* would show if it were opened again, unless a text has been run as SQL.  *)
THEOREM NothingNewOnReopening == Spec => []ReopenShowsNothingNew
  <1>1. Init => CompletePage
    BY DEF Init, CompletePage
  <1>2. CompletePage => ReopenShowsNothingNew
    BY DEF CompletePage, ReopenShowsNothingNew, Shown, ShownBy
  <1> QED
    BY <1>1, <1>2, CompletePageStep, StoreInvariant, PTL DEF Spec

------------------------------------------------------------------------------
(* Refinement: every step of the store is a step of ChatLog, or none. *)
LEMMA ChatLogInit == Init => ChatDB!InitLog
  BY DEF Init, ChatDB!InitLog

LEMMA ChatLogStep == StoreInv /\ [Next]_vars => [ChatDB!NextLog]_(ChatDB!logVars)
  <1> SUFFICES ASSUME StoreInv, [Next]_vars
               PROVE  ChatDB!NextLog \/ UNCHANGED <<log, peer, bubbles, intact>>
    BY DEF ChatDB!logVars
  <1> USE DEF ChatDB!NextLog
  <1>1. CASE LaunchWithFile \/ LaunchCreatesFile \/ LaunchCannotOpen
    BY <1>1 DEF LaunchWithFile, LaunchCreatesFile, LaunchCannotOpen, page
  <1>2. CASE CreateTable \/ CreateTableFails
    BY <1>2 DEF CreateTable, CreateTableFails, page
  <1>3. CASE Crash \/ Back
    BY <1>3 DEF Crash, Back, ClosePage, store, ChatDB!LeavePage
  <1>4. ASSUME NEW p \in Peer, Open(p)
        PROVE  ChatDB!NextLog
    <2>1. PICK k \in 0..Len(log[p]) : bubbles' = Newest(SubSeq(log[p], 1, k))
      BY <1>4 DEF Open
    <2> DEFINE rows == SubSeq(log[p], 1, k)
    <2>2. rows \in Seq(Row)
      BY PrefixType DEF StoreInv, TypeOK
    <2> HIDE DEF rows
    <2>3. bubbles' \in Seq(Row) /\ ChatDB!ShowsNewest(bubbles', rows)
      BY <2>1, <2>2, NewestType DEF ChatDB!ShowsNewest, rows
    <2>4. bubbles' \in Seq(ChatDB!Row)
      BY <2>3 DEF ChatDB!Row, Row
    <2>5. ChatDB!OpenPage(p)
      BY <1>4, <2>3, <2>4 DEF Open, ChatDB!OpenPage, rows
    <2> QED
      BY <2>5
  <1>5. ASSUME NEW t \in Text \cup {Empty}, Edit(t)
        PROVE  UNCHANGED <<log, peer, bubbles, intact>>
    BY <1>5 DEF Edit, store
  <1>6. CASE ClickSend
    <2>1. peer # NoPeer /\ draft \in Text
      BY <1>6 DEF ClickSend, StoreInv, TypeOK, SendMatchesDraft, PageOnlyWhileRunning
    <2>2. log' \in [Peer -> Seq(ChatDB!Row)]
      BY TypeStep DEF StoreInv, TypeOK, ChatDB!Row, Row
    <2>3. bubbles' = Append(bubbles, draft) /\ peer' = peer
      BY <1>6 DEF ClickSend, ShowBubble
    <2>4. CASE UNCHANGED <<log, intact>>
      BY <2>1, <2>3, <2>4 DEF ChatDB!Post
    <2>5. CASE /\ intact /\ Stored[draft] \in Text
               /\ log' = [log EXCEPT ![peer] = Append(@, Stored[draft])]
               /\ UNCHANGED intact
      BY <2>1, <2>3, <2>5, ConstantsAssumption DEF ChatDB!Post
    <2>6. CASE (Stored[draft] = BadLiteral \/ ~intact) /\ ~intact'
      <3>1. intact' = FALSE
        BY <2>6, TypeStep DEF StoreInv, TypeOK
      <3> QED
        BY <2>1, <2>2, <2>3, <2>6, <3>1 DEF ChatDB!Post
    <2> QED
      BY <2>4, <2>5, <2>6, LogStep
  <1>7. CASE PickPicture
    BY <1>7 DEF PickPicture, ShowBubble, store, ChatDB!ShowPicture
  <1>8. CASE Trash
    BY <1>8 DEF Trash, store, ChatDB!WipePage
  <1>9. CASE UNCHANGED vars
    BY <1>9 DEF vars
  <1> QED
    BY <1>1, <1>2, <1>3, <1>4, <1>5, <1>6, <1>7, <1>8, <1>9 DEF Next

(* ChatStore implements ChatLog. *)
THEOREM Refinement == Spec => ChatLogSpec
  BY ChatLogInit, ChatLogStep, StoreInvariant, PTL DEF Spec, ChatLogSpec, ChatDB!LogSpec
=============================================================================
