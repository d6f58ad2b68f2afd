------------------------------ MODULE ChatStore ------------------------------
(***************************************************************************)
(* The chat page (TwoViewController) on top of the SQLite file it keeps    *)
(* its texts in (DBCommon, DBUtil).                                        *)
(*                                                                         *)
(* Everything runs on the main thread, so a handler is one action.  The    *)
(* one exception is the first launch: sqlite3_open has created an empty    *)
(* file before CREATE TABLE runs, and the process can be killed between    *)
(* the two.  Any SQLite call may fail; the code only logs that.  USER_INFO *)
(* is kept as one sequence of ATTRIBUTION texts per USER_NAME, in rowid    *)
(* order, which is all that is ever read back.                             *)
(*                                                                         *)
(* insertDB pastes the text between apostrophes without escaping it, and   *)
(* sqlite3_exec runs every statement of the result.  A text that ends its  *)
(* literal may thus be run as SQL; what it does then is left open, and so  *)
(* is what later inserts do, since it may have left a trigger behind.      *)
(***************************************************************************)
EXTENDS Integers, Sequences

CONSTANTS Peer, Text, Empty, Picture, NoPeer, BadLiteral, Stored, Window,
          MaxSent,      \* bound: texts sent to each peer
          MaxRows,      \* bound: rows of one peer after a text ran as SQL
          MaxBubbles,   \* bound: bubbles on one page
          MaxPictures   \* bound: picture files in Documents

ASSUME ConstantsAssumption ==
    /\ NoPeer \notin Peer
    /\ Empty \notin Text
    /\ Picture \notin Text \cup {Empty}
    /\ BadLiteral \notin Text
    /\ Stored \in [Text -> Text \cup {BadLiteral}]
    /\ Window \in Nat \ {0}

ASSUME BoundsAssumption ==
    /\ MaxSent \in [Peer -> Nat]
    /\ MaxRows \in Nat /\ MaxBubbles \in Nat /\ MaxPictures \in Nat

VARIABLES
    phase,       \* "dead", "creating" (between open and CREATE TABLE), "running"
    file,        \* test.db exists in Documents
    table,       \* it has a USER_INFO
    log,         \* its rows, per peer
    pictures,    \* number of www-<date>.png files in Documents
    peer,        \* the peer whose page is open, or NoPeer
    bubbles,     \* the cells of the page's scroll view
    draft,       \* the text view
    sendEnabled, \* the Send button
    sent,        \* history: what the user sent to each peer, stored or not
    faulted,     \* history: a SQLite call failed, a text was no literal, or
                 \*          the process died while creating the file
    intact,      \* history: no text has been run as SQL
    complete     \* history: no error ended the read of the open page, it has
                 \*          not been wiped since, and intact

ChatDB == INSTANCE ChatLog

store == <<phase, file, table, log, intact>>
page  == <<peer, bubbles, draft, sendEnabled, complete>>
vars  == <<phase, file, table, log, pictures, peer, bubbles, draft,
           sendEnabled, sent, faulted, intact, complete>>

Row  == Text \cup {Empty}     \* what an ATTRIBUTION can be
Body == Row \cup {Picture}

TypeOK ==
    /\ phase \in {"dead", "creating", "running"}
    /\ file \in BOOLEAN
    /\ table \in BOOLEAN
    /\ log \in [Peer -> Seq(Row)]
    /\ pictures \in Nat
    /\ peer \in Peer \cup {NoPeer}
    /\ bubbles \in Seq(Body)
    /\ draft \in Text \cup {Empty}
    /\ sendEnabled \in BOOLEAN
    /\ sent \in [Peer -> Seq(Text)]
    /\ faulted \in BOOLEAN
    /\ intact \in BOOLEAN
    /\ complete \in BOOLEAN

Init ==
    /\ phase = "dead"
    /\ file = FALSE
    /\ table = FALSE
    /\ log = [p \in Peer |-> <<>>]
    /\ pictures = 0
    /\ peer = NoPeer
    /\ bubbles = <<>>
    /\ draft = Empty
    /\ sendEnabled = FALSE
    /\ sent = [p \in Peer |-> <<>>]
    /\ faulted = FALSE
    /\ intact = TRUE
    /\ complete = FALSE

------------------------------------------------------------------------------
(* Launch: +[DBCommon shared] creates the file and its table only when no  *)
(* file is there, and at most once per launch.                             *)

(* Mutants: an existing file is recreated, or gets the table it lacks. *)
LaunchRecreates ==
    /\ phase = "dead"
    /\ phase' = "running"
    /\ file' = TRUE
    /\ table' = TRUE
    /\ log' = [p \in Peer |-> <<>>]
    /\ UNCHANGED <<pictures, page, sent, faulted, intact>>

LaunchRepairs ==
    /\ phase = "dead"
    /\ file
    /\ phase' = "running"
    /\ table' = TRUE
    /\ UNCHANGED <<file, log, pictures, page, sent, faulted, intact>>

LaunchWithFile ==
    /\ phase = "dead"
    /\ file
    /\ phase' = "running"
    /\ UNCHANGED <<file, table, log, pictures, page, sent, faulted, intact>>

LaunchCreatesFile ==
    /\ phase = "dead"
    /\ ~file
    /\ phase' = "creating"
    /\ file' = TRUE
    /\ UNCHANGED <<table, log, pictures, page, sent, faulted, intact>>

LaunchCannotOpen ==
    /\ phase = "dead"
    /\ ~file
    /\ phase' = "running"
    /\ faulted' = TRUE
    /\ UNCHANGED <<file, table, log, pictures, page, sent, intact>>

CreateTable ==
    /\ phase = "creating"
    /\ phase' = "running"
    /\ table' = TRUE
    /\ UNCHANGED <<file, log, pictures, page, sent, faulted, intact>>

CreateTableFails ==
    /\ phase = "creating"
    /\ phase' = "running"
    /\ faulted' = TRUE
    /\ UNCHANGED <<file, table, log, pictures, page, sent, intact>>

------------------------------------------------------------------------------
ClosePage ==
    /\ peer' = NoPeer
    /\ bubbles' = <<>>
    /\ draft' = Empty
    /\ sendEnabled' = FALSE
    /\ complete' = FALSE

(* The process dies: Documents survives, the screen does not. *)
Crash ==
    /\ phase # "dead"
    /\ phase' = "dead"
    /\ faulted' = (faulted \/ phase = "creating")
    /\ ClosePage
    /\ UNCHANGED <<file, table, log, pictures, sent, intact>>

(* selectDB: an open that fails reads nothing, one that succeeds creates   *)
(* the file if it is missing.  The loop ends when there is no further row, *)
(* and just the same when a step fails.                                    *)
Select(p, rows) ==
    \/ /\ rows = log[p]
       /\ file' = TRUE
       /\ complete' = intact
    \/ /\ \E k \in 0..Len(log[p]) : rows = SubSeq(log[p], 1, k)
       /\ file' = TRUE
       /\ complete' = FALSE
    \/ /\ rows = <<>>
       /\ UNCHANGED file
       /\ complete' = FALSE

(* Mutants: the loop starts one row late, or is taken one row too far. *)
NewestButOne(rows) ==
    IF Len(rows) <= Window
      THEN rows
      ELSE [i \in 1..Window - 1 |-> rows[Len(rows) - Window + 1 + i]]

NewestAndOne(rows) ==
    IF Len(rows) <= Window + 1
      THEN rows
      ELSE [i \in 1..Window + 1 |-> rows[Len(rows) - Window - 1 + i]]

(* initScrollView: up to Window rows are all shown, of more than Window    *)
(* the loop takes those from the index count - Window on.                  *)
Newest(rows) ==
    IF Len(rows) <= Window
      THEN rows
      ELSE [i \in 1..Window |-> rows[Len(rows) - Window + i]]

(* viewDidLoad: an empty text view, a disabled button, the newest rows. *)
Open(p) ==
    /\ phase = "running"
    /\ peer = NoPeer
    /\ peer' = p
    /\ \E k \in 0..Len(log[p]) :
          LET rows == SubSeq(log[p], 1, k)
          IN  /\ Select(p, rows)
              /\ bubbles' = Newest(rows)
    /\ draft' = Empty
    /\ sendEnabled' = FALSE
    /\ UNCHANGED <<phase, table, log, pictures, sent, faulted, intact>>

Back ==
    /\ peer # NoPeer
    /\ ClosePage
    /\ UNCHANGED <<store, pictures, sent, faulted>>

(* textViewDidChange: the user has edited the text into t. *)
Edit(t) ==
    /\ peer # NoPeer
    /\ draft' = t
    /\ sendEnabled' = (t # Empty)
    /\ UNCHANGED <<store, pictures, peer, bubbles, sent, faulted, complete>>

(* Mutant: the button keeps its state. *)
ShowBubbleKeepsButton(b) ==
    /\ bubbles' = Append(bubbles, b)
    /\ draft' = Empty
    /\ UNCHANGED <<peer, sendEnabled>>

(* sendMessage: one more bubble; the text view is cleared, whatever it held. *)
ShowBubble(b) ==
    /\ bubbles' = Append(bubbles, b)
    /\ draft' = Empty
    /\ sendEnabled' = FALSE
    /\ UNCHANGED peer

(* Mutants: a text already stored is skipped; a row is inserted twice. *)
InsertDistinct(p, t) ==
    /\ file' = TRUE
    /\ table
    /\ Stored[t] # BadLiteral
    /\ log' = IF \E i \in 1..Len(log[p]) : log[p][i] = Stored[t]
                THEN log ELSE [log EXCEPT ![p] = Append(@, Stored[t])]
    /\ UNCHANGED <<table, faulted, intact>>

InsertTwice(p, t) ==
    /\ file' = TRUE
    /\ table
    /\ Stored[t] # BadLiteral
    /\ log' = [log EXCEPT ![p] = @ \o <<Stored[t], Stored[t]>>]
    /\ UNCHANGED <<table, faulted, intact>>

(* The open failed, or SQLite reported an error and nothing was changed. *)
InsertFails ==
    /\ UNCHANGED file \/ file' = TRUE
    /\ faulted' = TRUE
    /\ UNCHANGED <<table, log, intact>>

(* The statement is the one that was meant: one row more. *)
InsertRow(p, t) ==
    /\ table
    /\ intact
    /\ Stored[t] # BadLiteral
    /\ file' = TRUE
    /\ log' = [log EXCEPT ![p] = Append(@, Stored[t])]
    /\ UNCHANGED <<table, faulted, intact>>

(* The statements are others than the one that was meant, or do something  *)
(* else than they were meant to, and SQLite need not report an error: rows *)
(* may have come and gone, under any peer, or USER_INFO itself.  A row of  *)
(* theirs may hold NULL, of which selectDB makes an exception: the page is *)
(* opened, and the process dies (Crash).                                   *)
InsertRunsText(t) ==
    /\ table
    /\ Stored[t] = BadLiteral \/ ~intact
    /\ file' = TRUE
    /\ faulted' = TRUE
    /\ intact' = FALSE
    /\ table' \in BOOLEAN
    /\ log' \in [Peer -> UNION {[1..n -> Row] : n \in 0..MaxRows}]
    /\ ~table' => \A p \in Peer : log'[p] = <<>>

(* insertDB.  Without the table the first statement, which is always the   *)
(* insert, is not even prepared, and sqlite3_exec goes no further.         *)
Insert(p, t) ==
    \/ InsertFails
    \/ InsertRow(p, t)
    \/ InsertRunsText(t)

ClickSend ==
    /\ sendEnabled
    /\ Len(sent[peer]) < MaxSent[peer]
    /\ Len(bubbles) < MaxBubbles
    /\ Insert(peer, draft)
    /\ ShowBubble(draft)
    /\ sent' = [sent EXCEPT ![peer] = Append(@, draft)]
    /\ complete' = (complete /\ intact')
    /\ UNCHANGED <<phase, pictures>>

(* imagePickerController:didFinish...: the bubble comes first, then the    *)
(* file, whose write may fail unnoticed; no row is written.                *)
PickPicture ==
    /\ peer # NoPeer
    /\ Len(bubbles) < MaxBubbles
    /\ pictures < MaxPictures
    /\ ShowBubble(Picture)
    /\ pictures' \in {pictures, pictures + 1}
    /\ UNCHANGED <<store, sent, faulted, complete>>

(* clickRightDelete: the bubbles go, the rows stay. *)
Trash ==
    /\ peer # NoPeer
    /\ bubbles' = <<>>
    /\ complete' = FALSE
    /\ UNCHANGED <<store, pictures, peer, draft, sendEnabled, sent, faulted>>

Next ==
    \/ LaunchWithFile
    \/ LaunchCreatesFile
    \/ LaunchCannotOpen
    \/ CreateTable
    \/ CreateTableFails
    \/ Crash
    \/ \E p \in Peer : Open(p)
    \/ Back
    \/ \E t \in Text \cup {Empty} : Edit(t)
    \/ ClickSend
    \/ PickPicture
    \/ Trash

Spec == Init /\ [][Next]_vars

------------------------------------------------------------------------------
(* Properties *)

(* What '<t>' comes back as, for every text of a sequence. *)
StoredForm(s) == [i \in 1..Len(s) |-> Stored[s[i]]]

(* If no SQLite call failed, every text was a literal and no launch was    *)
(* cut short, then the store holds exactly what the user sent, in order    *)
(* (clickSend -> insertUserInfo -> insertDB, across any restarts).         *)
NothingLost == ~faulted => \A p \in Peer : log[p] = StoredForm(sent[p])

(* s is obtained from t by dropping elements. *)
IsSubsequence(s, t) ==
    \E f \in [1..Len(s) -> 1..Len(t)] :
        /\ \A i \in 1..Len(s) : s[i] = t[f[i]]
        /\ \A i, j \in 1..Len(s) : i < j => f[i] < f[j]

(* Whatever calls failed and whenever the process died, as long as no text *)
(* has been run as SQL the store never holds a text twice, out of order or *)
(* under another peer: each log is what was sent with some texts missing   *)
(* (insertDB pastes the text it is given, DBCommon.m:159-168).             *)
NothingInvented ==
    intact => \A p \in Peer : IsSubsequence(log[p], StoredForm(sent[p]))

(* The same body, or the text a body is stored as. *)
ShownAs(b) == IF b \in Text THEN {b, Stored[b]} ELSE {b}

(* The positions of the newest rows, those a page has room for. *)
NewestRows(rows) == {i \in 1..Len(rows) : Len(rows) - i < Window}

(* As long as no error cut the read of a page short, it was not wiped and  *)
(* no text has been run as SQL, closing and opening it again would show    *)
(* nothing new: each of the newest rows is on screen, in the same order    *)
(* (initScrollView and its window against clickSend and sendMessage).      *)
ReopenShowsNothingNew ==
    complete =>
        \E f \in [NewestRows(log[peer]) -> 1..Len(bubbles)] :
            /\ \A i \in NewestRows(log[peer]) : log[peer][i] \in ShownAs(bubbles[f[i]])
            /\ \A i, j \in NewestRows(log[peer]) : i < j => f[i] < f[j]

(* The Send button is enabled exactly while there is something to send:    *)
(* every programmatic change of the text view resets the button too.       *)
SendMatchesDraft == sendEnabled <=> draft # Empty

(* What is in Documents stays there: no step, a crash included, removes    *)
(* the file or a picture; and none but sending a text that is run as SQL,  *)
(* or sending anything after one, removes the table or a row or changes a  *)
(* row already stored.                                                     *)
DurableOnlyGrows ==
    [][ /\ file => file'
        /\ pictures <= pictures'
        /\ intact' => /\ table => table'
                      /\ \A p \in Peer : /\ Len(log[p]) <= Len(log'[p])
                                         /\ SubSeq(log'[p], 1, Len(log[p])) = log[p] ]_vars

(* A file without its table, left by a first launch that failed or by a    *)
(* text that was run as SQL, is never repaired: every later launch finds   *)
(* the file and creates nothing, and no text is ever stored or run again.  *)
TablelessForever ==
    [][ file /\ ~table /\ phase # "creating"
            => ~table' /\ \A p \in Peer : log'[p] = <<>> ]_vars

(* Without a fault an application that started has its file, and a file    *)
(* has its table whenever nobody is about to create it, although only the  *)
(* launch that creates the file ever creates the table                     *)
(* (createDatabaseAndTables).                                              *)
HealthyStoreHasTable ==
    /\ ~faulted /\ phase # "dead" => file
    /\ ~faulted /\ file /\ phase # "creating" => table

(* The inductive invariant that NothingLost rests on: a page is only ever  *)
(* open in a running process, so whatever is sent meets the table that     *)
(* HealthyStoreHasTable promises; rows need a table to be in.              *)
PageOnlyWhileRunning ==
    /\ peer # NoPeer => phase = "running"
    /\ sendEnabled => peer # NoPeer

RowsNeedTable == ~table => \A p \in Peer : log[p] = <<>>

(* A text that was run as SQL counts as a fault.                           *)
IntactWhileFaultless == ~faulted => intact

StoreInv ==
    /\ TypeOK
    /\ NothingLost
    /\ HealthyStoreHasTable
    /\ SendMatchesDraft
    /\ PageOnlyWhileRunning
    /\ RowsNeedTable
    /\ IntactWhileFaultless

(* The pages and rows behave as ChatLog says: an append-only log as long   *)
(* as no text has been run as SQL, a page that opens on a window of it.    *)
ChatLogSpec == ChatDB!LogSpec
==============================================================================
