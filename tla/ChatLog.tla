------------------------------- MODULE ChatLog -------------------------------
(***************************************************************************)
(* What the chat of the application promises, without files, SQL, drafts   *)
(* or launches: one durable log of texts per peer that only ever grows at  *)
(* its end, and one page that opens on the newest Window texts of a log    *)
(* and then shows whatever the user adds to it.  A text may fail to reach  *)
(* the log (the store reports nothing to the user), and a read may stop    *)
(* early.  The promise has one condition: the store pastes a text into the *)
(* statement that stores it, so a text that is no literal may be run as a  *)
(* part of the statement.  Once that has happened (~intact) the logs are   *)
(* whatever it, or what it left in the database, made of them.             *)
(***************************************************************************)
EXTENDS Integers, Sequences

CONSTANTS
    Peer,       \* the rows of the contact list, one conversation each
    Text,       \* what the user can type and what a row can hold
    Empty,      \* the empty text
    Picture,    \* a bubble that holds a picture
    NoPeer,     \* no conversation is open
    BadLiteral, \* the text ends the SQL literal it is pasted into
    Stored,     \* Stored[t]: what '<t>' denotes in SQL, or BadLiteral
    Window      \* how many rows a page loads when it opens (10 in the code)

VARIABLES
    log,        \* log[p]: the texts stored for p, oldest first
    peer,       \* the peer whose page is open, or NoPeer
    bubbles,    \* what the page shows, top to bottom
    intact      \* no text has been run as SQL so far

logVars == <<log, peer, bubbles, intact>>

(* A row holds what was stored in it, be it nothing. *)
Row == Text \cup {Empty}

(* What a page shows when it has read rows: the newest ones, Window of     *)
(* them if there are that many, each as far from the end as it is in rows. *)
ShowsNewest(shown, rows) ==
    /\ Len(shown) = IF Len(rows) < Window THEN Len(rows) ELSE Window
    /\ \A i \in 1..Len(shown) : shown[i] = rows[Len(rows) - Len(shown) + i]

InitLog ==
    /\ log = [p \in Peer |-> <<>>]
    /\ peer = NoPeer
    /\ bubbles = <<>>
    /\ intact = TRUE

OpenPage(p) ==
    /\ peer = NoPeer
    /\ peer' = p
    /\ bubbles' \in Seq(Row)
    /\ \E k \in 0..Len(log[p]) : ShowsNewest(bubbles', SubSeq(log[p], 1, k))
    /\ UNCHANGED <<log, intact>>

Post(t) ==
    /\ peer # NoPeer
    /\ bubbles' = Append(bubbles, t)
    /\ \/ UNCHANGED <<log, intact>>
       \/ /\ intact
          /\ Stored[t] # BadLiteral
          /\ log' = [log EXCEPT ![peer] = Append(@, Stored[t])]
          /\ UNCHANGED intact
       \/ /\ Stored[t] = BadLiteral \/ ~intact
          /\ log' \in [Peer -> Seq(Row)]
          /\ intact' = FALSE
    /\ UNCHANGED peer

ShowPicture ==
    /\ peer # NoPeer
    /\ bubbles' = Append(bubbles, Picture)
    /\ UNCHANGED <<log, peer, intact>>

WipePage ==
    /\ bubbles' = <<>>
    /\ UNCHANGED <<log, peer, intact>>

LeavePage ==
    /\ bubbles' = <<>>
    /\ peer' = NoPeer
    /\ UNCHANGED <<log, intact>>

NextLog ==
    \/ \E p \in Peer : OpenPage(p)
    \/ \E t \in Text : Post(t)
    \/ ShowPicture
    \/ WipePage
    \/ LeavePage

LogSpec == InitLog /\ [][NextLog]_logVars
==============================================================================
