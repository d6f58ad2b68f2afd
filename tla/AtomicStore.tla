------------------------------ MODULE AtomicStore ------------------------------
(***************************************************************************)
(* What the pager promises to the layers above it: the database is one     *)
(* image that transactions replace as a whole.  A reader sees one image    *)
(* for as long as it reads, no commit overtakes a reader, and a power loss *)
(* leaves the last image, or the one before while that commit is still at  *)
(* risk, never a mixture.                                                  *)
(***************************************************************************)
CONSTANTS
    Conns,     \* connections
    Images,    \* what the database can hold
    NotReading

VARIABLES
    image,     \* the database
    risk,      \* the images that a power loss may leave
    snapshot   \* what each connection reads

vars == <<image, risk, snapshot>>

TypeOK ==
    /\ image \in Images
    /\ risk \subseteq Images
    /\ snapshot \in [Conns -> Images \cup {NotReading}]

Init ==
    /\ image \in Images
    /\ risk = {image}
    /\ snapshot = [c \in Conns |-> NotReading]

Begin(c) ==
    /\ snapshot[c] = NotReading
    /\ snapshot' = [snapshot EXCEPT ![c] = image]
    /\ UNCHANGED <<image, risk>>

(* Also the end of a connection. *)
End(c) ==
    /\ snapshot[c] # NotReading
    /\ snapshot' = [snapshot EXCEPT ![c] = NotReading]
    /\ UNCHANGED <<image, risk>>

Commit(c) ==
    /\ snapshot[c] = image
    /\ \A o \in Conns \ {c} : snapshot[o] = NotReading
    /\ image' \in Images
    /\ risk' \in {{image'}, {image, image'}}
    /\ snapshot' \in {[snapshot EXCEPT ![c] = s] : s \in {image', NotReading}}

(* The last commit is out of danger, if it is not already. *)
Settle ==
    /\ UNCHANGED <<image, snapshot>>
    /\ image \in risk'
    /\ risk' \subseteq risk

PowerLoss ==
    /\ snapshot' = [c \in Conns |-> NotReading]
    /\ image' \in risk
    /\ risk' = {image'}

Next ==
    \/ Settle
    \/ \E c \in Conns : Begin(c) \/ End(c) \/ Commit(c)
    \/ PowerLoss

Spec == Init /\ [][Next]_vars

------------------------------------------------------------------------------
(* Properties *)

(* Whoever reads, reads the database as it is. *)
ReadersAreCurrent ==
    \A c \in Conns : snapshot[c] \in {image, NotReading}
================================================================================
