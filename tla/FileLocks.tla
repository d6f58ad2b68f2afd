------------------------------- MODULE FileLocks -------------------------------
(***************************************************************************)
(* What the database's file locks promise the layers above them, whatever  *)
(* process a connection lives in: the five levels of the pager's protocol, *)
(* as the comment before pagerLockDb and the one in unixLock describe      *)
(* them.  UnixLocks shows that the POSIX locks of os_unix.c keep it.       *)
(*                                                                         *)
(* A level can go up by one request at a time, and down for no reason the  *)
(* protocol knows of: an unlock, the end of a process.                     *)
(***************************************************************************)
EXTENDS LockLevels

CONSTANTS
    Handles,    \* open files on one database
    Proc        \* the process of each

VARIABLES
    held,      \* the level of each handle
    reserved   \* handles that have had RESERVED on their way to it

vars == <<held, reserved>>

TypeOK ==
    /\ held \in [Handles -> Levels]
    /\ reserved \subseteq Handles

Init ==
    /\ held = [h \in Handles |-> NO_LOCK]
    /\ reserved = {}

(* PENDING keeps new readers out, except from a process that reads already *)
(* and does not wait itself.                                               *)
Share(h) ==
    /\ held[h] = NO_LOCK
    /\ \A o \in Handles :
          /\ held[o] < EXCLUSIVE_LOCK
          /\ held[o] = PENDING_LOCK =>
                /\ Proc[o] # Proc[h]
                /\ \E peer \in Handles : Proc[peer] = Proc[h] /\ held[peer] # NO_LOCK
    /\ held' = [held EXCEPT ![h] = SHARED_LOCK]
    /\ UNCHANGED reserved

Reserve(h) ==
    /\ held[h] = SHARED_LOCK
    /\ reserved = {}
    /\ held' = [held EXCEPT ![h] = RESERVED_LOCK]
    /\ reserved' = {h}

(* From SHARED too: a hot journal is rolled back without RESERVED. *)
Pend(h) ==
    /\ held[h] \in {SHARED_LOCK, RESERVED_LOCK}
    /\ \A o \in Handles : held[o] < PENDING_LOCK
    /\ held' = [held EXCEPT ![h] = PENDING_LOCK]
    /\ UNCHANGED reserved

Exclude(h) ==
    /\ held[h] = PENDING_LOCK
    /\ \A o \in Handles \ {h} : held[o] = NO_LOCK
    /\ held' = [held EXCEPT ![h] = EXCLUSIVE_LOCK]
    /\ UNCHANGED reserved

Downgrade(h) ==
    /\ held[h] > SHARED_LOCK
    /\ held' = [held EXCEPT ![h] = SHARED_LOCK]
    /\ reserved' = reserved \ {h}

(* Handles are closed, one or all those of a process at once. *)
Lose(lost) ==
    /\ held' = [h \in Handles |-> IF h \in lost THEN NO_LOCK ELSE held[h]]
    /\ reserved' = reserved \ lost

Next ==
    \/ \E h \in Handles :
          Share(h) \/ Reserve(h) \/ Pend(h) \/ Exclude(h) \/ Downgrade(h)
    \/ \E lost \in SUBSET Handles : Lose(lost)

Spec == Init /\ [][Next]_vars

------------------------------------------------------------------------------
(* Properties *)

(* Nobody reads what somebody may be writing to the database file, and two *)
(* connections never both prepare a write.                                 *)
ExclusiveMeansAlone ==
    \A h, o \in Handles :
        held[h] = EXCLUSIVE_LOCK /\ o # h => held[o] = NO_LOCK
OneReserves ==
    \A h, o \in Handles :
        held[h] = RESERVED_LOCK /\ held[o] = RESERVED_LOCK => h = o
================================================================================
