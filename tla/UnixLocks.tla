------------------------------- MODULE UnixLocks -------------------------------
(***************************************************************************)
(* The file locks of os_unix.c, under the connections to one database.     *)
(* The kernel's POSIX locks belong to a process, not to an open file:      *)
(* several connections of a process share one set of locks, which the      *)
(* process counts in its unixInodeInfo, and closing any descriptor of the  *)
(* file drops them all, so that a close is deferred while any is held.     *)
(*                                                                         *)
(* The unixEnterMutex mutex lets one call at a time through in a process;  *)
(* between two fcntl calls of it the other processes run.  An action is    *)
(* one fcntl call and the assignments after it.                            *)
(***************************************************************************)
EXTENDS LockLevels, FiniteSets

CONSTANTS
    Procs,       \* processes
    Handles,     \* unixFile objects that may be opened on the database
    Proc,        \* the process of each
    Idle,        \* no call holds the mutex
    MayLack      \* fcntl may fail to set a lock that nothing conflicts with

Stages == {"pending", "reserved", "range", "shared", "busy",
           "downgrade", "release", "count"}
Calls  == [h : Handles, want : Levels, at : Stages]

ASSUME LocksAssumption ==
    /\ IsFiniteSet(Handles)
    /\ Proc \in [Handles -> Procs]
    /\ Idle \notin Calls
    /\ MayLack \in BOOLEAN

VARIABLES
    open,       \* handles that are open
    eFileLock,  \* of each unixFile
    inode,      \* unixInodeInfo of each process: [eFileLock, nShared, nLock]
    unused,     \* descriptors on its pUnused list
    call,       \* the call that holds the mutex: [h, want, at]
    sys         \* the kernel's locks of each process, by range of bytes

vars == <<open, eFileLock, inode, unused, call, sys>>

Mine(p)     == {h \in Handles : Proc[h] = p}
MyInode(h)  == inode[Proc[h]]
LockTypes   == {"none", "read", "write"}
Unlocked    == [pending |-> "none", reserved |-> "none", range |-> "none"]
FreshInode  == [eFileLock |-> NO_LOCK, nShared |-> 0, nLock |-> 0]
(* One handle more, or less, holds a lock. *)
Counted(i, d) == [eFileLock |-> i.eFileLock, nShared |-> i.nShared + d, nLock |-> i.nLock + d]

TypeOK ==
    /\ open \subseteq Handles
    /\ eFileLock \in [Handles -> Levels]
    /\ inode \in [Procs -> [eFileLock : Levels, nShared : Nat, nLock : Nat]]
    /\ unused \in [Procs -> Nat]
    /\ call \in [Procs -> Calls \cup {Idle}]
    /\ \A p \in Procs : call[p] # Idle => call[p].h \in Mine(p)
    /\ sys \in [Procs -> [pending : LockTypes, reserved : LockTypes, range : LockTypes]]

Init ==
    /\ open = {}
    /\ eFileLock = [h \in Handles |-> NO_LOCK]
    /\ inode = [p \in Procs |-> FreshInode]
    /\ unused = [p \in Procs |-> 0]
    /\ call = [p \in Procs |-> Idle]
    /\ sys = [p \in Procs |-> Unlocked]

------------------------------------------------------------------------------
(* The kernel *)

(* fcntl(F_SETLK) of process p would not meet a lock of another one. *)
Grantable(p, range, type) ==
    \A q \in Procs \ {p} :
        IF type = "write" THEN sys[q][range] = "none" ELSE sys[q][range] # "write"

Refusable(p, range, type) == MayLack \/ ~Grantable(p, range, type)

Granted(p, range, type) ==
    /\ Grantable(p, range, type)
    /\ sys' = [sys EXCEPT ![p][range] = type]

------------------------------------------------------------------------------
(* unixLock *)

(* The pager asks for levels in this order only. *)
Legal(h, want) ==
    /\ eFileLock[h] < want
    /\ want \in {SHARED_LOCK, RESERVED_LOCK, EXCLUSIVE_LOCK}
    /\ eFileLock[h] = NO_LOCK => want = SHARED_LOCK
    /\ want = RESERVED_LOCK => eFileLock[h] = SHARED_LOCK

(* Another connection of the process precludes the request: BUSY. *)
Precluded(h, want) ==
    /\ eFileLock[h] # MyInode(h).eFileLock
    /\ MyInode(h).eFileLock >= PENDING_LOCK \/ want > SHARED_LOCK

(* A process that reads already needs no other lock to read once more. *)
JoinReaders(h) ==
    /\ h \in open /\ call[Proc[h]] = Idle
    /\ eFileLock[h] = NO_LOCK
    /\ MyInode(h).eFileLock \in {SHARED_LOCK, RESERVED_LOCK}
    /\ eFileLock' = [eFileLock EXCEPT ![h] = SHARED_LOCK]
    /\ inode' = [inode EXCEPT ![Proc[h]] = Counted(@, 1)]
    /\ UNCHANGED <<open, unused, call, sys>>

(* Mutant: other connections of the process are not looked at. *)
LockUnchecked(h, want) ==
    /\ h \in open /\ call[Proc[h]] = Idle
    /\ Legal(h, want)
    /\ want = SHARED_LOCK => MyInode(h).eFileLock \notin {SHARED_LOCK, RESERVED_LOCK}
    /\ call' = [call EXCEPT ![Proc[h]] =
                   [h |-> h, want |-> want,
                    at |-> IF want = RESERVED_LOCK THEN "reserved"
                           ELSE IF eFileLock[h] = PENDING_LOCK THEN "range"
                           ELSE "pending"]]
    /\ UNCHANGED <<open, eFileLock, inode, unused, sys>>

(* A request that takes system calls, up to the first of them; the others  *)
(* return BUSY and change nothing.                                         *)
Lock(h, want) ==
    /\ h \in open /\ call[Proc[h]] = Idle
    /\ Legal(h, want)
    /\ ~Precluded(h, want)
    /\ eFileLock[h] = PENDING_LOCK => MyInode(h).nShared = 1
    /\ want = SHARED_LOCK => MyInode(h).eFileLock \notin {SHARED_LOCK, RESERVED_LOCK}
    /\ call' = [call EXCEPT ![Proc[h]] =
                   [h |-> h, want |-> want,
                    at |-> IF want = RESERVED_LOCK THEN "reserved"
                           ELSE IF eFileLock[h] = PENDING_LOCK THEN "range"
                           ELSE "pending"]]
    /\ UNCHANGED <<open, eFileLock, inode, unused, sys>>

Goto(p, at) == call' = [call EXCEPT ![p].at = at]
Return(p)   == call' = [call EXCEPT ![p] = Idle]

(* The end of unixLock: both levels get the one that was reached. *)
Reached(p, level) ==
    /\ eFileLock' = [eFileLock EXCEPT ![call[p].h] = level]
    /\ inode' = [inode EXCEPT ![p].eFileLock = level]
    /\ Return(p)

(* Mutant: SHARED does not ask for the pending byte. *)
LockPendingByteExclusiveOnly(p) ==
    /\ call[p] # Idle /\ call[p].at = "pending"
    /\ \/ /\ call[p].want = SHARED_LOCK
          /\ Goto(p, "range")
          /\ UNCHANGED <<open, eFileLock, inode, unused, sys>>
       \/ /\ call[p].want = EXCLUSIVE_LOCK
          /\ Granted(p, "pending", "write")
          /\ Goto(p, "range")
          /\ UNCHANGED <<open, eFileLock, inode, unused>>

(* The pending byte: on the way to SHARED and to EXCLUSIVE. *)
LockPendingByte(p) ==
    /\ call[p] # Idle /\ call[p].at = "pending"
    /\ LET type == IF call[p].want = SHARED_LOCK THEN "read" ELSE "write"
       IN  \/ /\ Granted(p, "pending", type)
              /\ IF call[p].want = EXCLUSIVE_LOCK /\ inode[p].nShared > 1
                   THEN Reached(p, PENDING_LOCK)
                   ELSE Goto(p, "range") /\ UNCHANGED <<eFileLock, inode>>
           \/ /\ Refusable(p, "pending", type)
              /\ Return(p)
              /\ UNCHANGED <<eFileLock, inode, sys>>
    /\ UNCHANGED <<open, unused>>

(* The shared range, read on the way to SHARED, written for EXCLUSIVE. *)
LockRange(p) ==
    /\ call[p] # Idle /\ call[p].at = "range"
    /\ LET type == IF call[p].want = SHARED_LOCK THEN "read" ELSE "write"
       IN  \/ /\ Granted(p, "range", type)
              /\ IF call[p].want = SHARED_LOCK
                   THEN Goto(p, "shared") /\ UNCHANGED <<eFileLock, inode>>
                   ELSE Reached(p, EXCLUSIVE_LOCK)
           \/ /\ Refusable(p, "range", type)
              /\ IF call[p].want = SHARED_LOCK
                   THEN Goto(p, "busy") /\ UNCHANGED <<eFileLock, inode>>
                   ELSE Reached(p, PENDING_LOCK)
              /\ UNCHANGED sys
    /\ UNCHANGED <<open, unused>>

(* SHARED gives the pending byte back, with or without the shared range. *)
DropPendingByte(p) ==
    /\ call[p] # Idle /\ call[p].at \in {"shared", "busy"}
    /\ sys' = [sys EXCEPT ![p].pending = "none"]
    /\ IF call[p].at = "shared"
         THEN /\ eFileLock' = [eFileLock EXCEPT ![call[p].h] = SHARED_LOCK]
              /\ inode' = [inode EXCEPT ![p] = [eFileLock |-> SHARED_LOCK,
                                                nShared |-> 1, nLock |-> @.nLock + 1]]
         ELSE UNCHANGED <<eFileLock, inode>>
    /\ Return(p)
    /\ UNCHANGED <<open, unused>>

LockReservedByte(p) ==
    /\ call[p] # Idle /\ call[p].at = "reserved"
    /\ \/ Granted(p, "reserved", "write") /\ Reached(p, RESERVED_LOCK)
       \/ /\ Refusable(p, "reserved", "write")
          /\ Return(p)
          /\ UNCHANGED <<eFileLock, inode, sys>>
    /\ UNCHANGED <<open, unused>>

------------------------------------------------------------------------------
(* posixUnlock, unixClose, unixOpen *)

Unlock(h, want) ==
    /\ h \in open /\ call[Proc[h]] = Idle
    /\ want \in {NO_LOCK, SHARED_LOCK}
    /\ eFileLock[h] > want
    /\ call' = [call EXCEPT ![Proc[h]] =
                   [h |-> h, want |-> want,
                    at |-> IF eFileLock[h] = SHARED_LOCK THEN "count"
                           ELSE IF want = SHARED_LOCK THEN "downgrade"
                           ELSE "release"]]
    /\ UNCHANGED <<open, eFileLock, inode, unused, sys>>

(* The range becomes a read lock before the other two are given back. *)
DowngradeRange(p) ==
    /\ call[p] # Idle /\ call[p].at = "downgrade"
    /\ \/ Granted(p, "range", "read") /\ Goto(p, "release")
       \/ Refusable(p, "range", "read") /\ Return(p) /\ UNCHANGED sys
    /\ UNCHANGED <<open, eFileLock, inode, unused>>

ReleaseBytes(p) ==
    /\ call[p] # Idle /\ call[p].at = "release"
    /\ sys' = [sys EXCEPT ![p].pending = "none", ![p].reserved = "none"]
    /\ inode' = [inode EXCEPT ![p].eFileLock = SHARED_LOCK]
    /\ IF call[p].want = SHARED_LOCK
         THEN eFileLock' = [eFileLock EXCEPT ![call[p].h] = SHARED_LOCK] /\ Return(p)
         ELSE Goto(p, "count") /\ UNCHANGED eFileLock
    /\ UNCHANGED <<open, unused>>

(* Mutant: the lock goes with the first reader that leaves. *)
CountDownAtOnce(p) ==
    /\ call[p] # Idle /\ call[p].at = "count"
    /\ inode' = [inode EXCEPT ![p] = Counted(@, -1)]
    /\ sys' = [sys EXCEPT ![p] = Unlocked]
    /\ unused' = IF inode'[p].nLock = 0 THEN [unused EXCEPT ![p] = 0] ELSE unused
    /\ eFileLock' = [eFileLock EXCEPT ![call[p].h] = NO_LOCK]
    /\ Return(p)
    /\ UNCHANGED open

(* The last lock of the process goes, and with it the descriptors whose    *)
(* close was deferred.                                                     *)
CountDown(p) ==
    /\ call[p] # Idle /\ call[p].at = "count"
    /\ LET last == inode[p].nShared = 1
           left == Counted(inode[p], -1)
       IN  /\ inode' = [inode EXCEPT ![p] = IF last THEN [left EXCEPT !.eFileLock = NO_LOCK]
                                                  ELSE left]
           /\ sys' = IF last THEN [sys EXCEPT ![p] = Unlocked] ELSE sys
    /\ unused' = IF inode'[p].nLock = 0 THEN [unused EXCEPT ![p] = 0] ELSE unused
    /\ eFileLock' = [eFileLock EXCEPT ![call[p].h] = NO_LOCK]
    /\ Return(p)
    /\ UNCHANGED open

(* Mutant: the descriptor is closed at once. *)
UnixCloseAtOnce(h) ==
    /\ h \in open /\ call[Proc[h]] = Idle
    /\ eFileLock[h] = NO_LOCK
    /\ open' = open \ {h}
    /\ sys' = [sys EXCEPT ![Proc[h]] = Unlocked]
    /\ UNCHANGED <<eFileLock, inode, unused, call>>

(* unixClose once its unixUnlock is over: close() would drop every lock of *)
(* the process, so a descriptor waits on pUnused while there is one; the   *)
(* last handle frees the unixInodeInfo.                                    *)
UnixClose(h) ==
    /\ h \in open /\ call[Proc[h]] = Idle
    /\ eFileLock[h] = NO_LOCK
    /\ open' = open \ {h}
    /\ LET p == Proc[h] IN
          IF inode[p].nLock > 0
            THEN unused' = [unused EXCEPT ![p] = @ + 1] /\ UNCHANGED sys
            ELSE /\ sys' = [sys EXCEPT ![p] = Unlocked]
                 /\ unused' = IF open' \cap Mine(p) = {}
                                THEN [unused EXCEPT ![p] = 0] ELSE unused
    /\ UNCHANGED <<eFileLock, inode, call>>

(* unixOpen takes a descriptor of the pUnused list if there is one. *)
UnixOpen(h) ==
    /\ h \notin open /\ call[Proc[h]] = Idle
    /\ open' = open \cup {h}
    /\ unused' = [unused EXCEPT ![Proc[h]] = IF @ > 0 THEN @ - 1 ELSE 0]
    /\ UNCHANGED <<eFileLock, inode, call, sys>>

(* A process ends, and the kernel drops its locks. *)
Crash(p) ==
    /\ open \cap Mine(p) # {}
    /\ open' = open \ Mine(p)
    /\ eFileLock' = [h \in Handles |-> IF h \in Mine(p) THEN NO_LOCK ELSE eFileLock[h]]
    /\ inode' = [inode EXCEPT ![p] = FreshInode]
    /\ unused' = [unused EXCEPT ![p] = 0]
    /\ call' = [call EXCEPT ![p] = Idle]
    /\ sys' = [sys EXCEPT ![p] = Unlocked]

SystemCall(p) ==
    \/ LockPendingByte(p)
    \/ LockRange(p)
    \/ DropPendingByte(p)
    \/ LockReservedByte(p)
    \/ DowngradeRange(p)
    \/ ReleaseBytes(p)
    \/ CountDown(p)

Next ==
    \/ \E h \in Handles :
          \/ UnixOpen(h) \/ UnixClose(h) \/ JoinReaders(h)
          \/ \E want \in Levels : Lock(h, want) \/ Unlock(h, want)
    \/ \E p \in Procs : SystemCall(p) \/ Crash(p)

(* A call goes on, and the kernel does not lack room for one more lock for *)
(* ever; a statement that has not reached PENDING ends in the end, and one *)
(* that has tries again until it is given up.                              *)
Fairness ==
    /\ \A p \in Procs : WF_vars(SystemCall(p)) /\ SF_vars(LockRange(p) /\ sys' # sys)
    /\ \A h \in Handles :
          /\ SF_vars(eFileLock[h] < PENDING_LOCK /\ Unlock(h, NO_LOCK))
          /\ SF_vars(eFileLock[h] = PENDING_LOCK /\ Lock(h, EXCLUSIVE_LOCK))

Spec == Init /\ [][Next]_vars /\ Fairness

------------------------------------------------------------------------------
(* unixCheckReservedLock *)

(* Mutant: only the kernel is asked, which does not tell a process of its  *)
(* own locks.                                                              *)
CheckReservedLockByKernel(h) ==
    \E q \in Procs \ {Proc[h]} : sys[q].reserved # "none"

CheckReservedLock(h) ==
    \/ MyInode(h).eFileLock > SHARED_LOCK
    \/ \E q \in Procs \ {Proc[h]} : sys[q].reserved # "none"

------------------------------------------------------------------------------
(* The refinement: what a handle holds, a call in progress included.  A    *)
(* lock counts from the fcntl call that gets it to the one that drops it.  *)

At(h, at) ==
    call[Proc[h]] # Idle /\ call[Proc[h]].h = h /\ call[Proc[h]].at = at

Held(h) ==
    IF At(h, "shared") \/ At(h, "count") THEN SHARED_LOCK
    ELSE IF At(h, "range") /\ call[Proc[h]].want = EXCLUSIVE_LOCK THEN PENDING_LOCK
    ELSE eFileLock[h]

Reserving == {h \in Handles : /\ Held(h) > SHARED_LOCK
                              /\ sys[Proc[h]].reserved = "write"}

FL == INSTANCE FileLocks WITH
         held <- [h \in Handles |-> Held(h)],
         reserved <- Reserving

------------------------------------------------------------------------------
(* Properties *)

(* However the connections of several processes lock, unlock, open, close  *)
(* and crash, their levels obey the pager's protocol.                      *)
Implements == FL!Spec

(* Outside a call, the locks that a process has in the kernel are the ones *)
(* that its unixInodeInfo says, and that one says what its handles hold:   *)
(* no close, no unlock of another connection takes a lock away from them.  *)
InodeMatchesKernel ==
    \A p \in Procs : call[p] = Idle =>
        LET level == inode[p].eFileLock
            locked == {h \in Mine(p) : eFileLock[h] > NO_LOCK}
        IN  /\ sys[p].range = IF level = NO_LOCK THEN "none"
                              ELSE IF level = EXCLUSIVE_LOCK THEN "write" ELSE "read"
            /\ sys[p].pending = IF level >= PENDING_LOCK THEN "write" ELSE "none"
            /\ level = RESERVED_LOCK => sys[p].reserved = "write"
            /\ level <= SHARED_LOCK => sys[p].reserved = "none"
            /\ inode[p].nShared = Cardinality(locked)
            /\ inode[p].nLock = inode[p].nShared
            /\ locked # {} => \E h \in locked : eFileLock[h] = level
            /\ locked = {} => level = NO_LOCK /\ unused[p] = 0

(* unixCheckReservedLock, which decides whether a journal is hot, sees     *)
(* every writer between RESERVED and the end of its transaction.           *)
WritersAreSeen ==
    \A h \in open, o \in Handles :
        call[Proc[h]] = Idle /\ o \in Reserving => CheckReservedLock(h)

(* A writer that waits with PENDING and keeps trying gets EXCLUSIVE, or    *)
(* gives up: new readers cannot keep it waiting, as long as no other       *)
(* process has two connections that take turns.                            *)
PendingGetsThrough ==
    \A h \in Handles :
        (\A q \in Procs \ {Proc[h]} : Cardinality(Mine(q)) <= 1) =>
            (Held(h) = PENDING_LOCK ~> Held(h) # PENDING_LOCK)
================================================================================
