--------------------------- MODULE UnixLocksProofs ---------------------------
(* Theorems about UnixLocks, for any connections of any processes: the     *)
(* counts of a process always fit the kernel's locks, and the whole        *)
(* implements FileLocks.                                                   *)
EXTENDS UnixLocks, FiniteSetTheorems, TLAPS

Level(p)  == inode[p].eFileLock
Locked(p) == {h \in Mine(p) : eFileLock[h] > NO_LOCK}

(* The handle and the level that a call is about, and its stage. *)
In(p, at, want) == call[p] # Idle /\ call[p].at = at /\ call[p].want = want
Mine1(p)        == eFileLock[call[p].h]

(* What the unixInodeInfo of p says of its handles. *)
Counts(p) ==
    /\ inode[p].nShared = Cardinality(Locked(p))
    /\ inode[p].nLock = inode[p].nShared
    /\ Locked(p) = {} => unused[p] = 0
    /\ Locked(p) = {} <=> Level(p) = NO_LOCK

(* At most one handle of p is above SHARED, and its level is that of p,    *)
(* except while posixUnlock counts it down.                                *)
HandleLevels(p) ==
    /\ \A h \in Mine(p) :
          /\ eFileLock[h] > NO_LOCK => h \in open
          /\ eFileLock[h] > SHARED_LOCK =>
                eFileLock[h] = Level(p) \/ (At(h, "count") /\ Level(p) = SHARED_LOCK)
          /\ Level(p) = EXCLUSIVE_LOCK => eFileLock[h] \in {NO_LOCK, EXCLUSIVE_LOCK}
    /\ \A h, o \in Mine(p) :
          eFileLock[h] > SHARED_LOCK /\ eFileLock[o] > SHARED_LOCK => h = o
    /\ Level(p) > SHARED_LOCK => \E h \in Mine(p) : eFileLock[h] = Level(p)

(* What a call in progress may rely on. *)
CallInProgress(p) ==
    call[p] # Idle =>
    /\ call[p].h \in open
    /\ call[p].at \in {"pending", "range"} =>
          call[p].want \in {SHARED_LOCK, EXCLUSIVE_LOCK}
    /\ call[p].at \in {"pending", "range", "shared", "busy"} =>
          IF call[p].want = EXCLUSIVE_LOCK
            THEN call[p].at \in {"pending", "range"} /\ Mine1(p) = Level(p)
                 /\ Mine1(p) \in SHARED_LOCK..PENDING_LOCK
            ELSE call[p].want = SHARED_LOCK /\ Level(p) = NO_LOCK
    /\ In(p, "pending", EXCLUSIVE_LOCK) => Mine1(p) # PENDING_LOCK
    /\ In(p, "range", EXCLUSIVE_LOCK) => Locked(p) = {call[p].h}
    /\ call[p].at = "reserved" =>
          /\ call[p].want = RESERVED_LOCK
          /\ Mine1(p) = SHARED_LOCK /\ Level(p) = SHARED_LOCK
    /\ call[p].at \in {"downgrade", "release"} =>
          /\ Mine1(p) > SHARED_LOCK /\ Mine1(p) = Level(p)
          /\ call[p].want \in {NO_LOCK, SHARED_LOCK}
    /\ call[p].at = "downgrade" => call[p].want = SHARED_LOCK
    /\ call[p].at = "count" =>
          /\ call[p].want = NO_LOCK
          /\ Mine1(p) # NO_LOCK
          /\ Mine1(p) = SHARED_LOCK \/ Level(p) = SHARED_LOCK

(* Which locks the kernel has of p, by the level and the stage of the call. *)
KernelLocks(p) ==
    /\ sys[p].pending =
          IF \E at \in {"range", "shared", "busy"} : In(p, at, SHARED_LOCK) THEN "read"
          ELSE IF Level(p) >= PENDING_LOCK \/ In(p, "range", EXCLUSIVE_LOCK) THEN "write"
          ELSE "none"
    /\ Level(p) = RESERVED_LOCK => sys[p].reserved = "write"
    /\ Level(p) <= SHARED_LOCK => sys[p].reserved = "none"
    /\ sys[p].reserved \in {"none", "write"}
    /\ IF In(p, "count", NO_LOCK)
         THEN sys[p].range = "read" \/ (sys[p].range = "write" /\ Locked(p) = {call[p].h})
         ELSE sys[p].range =
                IF In(p, "shared", SHARED_LOCK) \/ In(p, "release", SHARED_LOCK) THEN "read"
                ELSE IF Level(p) = NO_LOCK THEN "none"
                ELSE IF Level(p) = EXCLUSIVE_LOCK THEN "write" ELSE "read"

ProcessInv(p) == Counts(p) /\ HandleLevels(p) /\ CallInProgress(p) /\ KernelLocks(p)

(* Between processes: a write lock is alone, and so is who has EXCLUSIVE,  *)
(* while he gives it up as well.                                           *)
Apart(p, q) ==
    /\ sys[p].pending = "write" => sys[q].pending = "none"
    /\ sys[p].reserved = "write" => sys[q].reserved = "none"
    /\ sys[p].range = "write" => sys[q].range = "none"
    /\ Level(p) = EXCLUSIVE_LOCK => sys[q].range = "none"
Conflicts == \A p, q \in Procs : p # q => Apart(p, q)

UnixInv == TypeOK /\ (\A p \in Procs : ProcessInv(p)) /\ Conflicts

USE LocksAssumption
USE DEF NO_LOCK, SHARED_LOCK, RESERVED_LOCK, PENDING_LOCK, EXCLUSIVE_LOCK, Levels,
        FL!NO_LOCK, FL!SHARED_LOCK, FL!RESERVED_LOCK, FL!PENDING_LOCK, FL!EXCLUSIVE_LOCK

(* A step of one process. *)
RequestOf(p) ==
    \E h \in Mine(p) :
        \/ UnixOpen(h) \/ UnixClose(h) \/ JoinReaders(h)
        \/ \E want \in Levels : Lock(h, want) \/ Unlock(h, want)
StepOf(p) == RequestOf(p) \/ SystemCall(p) \/ Crash(p)

(* Every step is one of one process. *)
LEMMA StepIsOfOne == Next => \E p \in Procs : StepOf(p)
  BY DEF Next, StepOf, RequestOf, Mine

(* It leaves the other processes alone. *)
SameFor(q) ==
    /\ call'[q] = call[q] /\ inode'[q] = inode[q]
    /\ unused'[q] = unused[q] /\ sys'[q] = sys[q]
    /\ \A h \in Mine(q) : eFileLock'[h] = eFileLock[h] /\ (h \in open' <=> h \in open)

(* A step of p leaves the other processes alone. *)
LEMMA OthersStay ==
    ASSUME TypeOK, NEW p \in Procs, NEW q \in Procs \ {p}, StepOf(p)
    PROVE  SameFor(q)
<1> USE DEF SameFor, Mine, TypeOK
<1>1. ASSUME NEW h \in Mine(p),
             UnixOpen(h) \/ UnixClose(h) \/ JoinReaders(h)
      PROVE  SameFor(q)
  BY <1>1 DEF UnixOpen, UnixClose, JoinReaders
<1>2. ASSUME NEW h \in Mine(p), NEW want \in Levels, Lock(h, want) \/ Unlock(h, want)
      PROVE  SameFor(q)
  BY <1>2 DEF Lock, Unlock
<1>3. CASE SystemCall(p)
  BY <1>3 DEF SystemCall, LockPendingByte, LockRange, DropPendingByte, LockReservedByte,
     DowngradeRange, ReleaseBytes, CountDown, Granted, Reached, Goto, Return
<1>4. CASE Crash(p)
  BY <1>4 DEF Crash
<1> QED
  BY <1>1, <1>2, <1>3, <1>4 DEF StepOf, RequestOf

------------------------------------------------------------------------------
(* Types *)

(* How many handles hold a lock. *)
LEMMA Counting ==
    ASSUME NEW p \in Procs
    PROVE  /\ IsFiniteSet(Locked(p)) /\ Cardinality(Locked(p)) \in Nat
           /\ Cardinality(Locked(p)) = 0 <=> Locked(p) = {}
           /\ \A h \in Locked(p) : Cardinality(Locked(p)) <= 1 <=> Locked(p) = {h}
<1>1. IsFiniteSet(Locked(p))
  BY FS_Subset, Locked(p) \subseteq Handles DEF Locked, Mine
<1>2. Cardinality(Locked(p)) \in Nat /\ (Cardinality(Locked(p)) = 0 <=> Locked(p) = {})
  BY <1>1, FS_CardinalityType, FS_EmptySet
<1>3. ASSUME NEW h \in Locked(p) PROVE Cardinality(Locked(p)) <= 1 <=> Locked(p) = {h}
  <2>1. Cardinality(Locked(p)) = 1 <=> \E x : Locked(p) = {x}
    BY <1>1, FS_Singleton
  <2> QED
    BY <1>2, <2>1
<1> QED
  BY <1>1, <1>2, <1>3


Kernel == [pending : LockTypes, reserved : LockTypes, range : LockTypes]
Inodes == [eFileLock : Levels, nShared : Nat, nLock : Nat]

(* What Counted does. *)
LEMMA CountedFields ==
    ASSUME NEW i \in Inodes, NEW d \in Int
    PROVE  /\ Counted(i, d).nShared = i.nShared + d
           /\ Counted(i, d).nLock = i.nLock + d
           /\ Counted(i, d).eFileLock = i.eFileLock
           /\ i.nShared + d \in Nat /\ i.nLock + d \in Nat => Counted(i, d) \in Inodes
  BY DEF Counted, Inodes

(* The rest of a call. *)
LEMMA SystemCallTypes ==
    ASSUME TypeOK, NEW p \in Procs, ProcessInv(p), SystemCall(p)
    PROVE  TypeOK'
<1> DEFINE c == call[p] h == c.h
<1>0. c \in Calls /\ c # Idle /\ h \in Handles /\ h \in Mine(p)
    BY DEF TypeOK, Calls, SystemCall, LockPendingByte, LockRange, DropPendingByte, LockReservedByte,
       DowngradeRange, ReleaseBytes, CountDown
<1>1. sys' \in [Procs -> Kernel]
  <2>0. sys \in [Procs -> Kernel]
    BY DEF TypeOK, Kernel
  <2> USE <2>0 DEF Kernel, LockTypes, Unlocked
  <2>1. CASE LockPendingByte(p)
    BY <2>1 DEF LockPendingByte, Granted
  <2>2. CASE LockRange(p)
    BY <2>2 DEF LockRange, Granted
  <2>3. CASE DropPendingByte(p)
    BY <2>3 DEF DropPendingByte
  <2>4. CASE LockReservedByte(p)
    BY <2>4 DEF LockReservedByte, Granted
  <2>5. CASE DowngradeRange(p)
    BY <2>5 DEF DowngradeRange, Granted
  <2>6. CASE ReleaseBytes(p)
    BY <2>6 DEF ReleaseBytes
  <2>7. CASE CountDown(p)
    BY <2>7 DEF CountDown
  <2> QED
    BY <2>1, <2>2, <2>3, <2>4, <2>5, <2>6, <2>7 DEF SystemCall
<1>2. call' = [call EXCEPT ![p] = Idle] \/ \E at \in Stages : call' = [call EXCEPT ![p].at = at]
  BY <1>0 DEF LockPendingByte, LockRange, DropPendingByte, LockReservedByte,
       DowngradeRange, ReleaseBytes, CountDown, SystemCall, Goto, Return, Reached, Stages
<1>3. call' \in [Procs -> Calls \cup {Idle}] /\ (call'[p] # Idle => call'[p].h = h)
  <2> HIDE DEF c
  <2>0. call \in [Procs -> Calls \cup {Idle}]
    BY DEF TypeOK
  <2>1. CASE call' = [call EXCEPT ![p] = Idle]
    BY <2>0, <2>1
  <2>2. ASSUME NEW at \in Stages, call' = [call EXCEPT ![p].at = at]
        PROVE  call' \in [Procs -> Calls \cup {Idle}] /\ call'[p].h = h
    <3>1. call[p] \in [h : Handles, want : Levels, at : Stages]
      BY <1>0 DEF Calls, c
    <3>2. [call[p] EXCEPT !.at = at] \in Calls /\ [call[p] EXCEPT !.at = at].h = h
      BY <3>1 DEF Calls, c
    <3>3. call' = [call EXCEPT ![p] = [call[p] EXCEPT !.at = at]]
      BY <2>2, <2>0
    <3> QED
      BY <2>0, <3>2, <3>3
  <2> QED
    BY <1>2, <2>1, <2>2
<1>4. \A q \in Procs : call'[q] # Idle => call'[q].h \in Mine(q)
  BY <1>0, <1>2, <1>3 DEF TypeOK
<1>5. eFileLock' \in [Handles -> Levels]
  <2>1. eFileLock' = eFileLock \/ \E level \in Levels : eFileLock' = [eFileLock EXCEPT ![h] = level]
    BY DEF LockPendingByte, LockRange, DropPendingByte, LockReservedByte,
       DowngradeRange, ReleaseBytes, CountDown, SystemCall, Reached
  <2> QED
    BY <2>1, <1>0 DEF TypeOK
<1>6. inode' \in [Procs -> Inodes]
  <2>0. inode \in [Procs -> Inodes]
    BY DEF TypeOK, Inodes
  <2> USE <2>0 DEF Inodes
  <2>1. CASE LockPendingByte(p)
    BY <2>1 DEF LockPendingByte, Reached
  <2>2. CASE LockRange(p)
    BY <2>2 DEF LockRange, Reached
  <2>3. CASE DropPendingByte(p)
    BY <2>3 DEF DropPendingByte
  <2>4. CASE LockReservedByte(p)
    BY <2>4 DEF LockReservedByte, Reached
  <2>5. CASE DowngradeRange(p)
    BY <2>5 DEF DowngradeRange
  <2>6. CASE ReleaseBytes(p)
    BY <2>6 DEF ReleaseBytes
  <2>7. CASE CountDown(p)
    <3>0. eFileLock[h] # NO_LOCK
      BY <1>0, <2>7 DEF CountDown, ProcessInv, CallInProgress, Mine1
    <3>1. h \in Locked(p)
      BY <1>0, <3>0 DEF Locked, TypeOK
    <3>2. inode[p].nShared - 1 \in Nat /\ inode[p].nLock - 1 \in Nat
      BY <3>1, Counting DEF ProcessInv, Counts, TypeOK
    <3>3. Counted(inode[p], -1) \in Inodes
      BY CountedFields, <3>2, <2>0
    <3>4. [Counted(inode[p], -1) EXCEPT !.eFileLock = NO_LOCK] \in Inodes
      BY <3>3
    <3> QED
      BY <2>7, <3>3, <3>4 DEF CountDown
  <2> QED
    BY <2>1, <2>2, <2>3, <2>4, <2>5, <2>6, <2>7 DEF SystemCall
<1>7. unused' \in [Procs -> Nat]
  BY <1>0 DEF LockPendingByte, LockRange, DropPendingByte, LockReservedByte,
       DowngradeRange, ReleaseBytes, CountDown, SystemCall, Reached, TypeOK
<1>8. open' \subseteq Handles
  BY <1>0 DEF LockPendingByte, LockRange, DropPendingByte, LockReservedByte,
       DowngradeRange, ReleaseBytes, CountDown, SystemCall, Reached, TypeOK
<1> QED
  BY <1>1, <1>3, <1>4, <1>5, <1>6, <1>7, <1>8 DEF TypeOK, Kernel, Inodes

(* A request, which at most joins the readers, opens or closes. *)
LEMMA RequestTypes ==
    ASSUME TypeOK, NEW p \in Procs, ProcessInv(p), RequestOf(p)
    PROVE  TypeOK'
<1> PICK h \in Mine(p) :
       \/ UnixOpen(h) \/ UnixClose(h) \/ JoinReaders(h)
       \/ \E want \in Levels : Lock(h, want) \/ Unlock(h, want)
  BY DEF RequestOf
<1>0. h \in Handles /\ Proc[h] = p
  BY DEF Mine
<1>1. CASE UnixOpen(h)
  BY <1>0, <1>1 DEF UnixOpen, TypeOK
<1>2. CASE UnixClose(h)
  <2>1. sys' \in [Procs -> Kernel]
    <3>1. sys \in [Procs -> Kernel] /\ Unlocked \in Kernel
      BY DEF TypeOK, Kernel, LockTypes, Unlocked
    <3>2. sys' = sys \/ sys' = [sys EXCEPT ![p] = Unlocked]
      BY <1>0, <1>2 DEF UnixClose
    <3> QED
      BY <3>1, <3>2
  <2>2. unused' \in [Procs -> Nat] /\ open' \subseteq Handles
    BY <1>0, <1>2 DEF UnixClose, TypeOK
  <2> QED
    BY <1>2, <2>1, <2>2 DEF UnixClose, TypeOK, Kernel
<1>3. CASE JoinReaders(h)
  <2>1. inode' \in [Procs -> Inodes]
    <3>1. inode \in [Procs -> Inodes]
      BY DEF TypeOK, Inodes
    <3>2. Counted(inode[p], 1) \in Inodes
      <4>1. inode[p] \in Inodes /\ inode[p].nShared + 1 \in Nat /\ inode[p].nLock + 1 \in Nat
        BY <3>1 DEF Inodes
      <4> QED
        BY <4>1, CountedFields
    <3> QED
      BY <1>0, <1>3, <3>1, <3>2 DEF JoinReaders
  <2>2. eFileLock' \in [Handles -> Levels]
    BY <1>0, <1>3 DEF JoinReaders, TypeOK
  <2> QED
    BY <1>3, <2>1, <2>2 DEF JoinReaders, TypeOK, Inodes
<1>4. ASSUME NEW want \in Levels, Lock(h, want) \/ Unlock(h, want)
      PROVE  TypeOK'
  <2>1. PICK at \in Stages : call' = [call EXCEPT ![p] = [h |-> h, want |-> want, at |-> at]]
    BY <1>0, <1>4 DEF Lock, Unlock, Stages
  <2>2. [h |-> h, want |-> want, at |-> at] \in Calls
    BY <1>0 DEF Calls
  <2>3. call' \in [Procs -> Calls \cup {Idle}] /\ call'[p].h = h
    BY <2>1, <2>2 DEF TypeOK
  <2>4. \A q \in Procs : call'[q] # Idle => call'[q].h \in Mine(q)
    BY <2>1, <2>3 DEF TypeOK
  <2> QED
    BY <1>4, <2>3, <2>4 DEF Lock, Unlock, TypeOK
<1> QED
  BY <1>1, <1>2, <1>3, <1>4

(* Every step keeps the types. *)
LEMMA TypeKeeps ==
    ASSUME TypeOK, NEW p \in Procs, ProcessInv(p), StepOf(p)
    PROVE  TypeOK'
<1>1. CASE Crash(p)
  <2>1. sys' \in [Procs -> Kernel]
    BY <1>1 DEF Crash, TypeOK, Kernel, LockTypes, Unlocked
  <2>2. inode' \in [Procs -> Inodes]
    BY <1>1 DEF Crash, TypeOK, Inodes, FreshInode
  <2>3. unused' \in [Procs -> Nat] /\ open' \subseteq Handles /\ eFileLock' \in [Handles -> Levels]
    BY <1>1 DEF Crash, TypeOK
  <2>4. /\ call' \in [Procs -> Calls \cup {Idle}]
        /\ \A q \in Procs : call'[q] # Idle => call'[q].h \in Mine(q)
    BY <1>1 DEF Crash, TypeOK
  <2> QED
    BY <2>1, <2>2, <2>3, <2>4 DEF TypeOK, Kernel, Inodes
<1> QED
  BY <1>1, RequestTypes, SystemCallTypes DEF StepOf

------------------------------------------------------------------------------
(* The invariant of a process *)

(* Nobody else changes what it is about. *)
LEMMA OthersKeep ==
    ASSUME TypeOK, NEW q \in Procs, SameFor(q), ProcessInv(q)
    PROVE  ProcessInv(q)'
<1>1. UNCHANGED <<Locked(q), Level(q), call[q], inode[q], unused[q], sys[q]>>
  BY DEF SameFor, Locked, Level
<1>2. call[q] # Idle => call[q].h \in Mine(q)
  BY DEF TypeOK
<1>3. Counts(q)'
  BY <1>1 DEF ProcessInv, Counts
<1>4. HandleLevels(q)'
  BY <1>1 DEF ProcessInv, HandleLevels, SameFor, At, Mine
<1>5. CallInProgress(q)'
  BY <1>1, <1>2 DEF ProcessInv, CallInProgress, SameFor, In, Mine1
<1>6. KernelLocks(q)'
  BY <1>1 DEF ProcessInv, KernelLocks, In
<1> QED
  BY <1>3, <1>4, <1>5, <1>6 DEF ProcessInv

(* A step that only moves the call of p on keeps what is about the rest. *)
LEMMA CallMoves ==
    ASSUME TypeOK, NEW p \in Procs, ProcessInv(p),
           UNCHANGED <<open, eFileLock, inode, unused, sys>>,
           \A h \in Mine(p) : At(h, "count") => At(h, "count")'
    PROVE  Counts(p)' /\ HandleLevels(p)'
<1>1. UNCHANGED <<Locked(p), Level(p), inode[p], unused[p]>>
  BY DEF Locked, Level
<1>2. Counts(p)'
  BY <1>1 DEF ProcessInv, Counts
<1>3. HandleLevels(p)'
  BY <1>1 DEF ProcessInv, HandleLevels
<1> QED
  BY <1>2, <1>3

(* A request that takes system calls. *)
LEMMA LockKeeps ==
    ASSUME TypeOK, NEW p \in Procs, ProcessInv(p),
           NEW h \in Mine(p), NEW want \in Levels, Lock(h, want)
    PROVE  ProcessInv(p)'
<1> DEFINE at == IF want = RESERVED_LOCK THEN "reserved"
                 ELSE IF eFileLock[h] = PENDING_LOCK THEN "range" ELSE "pending"
<1>1. /\ h \in Handles /\ Proc[h] = p /\ h \in open /\ call[p] = Idle
      /\ call'[p] = [h |-> h, want |-> want, at |-> at] /\ call'[p] # Idle
      /\ UNCHANGED <<open, eFileLock, inode, unused, sys>>
  BY DEF Lock, Mine, TypeOK, Calls, Stages
<1>2. Legal(h, want) /\ ~Precluded(h, want)
      /\ (eFileLock[h] = PENDING_LOCK => inode[p].nShared = 1)
      /\ (want = SHARED_LOCK => Level(p) \notin {SHARED_LOCK, RESERVED_LOCK})
  BY <1>1 DEF Lock, MyInode, Level
<1>3. eFileLock[h] \in Levels /\ Level(p) \in Levels
  BY <1>1 DEF TypeOK, Level
<1>4. /\ want = SHARED_LOCK => eFileLock[h] = NO_LOCK /\ Level(p) = NO_LOCK
      /\ want # SHARED_LOCK => eFileLock[h] = Level(p) /\ Level(p) # NO_LOCK
      /\ want = RESERVED_LOCK => eFileLock[h] = SHARED_LOCK
      /\ want \in {SHARED_LOCK, RESERVED_LOCK, EXCLUSIVE_LOCK}
      /\ eFileLock[h] < want
  BY <1>1, <1>2, <1>3 DEF Legal, Precluded, MyInode, Level
<1>5. Counts(p)' /\ HandleLevels(p)'
  BY <1>1, CallMoves DEF At, Mine
<1>6. CallInProgress(p)'
  <2>1. at = "range" => Locked(p) = {h}
    <3> SUFFICES ASSUME at = "range" PROVE Locked(p) = {h}
      OBVIOUS
    <3>1. eFileLock[h] = PENDING_LOCK
      OBVIOUS
    <3>2. h \in Locked(p) /\ Cardinality(Locked(p)) = 1
      BY <1>2, <3>1 DEF ProcessInv, Counts, Locked
    <3> QED
      BY <3>2, Counting
  <2> QED
    BY <1>1, <1>3, <1>4, <2>1 DEF CallInProgress, In, Mine1, Level, Locked
<1>7. KernelLocks(p)'
  BY <1>1, <1>3, <1>4 DEF ProcessInv, KernelLocks, In, Level
<1> QED
  BY <1>5, <1>6, <1>7 DEF ProcessInv

(* An unlock, up to its first system call. *)
LEMMA UnlockKeeps ==
    ASSUME TypeOK, NEW p \in Procs, ProcessInv(p),
           NEW h \in Mine(p), NEW want \in Levels, Unlock(h, want)
    PROVE  ProcessInv(p)'
<1> DEFINE at == IF eFileLock[h] = SHARED_LOCK THEN "count"
                 ELSE IF want = SHARED_LOCK THEN "downgrade" ELSE "release"
<1>1. /\ h \in Handles /\ Proc[h] = p /\ h \in open /\ call[p] = Idle
      /\ call'[p] = [h |-> h, want |-> want, at |-> at] /\ call'[p] # Idle
      /\ UNCHANGED <<open, eFileLock, inode, unused, sys>>
  BY DEF Unlock, Mine, TypeOK, Calls, Stages
<1>2. eFileLock[h] > want /\ want \in {NO_LOCK, SHARED_LOCK}
  BY DEF Unlock
<1>3. eFileLock[h] \in Levels /\ Level(p) \in Levels
  BY <1>1 DEF TypeOK, Level
<1>4. /\ eFileLock[h] > SHARED_LOCK => eFileLock[h] = Level(p)
      /\ eFileLock[h] # NO_LOCK => Level(p) # NO_LOCK
      /\ eFileLock[h] = SHARED_LOCK => Level(p) # EXCLUSIVE_LOCK
  BY <1>1, <1>3 DEF ProcessInv, HandleLevels, Counts, Locked, At
<1>5. Counts(p)' /\ HandleLevels(p)'
  BY <1>1, CallMoves DEF At, Mine
<1>6. CallInProgress(p)'
  BY <1>1, <1>2, <1>3, <1>4 DEF CallInProgress, In, Mine1, Level
<1>7. KernelLocks(p)'
  BY <1>1, <1>2, <1>3, <1>4 DEF ProcessInv, KernelLocks, In, Level
<1> QED
  BY <1>5, <1>6, <1>7 DEF ProcessInv

(* What holds of the handle of a call in progress. *)
LEMMA InCall ==
    ASSUME TypeOK, NEW p \in Procs, ProcessInv(p), call[p] # Idle
    PROVE  /\ call[p] \in Calls /\ call[p].h \in Handles /\ call[p].h \in Mine(p)
           /\ Proc[call[p].h] = p /\ call[p].h \in open
           /\ eFileLock[call[p].h] \in Levels /\ Level(p) \in Levels
           /\ \A h \in Mine(p) : h \in Handles /\ Proc[h] = p /\ eFileLock[h] \in Levels
           /\ sys[p] \in Kernel
  BY DEF TypeOK, ProcessInv, CallInProgress, Mine, Level, Calls, Kernel

(* The end of a call of unixLock that has reached a level. *)
LEMMA ReachedKeeps ==
    ASSUME TypeOK, NEW p \in Procs, ProcessInv(p),
           call[p] # Idle, call[p].at # "count",
           Mine1(p) = Level(p), Level(p) # NO_LOCK,
           NEW level \in {RESERVED_LOCK, PENDING_LOCK, EXCLUSIVE_LOCK},
           level = EXCLUSIVE_LOCK => Locked(p) = {call[p].h},
           Reached(p, level), UNCHANGED <<open, unused>>
    PROVE  /\ call'[p] = Idle /\ Level(p)' = level
           /\ Counts(p)' /\ HandleLevels(p)' /\ CallInProgress(p)'
<1> DEFINE h == call[p].h
<1>1. /\ h \in Handles /\ h \in Mine(p) /\ h \in open
      /\ eFileLock[h] \in Levels /\ Level(p) \in Levels
      /\ \A o \in Mine(p) : o \in Handles /\ Proc[o] = p /\ eFileLock[o] \in Levels
  BY InCall
<1>2. /\ call'[p] = Idle /\ Level(p)' = level
      /\ inode'[p].nShared = inode[p].nShared /\ inode'[p].nLock = inode[p].nLock
      /\ eFileLock'[h] = level
      /\ \A o \in Mine(p) : o # h => eFileLock'[o] = eFileLock[o]
  BY <1>1 DEF Reached, Return, TypeOK, Level
<1>3. UNCHANGED Locked(p) /\ h \in Locked(p)
  BY <1>1, <1>2 DEF Locked, Mine1
<1>4. Counts(p)'
  BY <1>1, <1>2, <1>3 DEF ProcessInv, Counts
<1>5. HandleLevels(p)'
  <2>1. \A o \in Mine(p) : ~At(o, "count")
    BY <1>1 DEF At
  <2>2. \A o \in Mine(p) : o # h => eFileLock[o] <= SHARED_LOCK
    BY <1>1, <2>1 DEF ProcessInv, HandleLevels, Mine1
  <2>3. level = EXCLUSIVE_LOCK => \A o \in Mine(p) : o # h => eFileLock[o] = NO_LOCK
    BY <1>1 DEF Locked
  <2>4. \A o \in Mine(p) : eFileLock'[o] > NO_LOCK => o \in open'
    BY <1>1, <1>2 DEF ProcessInv, HandleLevels
  <2> QED
    BY <1>1, <1>2, <2>2, <2>3, <2>4 DEF HandleLevels
<1>6. CallInProgress(p)'
  BY <1>2 DEF CallInProgress
<1> QED
  BY <1>2, <1>4, <1>5, <1>6

(* A call that moves on while the locks of p stay, or give up a byte. *)
LEMMA MovesOn ==
    ASSUME TypeOK, NEW p \in Procs, ProcessInv(p), call[p] # Idle,
           NEW at \in Stages, Goto(p, at), call[p].at # "count",
           UNCHANGED <<open, eFileLock, inode, unused>>
    PROVE  /\ call'[p] # Idle /\ call'[p].h = call[p].h
           /\ call'[p].want = call[p].want /\ call'[p].at = at
           /\ UNCHANGED <<Locked(p), Level(p), Mine1(p)>>
           /\ Counts(p)' /\ HandleLevels(p)'
<1>0. call[p] \in Calls
  BY InCall
<1>1. /\ call'[p] # Idle /\ call'[p].h = call[p].h
      /\ call'[p].want = call[p].want /\ call'[p].at = at
  BY <1>0 DEF Goto, TypeOK, Calls
<1>2. UNCHANGED <<Locked(p), Level(p), Mine1(p), inode[p], unused[p]>>
  BY <1>1 DEF Locked, Level, Mine1
<1>3. Counts(p)'
  BY <1>2 DEF ProcessInv, Counts
<1>4. HandleLevels(p)'
  BY <1>1, <1>2, InCall DEF ProcessInv, HandleLevels, At
<1> QED
  BY <1>1, <1>2, <1>3, <1>4

(* A call that gives up, or ends without a change. *)
LEMMA GivesUp ==
    ASSUME TypeOK, NEW p \in Procs, ProcessInv(p), call[p] # Idle, Return(p),
           call[p].at # "count", UNCHANGED <<open, eFileLock, inode, unused>>
    PROVE  /\ call'[p] = Idle /\ UNCHANGED <<Locked(p), Level(p)>>
           /\ Counts(p)' /\ HandleLevels(p)' /\ CallInProgress(p)'
<1>1. call'[p] = Idle
  BY DEF TypeOK, Return
<1>2. UNCHANGED <<Locked(p), Level(p), inode[p], unused[p]>>
  BY DEF Locked, Level
<1>3. Counts(p)'
  BY <1>2 DEF ProcessInv, Counts
<1>4. HandleLevels(p)'
  BY <1>1, <1>2, InCall DEF ProcessInv, HandleLevels, At
<1>5. CallInProgress(p)'
  BY <1>1 DEF CallInProgress
<1> QED
  BY <1>1, <1>2, <1>3, <1>4, <1>5

(* The only handle of the process that holds a lock. *)
LEMMA OnlyOne ==
    ASSUME TypeOK, NEW p \in Procs, ProcessInv(p), call[p] # Idle, Mine1(p) # NO_LOCK
    PROVE  /\ call[p].h \in Locked(p) /\ Level(p) # NO_LOCK
           /\ inode[p].nShared \in Nat \ {0}
           /\ inode[p].nShared <= 1 <=> Locked(p) = {call[p].h}
<1>1. call[p].h \in Locked(p)
  BY InCall DEF Locked, Mine1
<1> QED
  BY <1>1, Counting DEF ProcessInv, Counts

(* The pending byte is read on the way to SHARED, written for EXCLUSIVE. *)
LEMMA LockPendingByteKeeps ==
    ASSUME TypeOK, NEW p \in Procs, ProcessInv(p), LockPendingByte(p)
    PROVE  ProcessInv(p)'
<1>0. call[p] # Idle /\ call[p].at = "pending" /\ UNCHANGED <<open, unused>>
  BY DEF LockPendingByte
<1>1. sys[p] \in Kernel /\ Level(p) \in Levels /\ call[p] \in Calls
  BY <1>0, InCall
<1>2. CASE UNCHANGED <<eFileLock, inode, sys>> /\ Return(p)
  <2>1. KernelLocks(p)'
    BY <1>0, <1>2, GivesUp DEF KernelLocks, ProcessInv, In
  <2> QED
    BY <1>0, <1>2, <2>1, GivesUp DEF ProcessInv
<1>3. CASE /\ call[p].want = SHARED_LOCK
           /\ Granted(p, "pending", "read") /\ Goto(p, "range")
           /\ UNCHANGED <<eFileLock, inode>>
  <2>1. /\ sys'[p].pending = "read" /\ sys'[p].reserved = sys[p].reserved
        /\ sys'[p].range = sys[p].range
    BY <1>1, <1>3 DEF Granted, TypeOK, Kernel
  <2>2. /\ call'[p] # Idle /\ call'[p].h = call[p].h
        /\ call'[p].want = call[p].want /\ call'[p].at = "range"
        /\ UNCHANGED <<Locked(p), Level(p), Mine1(p)>>
        /\ Counts(p)' /\ HandleLevels(p)'
    BY <1>0, <1>3, MovesOn DEF Stages
  <2>3. CallInProgress(p)'
    BY <1>0, <1>3, <2>2 DEF ProcessInv, CallInProgress, In
  <2>4. KernelLocks(p)'
    BY <1>0, <1>3, <2>1, <2>2 DEF ProcessInv, KernelLocks, CallInProgress, In
  <2> QED
    BY <2>2, <2>3, <2>4 DEF ProcessInv
<1>4. CASE /\ call[p].want = EXCLUSIVE_LOCK /\ Granted(p, "pending", "write")
           /\ IF inode[p].nShared > 1
                THEN Reached(p, PENDING_LOCK)
                ELSE Goto(p, "range") /\ UNCHANGED <<eFileLock, inode>>
  <2>1. /\ sys'[p].pending = "write" /\ sys'[p].reserved = sys[p].reserved
        /\ sys'[p].range = sys[p].range
    BY <1>1, <1>4 DEF Granted, TypeOK, Kernel
  <2>2. /\ Mine1(p) = Level(p) /\ Level(p) \in {SHARED_LOCK, RESERVED_LOCK}
        /\ sys[p].range = "read" /\ call[p].h \in open
    BY <1>0, <1>1, <1>4 DEF ProcessInv, CallInProgress, KernelLocks, In
  <2>3. CASE inode[p].nShared > 1 /\ Reached(p, PENDING_LOCK)
    <3>1. /\ call'[p] = Idle /\ Level(p)' = PENDING_LOCK
          /\ Counts(p)' /\ HandleLevels(p)' /\ CallInProgress(p)'
      BY <1>0, <2>2, <2>3, ReachedKeeps
    <3>2. KernelLocks(p)'
      BY <2>1, <2>2, <3>1 DEF ProcessInv, KernelLocks, In
    <3> QED
      BY <3>1, <3>2 DEF ProcessInv
  <2>4. CASE ~(inode[p].nShared > 1) /\ Goto(p, "range") /\ UNCHANGED <<eFileLock, inode>>
    <3>1. Locked(p) = {call[p].h}
      BY <1>0, <2>2, <2>4, OnlyOne
    <3>2. /\ call'[p] # Idle /\ call'[p].h = call[p].h
          /\ call'[p].want = call[p].want /\ call'[p].at = "range"
          /\ UNCHANGED <<Locked(p), Level(p), Mine1(p)>>
          /\ Counts(p)' /\ HandleLevels(p)'
      BY <1>0, <2>4, MovesOn DEF Stages
    <3>3. CallInProgress(p)'
      BY <1>0, <1>4, <2>2, <3>1, <3>2 DEF CallInProgress, In
    <3>4. KernelLocks(p)'
      BY <1>4, <2>1, <2>2, <3>2 DEF ProcessInv, KernelLocks, In
    <3> QED
      BY <3>2, <3>3, <3>4 DEF ProcessInv
  <2> QED
    BY <1>4, <2>3, <2>4
<1>5. call[p].want \in {SHARED_LOCK, EXCLUSIVE_LOCK}
  BY <1>0 DEF ProcessInv, CallInProgress
<1> QED
  BY <1>2, <1>3, <1>4, <1>5 DEF LockPendingByte

(* The shared range, as well; a refusal leaves PENDING. *)
LEMMA LockRangeKeeps ==
    ASSUME TypeOK, NEW p \in Procs, ProcessInv(p), LockRange(p)
    PROVE  ProcessInv(p)'
<1>0. call[p] # Idle /\ call[p].at = "range" /\ UNCHANGED <<open, unused>>
  BY DEF LockRange
<1>1. sys[p] \in Kernel /\ Level(p) \in Levels /\ call[p] \in Calls
  BY <1>0, InCall
<1>2. call[p].want \in {SHARED_LOCK, EXCLUSIVE_LOCK}
  BY <1>0 DEF ProcessInv, CallInProgress
<1>3. CASE call[p].want = SHARED_LOCK
  <2>1. PICK at \in {"shared", "busy"} :
           /\ Goto(p, at) /\ UNCHANGED <<eFileLock, inode>>
           /\ IF at = "shared" THEN Granted(p, "range", "read") ELSE UNCHANGED sys
    BY <1>3 DEF LockRange
  <2>2. /\ sys'[p].pending = sys[p].pending /\ sys'[p].reserved = sys[p].reserved
        /\ sys'[p].range = IF at = "shared" THEN "read" ELSE sys[p].range
    BY <1>1, <2>1 DEF Granted, TypeOK, Kernel
  <2>3. /\ call'[p] # Idle /\ call'[p].h = call[p].h
        /\ call'[p].want = call[p].want /\ call'[p].at = at
        /\ UNCHANGED <<Locked(p), Level(p), Mine1(p)>>
        /\ Counts(p)' /\ HandleLevels(p)'
    BY <1>0, <2>1, MovesOn DEF Stages
  <2>4. CallInProgress(p)'
    BY <1>0, <1>3, <2>3 DEF ProcessInv, CallInProgress, In
  <2>5. KernelLocks(p)'
    BY <1>0, <1>3, <2>2, <2>3 DEF ProcessInv, KernelLocks, CallInProgress, In
  <2> QED
    BY <2>3, <2>4, <2>5 DEF ProcessInv
<1>4. CASE call[p].want = EXCLUSIVE_LOCK
  <2>1. PICK level \in {PENDING_LOCK, EXCLUSIVE_LOCK} :
           /\ Reached(p, level)
           /\ IF level = EXCLUSIVE_LOCK THEN Granted(p, "range", "write") ELSE UNCHANGED sys
    BY <1>4 DEF LockRange
  <2>2. /\ sys'[p].pending = sys[p].pending /\ sys'[p].reserved = sys[p].reserved
        /\ sys'[p].range = IF level = EXCLUSIVE_LOCK THEN "write" ELSE sys[p].range
    BY <1>1, <2>1 DEF Granted, TypeOK, Kernel
  <2>3. /\ Mine1(p) = Level(p) /\ Level(p) \in SHARED_LOCK..PENDING_LOCK
        /\ Locked(p) = {call[p].h}
    BY <1>0, <1>4 DEF ProcessInv, CallInProgress, In
  <2>4. /\ call'[p] = Idle /\ Level(p)' = level
        /\ Counts(p)' /\ HandleLevels(p)' /\ CallInProgress(p)'
    BY <1>0, <2>1, <2>3, ReachedKeeps
  <2>5. KernelLocks(p)'
    BY <1>0, <1>4, <2>2, <2>3, <2>4 DEF ProcessInv, KernelLocks, In
  <2> QED
    BY <2>4, <2>5 DEF ProcessInv
<1> QED
  BY <1>2, <1>3, <1>4

(* The reserved byte. *)
LEMMA LockReservedByteKeeps ==
    ASSUME TypeOK, NEW p \in Procs, ProcessInv(p), LockReservedByte(p)
    PROVE  ProcessInv(p)'
<1>0. call[p] # Idle /\ call[p].at = "reserved" /\ UNCHANGED <<open, unused>>
  BY DEF LockReservedByte
<1>1. sys[p] \in Kernel /\ Level(p) \in Levels /\ call[p] \in Calls
  BY <1>0, InCall
<1>2. CASE UNCHANGED <<eFileLock, inode, sys>> /\ Return(p)
  <2>1. KernelLocks(p)'
    BY <1>0, <1>2, GivesUp DEF KernelLocks, ProcessInv, In
  <2> QED
    BY <1>0, <1>2, <2>1, GivesUp DEF ProcessInv
<1>3. CASE Granted(p, "reserved", "write") /\ Reached(p, RESERVED_LOCK)
  <2>1. /\ sys'[p].pending = sys[p].pending /\ sys'[p].reserved = "write"
        /\ sys'[p].range = sys[p].range
    BY <1>1, <1>3 DEF Granted, TypeOK, Kernel
  <2>2. Mine1(p) = Level(p) /\ Level(p) = SHARED_LOCK
    BY <1>0 DEF ProcessInv, CallInProgress
  <2>3. /\ call'[p] = Idle /\ Level(p)' = RESERVED_LOCK
        /\ Counts(p)' /\ HandleLevels(p)' /\ CallInProgress(p)'
    BY <1>0, <1>3, <2>2, ReachedKeeps
  <2>4. KernelLocks(p)'
    BY <1>0, <2>1, <2>2, <2>3 DEF ProcessInv, KernelLocks, In
  <2> QED
    BY <2>3, <2>4 DEF ProcessInv
<1> QED
  BY <1>2, <1>3 DEF LockReservedByte

(* SHARED is reached, or given up. *)
LEMMA DropPendingByteKeeps ==
    ASSUME TypeOK, NEW p \in Procs, ProcessInv(p), DropPendingByte(p)
    PROVE  ProcessInv(p)'
<1> DEFINE h == call[p].h
<1>0. call[p] # Idle /\ call[p].at \in {"shared", "busy"} /\ UNCHANGED <<open, unused>>
      /\ Return(p) /\ sys' = [sys EXCEPT ![p].pending = "none"]
  BY DEF DropPendingByte
<1>1. /\ call[p] \in Calls /\ h \in Handles /\ h \in Mine(p) /\ Proc[h] = p /\ h \in open
      /\ eFileLock[h] \in Levels /\ Level(p) \in Levels /\ sys[p] \in Kernel
      /\ \A o \in Mine(p) : o \in Handles /\ Proc[o] = p /\ eFileLock[o] \in Levels
  BY <1>0, InCall
<1>2. /\ sys'[p].pending = "none" /\ sys'[p].reserved = sys[p].reserved
      /\ sys'[p].range = sys[p].range
  BY <1>0, <1>1 DEF TypeOK, Kernel
<1>3. call[p].want = SHARED_LOCK /\ Level(p) = NO_LOCK /\ Locked(p) = {}
  BY <1>0 DEF ProcessInv, CallInProgress, Counts
<1>4. CASE call[p].at = "busy"
  <2>1. UNCHANGED <<eFileLock, inode>>
    BY <1>4 DEF DropPendingByte
  <2>2. /\ call'[p] = Idle /\ UNCHANGED <<Locked(p), Level(p)>>
        /\ Counts(p)' /\ HandleLevels(p)' /\ CallInProgress(p)'
    BY <1>0, <1>4, <2>1, GivesUp
  <2>3. KernelLocks(p)'
    BY <1>0, <1>2, <1>3, <1>4, <2>2 DEF ProcessInv, KernelLocks, In
  <2> QED
    BY <2>2, <2>3 DEF ProcessInv
<1>5. CASE call[p].at = "shared"
  <2>1. /\ eFileLock' = [eFileLock EXCEPT ![h] = SHARED_LOCK]
        /\ inode' = [inode EXCEPT ![p] = [eFileLock |-> SHARED_LOCK,
                                          nShared |-> 1, nLock |-> @.nLock + 1]]
    BY <1>5 DEF DropPendingByte
  <2>2. call'[p] = Idle
    BY <1>0 DEF Return, TypeOK
  <2>3. /\ Level(p)' = SHARED_LOCK /\ inode'[p].nShared = 1
        /\ inode'[p].nLock = inode[p].nLock + 1
    BY <2>1 DEF TypeOK, Level
  <2>4. eFileLock'[h] = SHARED_LOCK /\ \A o \in Mine(p) : o # h => eFileLock'[o] = NO_LOCK
    <3>1. eFileLock \in [Handles -> Levels]
      BY DEF TypeOK
    <3>2. ASSUME NEW o \in Mine(p) PROVE eFileLock[o] = NO_LOCK
      <4>1. ~(eFileLock[o] > NO_LOCK) /\ eFileLock[o] \in Levels
        BY <1>1, <1>3 DEF Locked
      <4> QED
        BY <4>1 DEF Levels
    <3>3. eFileLock'[h] = SHARED_LOCK
      BY <1>1, <2>1, <3>1
    <3>4. ASSUME NEW o \in Mine(p), o # h PROVE eFileLock'[o] = NO_LOCK
      BY <1>1, <2>1, <3>1, <3>2, <3>4
    <3> QED
      BY <3>3, <3>4
  <2>5. Locked(p)' = {h}
    BY <1>1, <2>4 DEF Locked
  <2>6. Counts(p)'
    <3>1. inode[p].nLock = 0
      BY <1>3, FS_EmptySet DEF ProcessInv, Counts
    <3>2. Cardinality({h}) = 1
      BY FS_Singleton
    <3> QED
      BY <2>3, <2>5, <3>1, <3>2 DEF Counts
  <2>7. HandleLevels(p)'
    BY <1>0, <1>1, <2>3, <2>4 DEF HandleLevels
  <2>8. CallInProgress(p)'
    BY <2>2 DEF CallInProgress
  <2>9. KernelLocks(p)'
    BY <1>0, <1>2, <1>3, <1>5, <2>2, <2>3 DEF ProcessInv, KernelLocks, In
  <2> QED
    BY <2>6, <2>7, <2>8, <2>9 DEF ProcessInv
<1> QED
  BY <1>0, <1>4, <1>5

(* The write lock of the range becomes a read lock. *)
LEMMA DowngradeRangeKeeps ==
    ASSUME TypeOK, NEW p \in Procs, ProcessInv(p), DowngradeRange(p)
    PROVE  ProcessInv(p)'
<1>0. call[p] # Idle /\ call[p].at = "downgrade"
      /\ UNCHANGED <<open, eFileLock, inode, unused>>
  BY DEF DowngradeRange
<1>1. sys[p] \in Kernel /\ Level(p) \in Levels /\ call[p] \in Calls
  BY <1>0, InCall
<1>2. CASE UNCHANGED sys /\ Return(p)
  <2>1. KernelLocks(p)'
    BY <1>0, <1>2, GivesUp DEF KernelLocks, ProcessInv, In
  <2> QED
    BY <1>0, <1>2, <2>1, GivesUp DEF ProcessInv
<1>3. CASE Granted(p, "range", "read") /\ Goto(p, "release")
  <2>1. /\ sys'[p].pending = sys[p].pending /\ sys'[p].reserved = sys[p].reserved
        /\ sys'[p].range = "read"
    BY <1>1, <1>3 DEF Granted, TypeOK, Kernel
  <2>2. /\ call'[p] # Idle /\ call'[p].h = call[p].h
        /\ call'[p].want = call[p].want /\ call'[p].at = "release"
        /\ UNCHANGED <<Locked(p), Level(p), Mine1(p)>>
        /\ Counts(p)' /\ HandleLevels(p)'
    BY <1>0, <1>3, MovesOn DEF Stages
  <2>3. CallInProgress(p)'
    BY <1>0, <2>2 DEF ProcessInv, CallInProgress, In
  <2>4. KernelLocks(p)'
    BY <1>0, <2>1, <2>2 DEF ProcessInv, KernelLocks, CallInProgress, In
  <2> QED
    BY <2>2, <2>3, <2>4 DEF ProcessInv
<1> QED
  BY <1>2, <1>3 DEF DowngradeRange

(* The other two bytes are given back. *)
LEMMA ReleaseBytesKeeps ==
    ASSUME TypeOK, NEW p \in Procs, ProcessInv(p), ReleaseBytes(p)
    PROVE  ProcessInv(p)'
<1> DEFINE h == call[p].h
<1>0. /\ call[p] # Idle /\ call[p].at = "release" /\ UNCHANGED <<open, unused>>
      /\ sys' = [sys EXCEPT ![p].pending = "none", ![p].reserved = "none"]
      /\ inode' = [inode EXCEPT ![p].eFileLock = SHARED_LOCK]
  BY DEF ReleaseBytes
<1>1. /\ call[p] \in Calls /\ h \in Handles /\ h \in Mine(p) /\ Proc[h] = p /\ h \in open
      /\ eFileLock[h] \in Levels /\ Level(p) \in Levels /\ sys[p] \in Kernel
      /\ \A o \in Mine(p) : o \in Handles /\ Proc[o] = p /\ eFileLock[o] \in Levels
  BY <1>0, InCall
<1>2. /\ sys'[p].pending = "none" /\ sys'[p].reserved = "none"
      /\ sys'[p].range = sys[p].range
  BY <1>0, <1>1 DEF TypeOK, Kernel
<1>3. /\ Level(p)' = SHARED_LOCK
      /\ inode'[p].nShared = inode[p].nShared /\ inode'[p].nLock = inode[p].nLock
  BY <1>0 DEF TypeOK, Level
<1>4. /\ eFileLock[h] > SHARED_LOCK /\ eFileLock[h] = Level(p)
      /\ call[p].want \in {NO_LOCK, SHARED_LOCK}
  BY <1>0 DEF ProcessInv, CallInProgress, Mine1
<1>5. \A o \in Mine(p) : o # h => eFileLock[o] <= SHARED_LOCK
  BY <1>1, <1>4 DEF ProcessInv, HandleLevels
<1>6. CASE call[p].want = SHARED_LOCK
  <2>1. eFileLock' = [eFileLock EXCEPT ![h] = SHARED_LOCK] /\ call'[p] = Idle
    BY <1>6 DEF ReleaseBytes, Return, TypeOK
  <2>2. /\ eFileLock'[h] = SHARED_LOCK
        /\ \A o \in Mine(p) : o # h => eFileLock'[o] = eFileLock[o]
    BY <1>1, <2>1 DEF TypeOK
  <2>3. UNCHANGED Locked(p) /\ h \in Locked(p)
    BY <1>1, <1>4, <2>2 DEF Locked
  <2>4. Counts(p)'
    BY <1>0, <1>3, <2>3 DEF ProcessInv, Counts
  <2>5. HandleLevels(p)'
    BY <1>0, <1>1, <1>3, <1>5, <2>2 DEF ProcessInv, HandleLevels
  <2>6. CallInProgress(p)'
    BY <2>1 DEF CallInProgress
  <2>7. KernelLocks(p)'
    BY <1>0, <1>2, <1>3, <1>6, <2>1 DEF ProcessInv, KernelLocks, In
  <2> QED
    BY <2>4, <2>5, <2>6, <2>7 DEF ProcessInv
<1>7. CASE call[p].want = NO_LOCK
  <2>1. UNCHANGED eFileLock /\ Goto(p, "count")
    BY <1>7 DEF ReleaseBytes
  <2>2. /\ call'[p] # Idle /\ call'[p].h = h
        /\ call'[p].want = NO_LOCK /\ call'[p].at = "count"
    BY <1>0, <1>1, <1>7, <2>1 DEF Goto, TypeOK, Calls, Stages
  <2>3. UNCHANGED <<Locked(p), Mine1(p)>> /\ h \in Locked(p)
    BY <1>1, <1>4, <2>1, <2>2 DEF Locked, Mine1
  <2>4. Counts(p)'
    BY <1>0, <1>3, <2>3 DEF ProcessInv, Counts
  <2>5. HandleLevels(p)'
    <3>1. \A o \in Mine(p) : o = h => At(o, "count")'
      BY <1>1, <2>2 DEF At
    <3>2. \A o \in Mine(p) : eFileLock'[o] > NO_LOCK => o \in open'
      BY <1>0, <2>1 DEF ProcessInv, HandleLevels
    <3>3. \A o \in Mine(p) : eFileLock'[o] > SHARED_LOCK => o = h
      BY <1>1, <1>5, <2>1
    <3> QED
      BY <1>1, <1>3, <1>5, <2>1, <3>1, <3>2, <3>3 DEF HandleLevels
  <2>6. CallInProgress(p)'
    BY <1>0, <1>1, <1>3, <1>4, <2>2, <2>3 DEF CallInProgress, In, Mine1
  <2>7. KernelLocks(p)'
    <3>1. Level(p) = EXCLUSIVE_LOCK => Locked(p) = {h}
      BY <1>1, <1>4, <1>5 DEF ProcessInv, HandleLevels, Locked
    <3>2. sys[p].range = "read" \/ (sys[p].range = "write" /\ Level(p) = EXCLUSIVE_LOCK)
      BY <1>0, <1>4, <1>7 DEF ProcessInv, KernelLocks, In
    <3> QED
      BY <1>2, <1>3, <2>2, <2>3, <3>1, <3>2 DEF KernelLocks, In
  <2> QED
    BY <2>4, <2>5, <2>6, <2>7 DEF ProcessInv
<1> QED
  BY <1>4, <1>6, <1>7

(* One handle less, and the last one takes the locks along. *)
LEMMA CountDownKeeps ==
    ASSUME TypeOK, NEW p \in Procs, ProcessInv(p), CountDown(p)
    PROVE  ProcessInv(p)'
<1> DEFINE h == call[p].h
           left == Counted(inode[p], -1)
<1>0. /\ call[p] # Idle /\ call[p].at = "count" /\ UNCHANGED open /\ Return(p)
      /\ eFileLock' = [eFileLock EXCEPT ![h] = NO_LOCK]
      /\ unused' = IF inode'[p].nLock = 0 THEN [unused EXCEPT ![p] = 0] ELSE unused
  BY DEF CountDown
<1>1. /\ call[p] \in Calls /\ h \in Handles /\ h \in Mine(p) /\ Proc[h] = p /\ h \in open
      /\ eFileLock[h] \in Levels /\ Level(p) \in Levels /\ sys[p] \in Kernel
      /\ \A o \in Mine(p) : o \in Handles /\ Proc[o] = p /\ eFileLock[o] \in Levels
  BY <1>0, InCall
<1>2. /\ call'[p] = Idle /\ eFileLock'[h] = NO_LOCK
      /\ \A o \in Mine(p) : o # h => eFileLock'[o] = eFileLock[o]
  BY <1>0, <1>1 DEF Return, TypeOK
<1>3. /\ eFileLock[h] # NO_LOCK /\ (eFileLock[h] = SHARED_LOCK \/ Level(p) = SHARED_LOCK)
      /\ call[p].want = NO_LOCK
  BY <1>0 DEF ProcessInv, CallInProgress, Mine1
<1>4. /\ h \in Locked(p) /\ Level(p) # NO_LOCK
      /\ inode[p].nShared \in Nat \ {0}
      /\ inode[p].nShared <= 1 <=> Locked(p) = {h}
      /\ inode[p].nShared = Cardinality(Locked(p)) /\ inode[p].nLock = inode[p].nShared
  BY <1>0, <1>3, OnlyOne DEF Mine1, ProcessInv, Counts
<1>5. Locked(p)' = Locked(p) \ {h}
  BY <1>1, <1>2 DEF Locked
<1>6. Cardinality(Locked(p) \ {h}) = Cardinality(Locked(p)) - 1
  <2>1. IsFiniteSet(Locked(p))
    BY Counting
  <2>2. Cardinality(Locked(p) \ {h}) =
           IF h \in Locked(p) THEN Cardinality(Locked(p)) - 1 ELSE Cardinality(Locked(p))
    BY <2>1, FS_RemoveElement
  <2> QED
    BY <1>4, <2>2
<1>7. left.nShared = inode[p].nShared - 1 /\ left.nLock = inode[p].nLock - 1
      /\ left.eFileLock = Level(p) /\ left \in Inodes
  <2>1. inode[p] \in Inodes /\ inode[p].nShared - 1 \in Nat /\ inode[p].nLock - 1 \in Nat
    BY <1>4 DEF TypeOK, Inodes
  <2>2. /\ left.nShared = inode[p].nShared + (-1) /\ left.nLock = inode[p].nLock + (-1)
        /\ left.eFileLock = inode[p].eFileLock
        /\ inode[p].nShared + (-1) \in Nat /\ inode[p].nLock + (-1) \in Nat => left \in Inodes
    BY <2>1, CountedFields, -1 \in Int
  <2> HIDE DEF left
  <2> QED
    BY <2>1, <2>2 DEF Level, Inodes
<1>8. /\ inode'[p].nShared = inode[p].nShared - 1 /\ inode'[p].nLock = inode[p].nLock - 1
      /\ Level(p)' = IF inode[p].nShared = 1 THEN NO_LOCK ELSE Level(p)
      /\ sys'[p] = IF inode[p].nShared = 1 THEN Unlocked ELSE sys[p]
  <2> HIDE DEF left
  <2>1. /\ inode' = [inode EXCEPT ![p] = IF inode[p].nShared = 1
                       THEN [left EXCEPT !.eFileLock = NO_LOCK] ELSE left]
        /\ sys' = IF inode[p].nShared = 1 THEN [sys EXCEPT ![p] = Unlocked] ELSE sys
    BY DEF CountDown, left
  <2>2. inode \in [Procs -> Inodes] /\ sys \in [Procs -> Kernel]
    BY DEF TypeOK, Inodes, Kernel
  <2>3. CASE inode[p].nShared = 1
    BY <1>7, <2>1, <2>2, <2>3 DEF Level, Inodes
  <2>4. CASE inode[p].nShared # 1
    BY <1>7, <2>1, <2>2, <2>4 DEF Level
  <2> QED
    BY <2>3, <2>4
<1>9. Counts(p)'
  <2>1. unused'[p] = 0 \/ inode'[p].nLock # 0
    BY <1>0 DEF TypeOK
  <2>2. Locked(p)' = {} <=> inode[p].nShared = 1
    BY <1>4, <1>5
  <2>3. inode'[p].nShared = Cardinality(Locked(p)')
    BY <1>4, <1>5, <1>6, <1>8
  <2> QED
    BY <1>4, <1>8, <2>1, <2>2, <2>3 DEF Counts
<1>10. HandleLevels(p)'
  <2>1. \A o \in Mine(p) : o # h => ~At(o, "count")
    BY <1>1 DEF At
  <2>2. CASE inode[p].nShared = 1
    <3>1. \A o \in Mine(p) : eFileLock'[o] = NO_LOCK
      BY <1>1, <1>2, <1>4, <1>5, <2>2 DEF Locked
    <3> QED
      BY <1>8, <2>2, <3>1 DEF HandleLevels
  <2>3. CASE inode[p].nShared # 1
    <3>1. \A o \in Mine(p) :
             /\ eFileLock'[o] > NO_LOCK => o \in open'
             /\ eFileLock'[o] > SHARED_LOCK => eFileLock'[o] = Level(p)'
             /\ Level(p)' = EXCLUSIVE_LOCK => eFileLock'[o] \in {NO_LOCK, EXCLUSIVE_LOCK}
      BY <1>0, <1>1, <1>2, <1>8, <2>1, <2>3 DEF ProcessInv, HandleLevels
    <3>2. \A o, r \in Mine(p) :
             eFileLock'[o] > SHARED_LOCK /\ eFileLock'[r] > SHARED_LOCK => o = r
      BY <1>1, <1>2 DEF ProcessInv, HandleLevels
    <3>3. Level(p)' > SHARED_LOCK => \E o \in Mine(p) : eFileLock'[o] = Level(p)'
      BY <1>1, <1>2, <1>3, <1>8, <2>3 DEF ProcessInv, HandleLevels
    <3> QED
      BY <3>1, <3>2, <3>3 DEF HandleLevels
  <2> QED
    BY <2>2, <2>3
<1>11. CallInProgress(p)'
  BY <1>2 DEF CallInProgress
<1>12. KernelLocks(p)'
  <2>1. CASE inode[p].nShared = 1
    BY <1>2, <1>8, <2>1 DEF KernelLocks, In, Unlocked
  <2>2. CASE inode[p].nShared # 1
    <3>1. sys[p].range = "read" /\ Level(p) # EXCLUSIVE_LOCK
      BY <1>0, <1>1, <1>3, <1>4, <2>2 DEF ProcessInv, KernelLocks, HandleLevels, In
    <3> QED
      BY <1>0, <1>2, <1>3, <1>4, <1>8, <2>2, <3>1 DEF ProcessInv, KernelLocks, In
  <2> QED
    BY <2>1, <2>2
<1> QED
  BY <1>9, <1>10, <1>11, <1>12 DEF ProcessInv

(* A process that ended holds nothing. *)
LEMMA CrashKeeps ==
    ASSUME TypeOK, NEW p \in Procs, Crash(p)
    PROVE  ProcessInv(p)'
<1>1. /\ call'[p] = Idle /\ sys'[p] = Unlocked /\ inode'[p] = FreshInode /\ unused'[p] = 0
      /\ \A h \in Mine(p) : eFileLock'[h] = NO_LOCK
  BY DEF Crash, TypeOK, Mine
<1>2. Locked(p)' = {} /\ Level(p)' = NO_LOCK
  BY <1>1 DEF Locked, Level, FreshInode
<1>3. Counts(p)'
  BY <1>1, <1>2, FS_EmptySet DEF Counts, FreshInode
<1>4. HandleLevels(p)'
  BY <1>1, <1>2 DEF HandleLevels
<1>5. CallInProgress(p)'
  BY <1>1 DEF CallInProgress
<1>6. KernelLocks(p)'
  BY <1>1, <1>2 DEF KernelLocks, In, Unlocked
<1> QED
  BY <1>3, <1>4, <1>5, <1>6 DEF ProcessInv

(* Opening takes a descriptor that waits. *)
LEMMA UnixOpenKeeps ==
    ASSUME TypeOK, NEW p \in Procs, ProcessInv(p), NEW h \in Mine(p), UnixOpen(h)
    PROVE  ProcessInv(p)'
<1>1. /\ h \in Handles /\ Proc[h] = p /\ call[p] = Idle /\ h \notin open
      /\ open' = open \cup {h} /\ UNCHANGED <<eFileLock, inode, call, sys>>
      /\ unused'[p] = IF unused[p] > 0 THEN unused[p] - 1 ELSE 0
  BY DEF UnixOpen, Mine, TypeOK
<1>2. UNCHANGED <<Locked(p), Level(p)>>
  BY <1>1 DEF Locked, Level
<1>3. Counts(p)'
  BY <1>1, <1>2 DEF ProcessInv, Counts
<1>4. HandleLevels(p)'
  BY <1>1, <1>2 DEF ProcessInv, HandleLevels, At
<1>5. CallInProgress(p)'
  BY <1>1 DEF CallInProgress
<1>6. KernelLocks(p)'
  BY <1>1, <1>2 DEF ProcessInv, KernelLocks, In
<1> QED
  BY <1>3, <1>4, <1>5, <1>6 DEF ProcessInv

(* Closing never takes a lock away from another handle. *)
LEMMA UnixCloseKeeps ==
    ASSUME TypeOK, NEW p \in Procs, ProcessInv(p), NEW h \in Mine(p), UnixClose(h)
    PROVE  ProcessInv(p)' /\ sys'[p] = sys[p]
<1>1. /\ h \in Handles /\ Proc[h] = p /\ call[p] = Idle /\ eFileLock[h] = NO_LOCK
      /\ open' = open \ {h} /\ UNCHANGED <<eFileLock, inode, call>>
  BY DEF UnixClose, Mine, TypeOK
<1>2. UNCHANGED <<Locked(p), Level(p)>>
  BY <1>1 DEF Locked, Level
<1>3. inode[p].nLock = Cardinality(Locked(p)) /\ sys[p] \in Kernel
  BY DEF ProcessInv, Counts, TypeOK, Kernel
<1>4. inode[p].nLock > 0 \/ (Locked(p) = {} /\ Level(p) = NO_LOCK)
  BY <1>3, Counting DEF ProcessInv, Counts
<1>5. sys'[p] = sys[p]
  <2>1. CASE inode[p].nLock > 0
    BY <1>1, <2>1 DEF UnixClose
  <2>2. CASE ~(inode[p].nLock > 0)
    <3>1. sys'[p] = Unlocked
      BY <1>1, <2>2 DEF UnixClose, TypeOK
    <3>2. sys[p].pending = "none" /\ sys[p].reserved = "none" /\ sys[p].range = "none"
      BY <1>1, <1>4, <2>2 DEF ProcessInv, KernelLocks, In
    <3> QED
      BY <1>3, <3>1, <3>2 DEF Unlocked, Kernel
  <2> QED
    BY <2>1, <2>2
<1>6. Counts(p)'
  <2>1. Locked(p) = {} => inode[p].nLock = 0
    BY <1>3, Counting
  <2>2. Locked(p) = {} => unused'[p] = 0
    BY <1>1, <2>1 DEF UnixClose, ProcessInv, Counts, TypeOK
  <2> QED
    BY <1>1, <1>2, <2>2 DEF ProcessInv, Counts
<1>7. HandleLevels(p)'
  BY <1>1, <1>2 DEF ProcessInv, HandleLevels, At
<1>8. CallInProgress(p)'
  BY <1>1 DEF CallInProgress
<1>9. KernelLocks(p)'
  BY <1>1, <1>2, <1>5 DEF ProcessInv, KernelLocks, In
<1> QED
  BY <1>5, <1>6, <1>7, <1>8, <1>9 DEF ProcessInv

(* One reader more takes no system call. *)
LEMMA JoinReadersKeeps ==
    ASSUME TypeOK, NEW p \in Procs, ProcessInv(p), NEW h \in Mine(p), JoinReaders(h)
    PROVE  ProcessInv(p)'
<1>1. /\ h \in Handles /\ Proc[h] = p /\ call[p] = Idle /\ eFileLock[h] = NO_LOCK
      /\ h \in open /\ Level(p) \in {SHARED_LOCK, RESERVED_LOCK}
      /\ eFileLock' = [eFileLock EXCEPT ![h] = SHARED_LOCK]
      /\ inode' = [inode EXCEPT ![p] = Counted(@, 1)]
      /\ UNCHANGED <<open, unused, call, sys>>
  BY DEF JoinReaders, Mine, TypeOK, MyInode, Level
<1>2. /\ eFileLock'[h] = SHARED_LOCK
      /\ \A o \in Mine(p) : o # h => eFileLock'[o] = eFileLock[o]
      /\ \A o \in Mine(p) : o \in Handles /\ Proc[o] = p /\ eFileLock[o] \in Levels
  BY <1>1 DEF TypeOK, Mine
<1>3. /\ inode'[p].nShared = inode[p].nShared + 1 /\ inode'[p].nLock = inode[p].nLock + 1
      /\ Level(p)' = Level(p)
  <2>1. inode \in [Procs -> Inodes]
    BY DEF TypeOK, Inodes
  <2>2. inode'[p] = Counted(inode[p], 1)
    BY <1>1, <2>1
  <2> QED
    BY <2>1, <2>2, CountedFields DEF Level
<1>4. Locked(p)' = Locked(p) \cup {h} /\ h \notin Locked(p)
  BY <1>1, <1>2 DEF Locked
<1>5. Cardinality(Locked(p) \cup {h}) = Cardinality(Locked(p)) + 1
  <2>1. IsFiniteSet(Locked(p))
    BY Counting
  <2>2. Cardinality(Locked(p) \cup {h}) =
           IF h \in Locked(p) THEN Cardinality(Locked(p)) ELSE Cardinality(Locked(p)) + 1
    BY <2>1, FS_AddElement
  <2> QED
    BY <1>4, <2>2
<1>6. Counts(p)'
  BY <1>1, <1>3, <1>4, <1>5 DEF ProcessInv, Counts
<1>7. HandleLevels(p)'
  <2>1. \A o \in Mine(p) : ~At(o, "count")
    BY <1>1, <1>2 DEF At
  <2>2. \A o \in Mine(p) :
           /\ eFileLock'[o] > NO_LOCK => o \in open'
           /\ eFileLock'[o] > SHARED_LOCK => eFileLock'[o] = Level(p)'
    BY <1>1, <1>2, <1>3, <2>1 DEF ProcessInv, HandleLevels
  <2>3. \A o, r \in Mine(p) :
           eFileLock'[o] > SHARED_LOCK /\ eFileLock'[r] > SHARED_LOCK => o = r
    BY <1>1, <1>2 DEF ProcessInv, HandleLevels
  <2>4. Level(p)' > SHARED_LOCK => \E o \in Mine(p) : eFileLock'[o] = Level(p)'
    BY <1>1, <1>2, <1>3 DEF ProcessInv, HandleLevels
  <2> QED
    BY <1>1, <1>3, <2>2, <2>3, <2>4 DEF HandleLevels
<1>8. CallInProgress(p)'
  BY <1>1 DEF CallInProgress
<1>9. KernelLocks(p)'
  BY <1>1, <1>3 DEF ProcessInv, KernelLocks, In
<1> QED
  BY <1>6, <1>7, <1>8, <1>9 DEF ProcessInv

(* Whatever p does, its own invariant holds afterwards. *)
LEMMA StepKeeps ==
    ASSUME TypeOK, NEW p \in Procs, ProcessInv(p), StepOf(p)
    PROVE  ProcessInv(p)'
<1>1. CASE RequestOf(p)
  BY <1>1, UnixOpenKeeps, UnixCloseKeeps, JoinReadersKeeps, LockKeeps, UnlockKeeps
     DEF RequestOf
<1>2. CASE SystemCall(p)
  BY <1>2, LockPendingByteKeeps, LockRangeKeeps, DropPendingByteKeeps, LockReservedByteKeeps,
     DowngradeRangeKeeps, ReleaseBytesKeeps, CountDownKeeps DEF SystemCall
<1> QED
  BY <1>1, <1>2, CrashKeeps DEF StepOf

------------------------------------------------------------------------------
(* Between processes *)

(* A process gets a kernel lock that does not conflict with the others of  *)
(* its kind, keeps it or gives it back.                                    *)
Fits(mine, before, other) ==
    \/ mine = before \/ mine = "none"
    \/ mine = "read" /\ other # "write"
    \/ mine = "write" /\ other = "none"

(* What a step of p does to its kernel locks fits those of q. *)
LEMMA KernelStep ==
    ASSUME TypeOK, NEW p \in Procs, ProcessInv(p), StepOf(p), NEW q \in Procs \ {p}
    PROVE  /\ Fits(sys'[p].pending, sys[p].pending, sys[q].pending)
           /\ Fits(sys'[p].reserved, sys[p].reserved, sys[q].reserved)
           /\ Fits(sys'[p].range, sys[p].range, sys[q].range)
           /\ \/ sys'[p].range = sys[p].range \/ sys'[p].range = "none"
              \/ LockRange(p) \/ DowngradeRange(p)
<1>0. sys \in [Procs -> Kernel] /\ sys[p] \in Kernel
  BY DEF TypeOK, Kernel
<1> USE DEF Fits
<1>1. CASE RequestOf(p)
  <2>1. ASSUME NEW h \in Mine(p), UnixClose(h) PROVE sys'[p] = sys[p]
    BY <2>1, UnixCloseKeeps
  <2>2. ASSUME NEW h \in Mine(p),
               \/ UnixOpen(h) \/ JoinReaders(h)
               \/ \E want \in Levels : Lock(h, want) \/ Unlock(h, want)
        PROVE  sys'[p] = sys[p]
    BY <2>2 DEF UnixOpen, JoinReaders, Lock, Unlock
  <2>3. sys'[p] = sys[p]
    BY <1>1, <2>1, <2>2 DEF RequestOf
  <2> QED
    BY <2>3
<1>2. CASE Crash(p)
  BY <1>0, <1>2 DEF Crash, Unlocked
<1>3. CASE LockPendingByte(p)
  BY <1>0, <1>3 DEF LockPendingByte, Granted, Grantable, Kernel, LockTypes
<1>4. CASE LockRange(p)
  BY <1>0, <1>4 DEF LockRange, Granted, Grantable, Kernel, LockTypes
<1>5. CASE DropPendingByte(p)
  BY <1>0, <1>5 DEF DropPendingByte, Kernel
<1>6. CASE LockReservedByte(p)
  BY <1>0, <1>6 DEF LockReservedByte, Granted, Grantable, Kernel, LockTypes
<1>7. CASE DowngradeRange(p)
  BY <1>0, <1>7 DEF DowngradeRange, Granted, Grantable, Kernel, LockTypes
<1>8. CASE ReleaseBytes(p)
  BY <1>0, <1>8 DEF ReleaseBytes, Kernel
<1>9. CASE CountDown(p)
  BY <1>0, <1>9 DEF CountDown, Unlocked
<1> QED
  BY <1>1, <1>2, <1>3, <1>4, <1>5, <1>6, <1>7, <1>8, <1>9 DEF StepOf, SystemCall

(* EXCLUSIVE comes from a write lock on the shared range. *)
LEMMA ExclusiveStep ==
    ASSUME TypeOK, NEW p \in Procs, ProcessInv(p), StepOf(p),
           Level(p)' = EXCLUSIVE_LOCK, Level(p) # EXCLUSIVE_LOCK
    PROVE  \A q \in Procs \ {p} : sys[q].range = "none"
<1>0. inode \in [Procs -> Inodes] /\ inode[p] \in Inodes
  BY DEF TypeOK, Inodes
<1>1. CASE LockRange(p)
  BY <1>0, <1>1 DEF LockRange, Granted, Grantable, Reached, Level, Inodes
<1>2. CASE RequestOf(p)
  <2>1. inode'[p] = inode[p] \/ inode'[p] = Counted(inode[p], 1)
    BY <1>0, <1>2 DEF RequestOf, UnixOpen, UnixClose, JoinReaders, Lock, Unlock, Mine
  <2>2. Level(p)' = Level(p)
    BY <1>0, <2>1, CountedFields DEF Level
  <2> QED
    BY <2>2
<1>3. CASE Crash(p)
  BY <1>0, <1>3 DEF Crash, FreshInode, Level
<1>4. CASE LockPendingByte(p)
  BY <1>0, <1>4 DEF LockPendingByte, Reached, Level, Inodes
<1>5. CASE DropPendingByte(p)
  BY <1>0, <1>5 DEF DropPendingByte, Level, Inodes
<1>6. CASE LockReservedByte(p)
  BY <1>0, <1>6 DEF LockReservedByte, Reached, Level, Inodes
<1>7. CASE DowngradeRange(p)
  BY <1>7 DEF DowngradeRange, Level
<1>8. CASE ReleaseBytes(p)
  BY <1>0, <1>8 DEF ReleaseBytes, Level, Inodes
<1>9. CASE CountDown(p)
  <2>1. Level(p)' = Level(p) \/ Level(p)' = NO_LOCK
    <3>1. Counted(inode[p], -1).eFileLock = Level(p)
      BY <1>0, CountedFields, -1 \in Int DEF Level
    <3>2. [Counted(inode[p], -1) EXCEPT !.eFileLock = NO_LOCK].eFileLock = NO_LOCK
      BY DEF Counted
    <3>3. \/ inode'[p] = Counted(inode[p], -1)
          \/ inode'[p] = [Counted(inode[p], -1) EXCEPT !.eFileLock = NO_LOCK]
      BY <1>0, <1>9 DEF CountDown
    <3> QED
      BY <3>1, <3>2, <3>3 DEF Level
  <2> QED
    BY <2>1
<1> QED
  BY <1>1, <1>2, <1>3, <1>4, <1>5, <1>6, <1>7, <1>8, <1>9 DEF StepOf, SystemCall

(* Who has EXCLUSIVE has the pending byte, who reads the shared range. *)
LEMMA ExclusiveHasPending ==
    ASSUME TypeOK, NEW p \in Procs, ProcessInv(p)
    PROVE  /\ Level(p) >= PENDING_LOCK => sys[p].pending = "write"
           /\ Level(p) # NO_LOCK => sys[p].range # "none"
<1>1. Level(p) \in Levels
  BY DEF TypeOK, Level
<1>2. Level(p) # NO_LOCK => \A at \in {"range", "shared", "busy"} : ~In(p, at, SHARED_LOCK)
  BY DEF ProcessInv, CallInProgress, In
<1> QED
  BY <1>1, <1>2 DEF ProcessInv, KernelLocks

(* No process gets the range that another has EXCLUSIVE. *)
LEMMA RangeStays ==
    ASSUME TypeOK, NEW p \in Procs, NEW q \in Procs \ {p},
           ProcessInv(p), ProcessInv(q), Apart(q, p), StepOf(p),
           Level(q) = EXCLUSIVE_LOCK
    PROVE  sys'[p].range = "none"
<1>1. sys[p].pending = "none" /\ sys[p].range = "none"
  BY ExclusiveHasPending DEF Apart
<1>2. ~LockRange(p)
  <2> SUFFICES ASSUME LockRange(p) PROVE FALSE
    OBVIOUS
  <2>1. call[p] # Idle /\ call[p].at = "range"
    BY DEF LockRange
  <2> QED
    BY <1>1, <2>1 DEF ProcessInv, CallInProgress, KernelLocks, In
<1>3. ~DowngradeRange(p)
  <2> SUFFICES ASSUME DowngradeRange(p) PROVE FALSE
    OBVIOUS
  <2>1. call[p] # Idle /\ call[p].at = "downgrade"
    BY DEF DowngradeRange
  <2>2. Level(p) # NO_LOCK
    BY <2>1 DEF ProcessInv, CallInProgress
  <2> QED
    BY <1>1, <2>2, ExclusiveHasPending
<1> QED
  BY <1>1, <1>2, <1>3, KernelStep

(* Every step keeps the processes apart. *)
LEMMA ConflictsKeep ==
    ASSUME UnixInv, NEW p \in Procs, StepOf(p)
    PROVE  Conflicts'
<1>1. ASSUME NEW q \in Procs \ {p} PROVE Apart(p, q)' /\ Apart(q, p)'
  <2>1. TypeOK /\ ProcessInv(p) /\ ProcessInv(q) /\ Apart(p, q) /\ Apart(q, p)
    BY DEF UnixInv, Conflicts
  <2>2. sys'[q] = sys[q] /\ Level(q)' = Level(q)
    BY <2>1, OthersStay DEF SameFor, Level
  <2>3. /\ Fits(sys'[p].pending, sys[p].pending, sys[q].pending)
        /\ Fits(sys'[p].reserved, sys[p].reserved, sys[q].reserved)
        /\ Fits(sys'[p].range, sys[p].range, sys[q].range)
    BY <2>1, KernelStep
  <2>4. Apart(p, q)'
    BY <2>1, <2>2, <2>3, ExclusiveStep DEF Apart, Fits
  <2>5. Apart(q, p)'
    BY <2>1, <2>2, <2>3, RangeStays DEF Apart, Fits
  <2> QED
    BY <2>4, <2>5
<1>2. ASSUME NEW q \in Procs \ {p}, NEW r \in Procs \ {p}, q # r PROVE Apart(q, r)'
  <2>1. /\ sys'[q] = sys[q] /\ Level(q)' = Level(q)
        /\ sys'[r] = sys[r] /\ Level(r)' = Level(r)
    BY OthersStay DEF SameFor, Level, UnixInv
  <2>2. Apart(q, r)
    BY <1>2 DEF UnixInv, Conflicts
  <2> QED
    BY <2>1, <2>2 DEF Apart
<1> QED
  BY <1>1, <1>2 DEF Conflicts

------------------------------------------------------------------------------
(* The theorems *)

(* Nothing is locked at first. *)
LEMMA UnixStarts == Init => UnixInv
<1> SUFFICES ASSUME Init PROVE UnixInv
  OBVIOUS
<1>1. /\ \A p \in Procs : /\ call[p] = Idle /\ inode[p] = FreshInode /\ unused[p] = 0
                          /\ sys[p] = Unlocked
      /\ \A h \in Handles : eFileLock[h] = NO_LOCK
  BY DEF Init
<1>2. TypeOK
  BY DEF Init, TypeOK, FreshInode, Unlocked, LockTypes
<1>3. ASSUME NEW p \in Procs PROVE ProcessInv(p)
  <2>1. Locked(p) = {} /\ Level(p) = NO_LOCK
    BY <1>1 DEF Locked, Level, FreshInode, Mine
  <2>2. Counts(p)
    BY <1>1, <2>1, FS_EmptySet DEF Counts, FreshInode
  <2>3. HandleLevels(p)
    BY <1>1, <2>1 DEF HandleLevels, Mine
  <2>4. CallInProgress(p) /\ KernelLocks(p)
    BY <1>1, <2>1 DEF CallInProgress, KernelLocks, In, Unlocked
  <2> QED
    BY <2>2, <2>3, <2>4 DEF ProcessInv
<1>4. Conflicts
  BY <1>1 DEF Conflicts, Apart, Unlocked, Level, FreshInode
<1> QED
  BY <1>2, <1>3, <1>4 DEF UnixInv

(* Every step keeps the whole invariant. *)
LEMMA UnixKeeps == UnixInv /\ [Next]_vars => UnixInv'
<1> SUFFICES ASSUME UnixInv, [Next]_vars PROVE UnixInv'
  OBVIOUS
<1>1. CASE Next
  <2>1. PICK p \in Procs : StepOf(p)
    BY <1>1, StepIsOfOne
  <2>2. TypeOK'
    BY <2>1, TypeKeeps DEF UnixInv
  <2>3. \A q \in Procs : ProcessInv(q)'
    BY <2>1, StepKeeps, OthersStay, OthersKeep DEF UnixInv
  <2>4. Conflicts'
    BY <2>1, ConflictsKeep
  <2> QED
    BY <2>2, <2>3, <2>4 DEF UnixInv
<1>2. CASE UNCHANGED vars
  <2>1. TypeOK'
    BY <1>2 DEF UnixInv, TypeOK, vars
  <2>2. ASSUME NEW q \in Procs PROVE ProcessInv(q)'
    BY <1>2, OthersKeep DEF UnixInv, vars, SameFor
  <2>3. Conflicts'
    BY <1>2 DEF UnixInv, Conflicts, Apart, Level, vars
  <2> QED
    BY <2>1, <2>2, <2>3 DEF UnixInv
<1> QED
  BY <1>1, <1>2

(* The invariant of every process, and the one between them, hold in every *)
(* reachable state.                                                        *)
THEOREM UnixInvariant == Spec => []UnixInv
  BY UnixStarts, UnixKeeps, PTL DEF Spec

(* Whatever calls are under way, a handle has one of the five levels and   *)
(* the kernel has locks only for handles' processes.                       *)
THEOREM LocksTypeCorrect == Spec => []TypeOK
<1>1. UnixInv => TypeOK
  BY DEF UnixInv
<1> QED
  BY <1>1, UnixInvariant, PTL

(* Outside a call, what a process has in the kernel is what its            *)
(* unixInodeInfo says, and what its handles hold.                          *)
THEOREM KernelIsMatched == Spec => []InodeMatchesKernel
<1>1. UnixInv => InodeMatchesKernel
  <2> SUFFICES ASSUME UnixInv, NEW p \in Procs, call[p] = Idle
               PROVE  /\ sys[p].range = IF Level(p) = NO_LOCK THEN "none"
                                        ELSE IF Level(p) = EXCLUSIVE_LOCK THEN "write" ELSE "read"
                      /\ sys[p].pending = IF Level(p) >= PENDING_LOCK THEN "write" ELSE "none"
                      /\ Level(p) = RESERVED_LOCK => sys[p].reserved = "write"
                      /\ Level(p) <= SHARED_LOCK => sys[p].reserved = "none"
                      /\ inode[p].nShared = Cardinality(Locked(p))
                      /\ inode[p].nLock = inode[p].nShared
                      /\ Locked(p) # {} => \E h \in Locked(p) : eFileLock[h] = Level(p)
                      /\ Locked(p) = {} => Level(p) = NO_LOCK /\ unused[p] = 0
    BY DEF InodeMatchesKernel, Level, Locked
  <2>1. Counts(p) /\ HandleLevels(p) /\ KernelLocks(p)
    BY DEF UnixInv, ProcessInv
  <2>2. /\ Level(p) \in Levels
        /\ \A h \in Mine(p) : eFileLock[h] \in Levels /\ ~At(h, "count")
    BY DEF UnixInv, TypeOK, Level, Mine, At
  <2>3. Locked(p) # {} => \E h \in Locked(p) : eFileLock[h] = Level(p)
    BY <2>1, <2>2 DEF Counts, HandleLevels, Locked
  <2> QED
    BY <2>1, <2>3 DEF Counts, KernelLocks, In
<1> QED
  BY <1>1, UnixInvariant, PTL

(* Whoever asks unixCheckReservedLock is told of every writer. *)
THEOREM WritersAreKnown == Spec => []WritersAreSeen
<1>1. UnixInv => WritersAreSeen
  <2> SUFFICES ASSUME UnixInv, NEW h \in open, NEW o \in Handles,
                      call[Proc[h]] = Idle, o \in Reserving
               PROVE  CheckReservedLock(h)
    BY DEF WritersAreSeen
  <2>1. h \in Handles /\ Proc[h] \in Procs /\ Proc[o] \in Procs
    BY DEF UnixInv, TypeOK
  <2>2. sys[Proc[o]].reserved = "write"
    BY DEF Reserving
  <2>3. CASE Proc[o] = Proc[h]
    BY <2>1, <2>2, <2>3 DEF UnixInv, ProcessInv, KernelLocks, CheckReservedLock, MyInode,
       Level, TypeOK
  <2>4. CASE Proc[o] # Proc[h]
    BY <2>1, <2>2, <2>4 DEF CheckReservedLock
  <2> QED
    BY <2>3, <2>4
<1> QED
  BY <1>1, UnixInvariant, PTL

------------------------------------------------------------------------------
(* The refinement *)

(* What the handles of a process hold, by the stage of its call. *)
LEMMA HeldIs ==
    ASSUME NEW p \in Procs, NEW h \in Mine(p)
    PROVE  Held(h) =
             IF call[p] = Idle \/ call[p].h # h THEN eFileLock[h]
             ELSE IF call[p].at \in {"shared", "count"} THEN SHARED_LOCK
             ELSE IF In(p, "range", EXCLUSIVE_LOCK) THEN PENDING_LOCK
             ELSE eFileLock[h]
  BY DEF Held, At, In, Mine

(* The same after a step. *)
LEMMA HeldBecomes ==
    ASSUME NEW p \in Procs, NEW h \in Mine(p)
    PROVE  Held(h)' =
             IF call'[p] = Idle \/ call'[p].h # h THEN eFileLock'[h]
             ELSE IF call'[p].at \in {"shared", "count"} THEN SHARED_LOCK
             ELSE IF In(p, "range", EXCLUSIVE_LOCK)' THEN PENDING_LOCK
             ELSE eFileLock'[h]
  BY DEF Held, At, In, Mine

(* What the levels of the handles of p say of its kernel locks. *)
LEMMA HeldBounds ==
    ASSUME UnixInv, NEW p \in Procs, NEW h \in Mine(p)
    PROVE  /\ Held(h) \in Levels
           /\ Held(h) >= PENDING_LOCK => sys[p].pending = "write"
           /\ Held(h) # NO_LOCK => sys[p].range # "none"
           /\ Held(h) = EXCLUSIVE_LOCK => Level(p) = EXCLUSIVE_LOCK
           /\ Held(h) > SHARED_LOCK => Level(p) # NO_LOCK
<1>0. TypeOK /\ ProcessInv(p)
  BY DEF UnixInv
<1>1. h \in Handles /\ eFileLock[h] \in Levels /\ Level(p) \in Levels
  BY <1>0 DEF TypeOK, Mine, Level
<1>2. CASE call[p] = Idle \/ call[p].h # h
  <2>1. Held(h) = eFileLock[h] /\ ~At(h, "count")
    BY <1>2, HeldIs DEF At, Mine
  <2>2. /\ eFileLock[h] > SHARED_LOCK => eFileLock[h] = Level(p)
        /\ eFileLock[h] # NO_LOCK => Level(p) # NO_LOCK
    BY <1>0, <1>1, <2>1 DEF ProcessInv, HandleLevels, Counts, Locked
  <2> QED
    BY <1>0, <1>1, <2>1, <2>2, ExclusiveHasPending
<1>3. CASE call[p] # Idle /\ call[p].h = h
  <2>1. CASE call[p].at = "shared"
    BY <1>0, <1>3, <2>1, HeldIs DEF ProcessInv, CallInProgress, KernelLocks, In
  <2>2. CASE call[p].at = "count"
    BY <1>0, <1>3, <2>2, HeldIs DEF ProcessInv, CallInProgress, KernelLocks, In
  <2>3. CASE In(p, "range", EXCLUSIVE_LOCK)
    <3>1. Held(h) = PENDING_LOCK
      BY <1>3, <2>3, HeldIs DEF In
    <3>2. Level(p) \in SHARED_LOCK..PENDING_LOCK /\ sys[p].pending = "write" /\ sys[p].range = "read"
      BY <1>0, <1>3, <2>3 DEF ProcessInv, CallInProgress, KernelLocks, In
    <3> QED
      BY <3>1, <3>2
  <2>4. CASE call[p].at \notin {"shared", "count"} /\ ~In(p, "range", EXCLUSIVE_LOCK)
    <3>1. Held(h) = eFileLock[h] /\ ~At(h, "count")
      BY <1>3, <2>4, HeldIs DEF At, Mine
    <3>2. /\ eFileLock[h] > SHARED_LOCK => eFileLock[h] = Level(p)
          /\ eFileLock[h] # NO_LOCK => Level(p) # NO_LOCK
      BY <1>0, <1>1, <3>1 DEF ProcessInv, HandleLevels, Counts, Locked
    <3> QED
      BY <1>0, <1>1, <3>1, <3>2, ExclusiveHasPending
  <2> QED
    BY <2>1, <2>2, <2>3, <2>4
<1> QED
  BY <1>2, <1>3

(* One handle of p changes its level, and the others of p nothing. *)
Moves(p, h, level) ==
    /\ Held(h)' = level
    /\ \A o \in Mine(p) : o # h => Held(o)' = Held(o)

held == [h \in Handles |-> Held(h)]

(* The handles of other processes hold what they held. *)
LEMMA HeldElsewhere ==
    ASSUME UnixInv, NEW p \in Procs, StepOf(p), NEW o \in Handles, Proc[o] # p
    PROVE  Held(o)' = Held(o) /\ (o \in Reserving' <=> o \in Reserving)
<1>1. Proc[o] \in Procs \ {p} /\ o \in Mine(Proc[o])
  BY DEF Mine
<1>2. SameFor(Proc[o])
  BY <1>1, OthersStay DEF UnixInv
<1>3. Held(o)' = Held(o)
  BY <1>1, <1>2 DEF Held, At, SameFor
<1> QED
  BY <1>2, <1>3 DEF Reserving, SameFor

(* Then the levels as a whole change in one place. *)
LEMMA Moved ==
    ASSUME UnixInv, NEW p \in Procs, StepOf(p), NEW h \in Mine(p), NEW level, Moves(p, h, level)
    PROVE  held' = [held EXCEPT ![h] = level]
<1>1. \A o \in Handles : o # h => Held(o)' = Held(o)
  BY HeldElsewhere DEF Moves, Mine
<1>2. h \in Handles /\ Held(h)' = level
  BY DEF Mine, Moves
<1> QED
  BY <1>1, <1>2 DEF held

(* Or not at all. *)
LEMMA Stayed ==
    ASSUME UnixInv, NEW p \in Procs, StepOf(p),
           \A o \in Mine(p) : Held(o)' = Held(o), sys'[p].reserved = sys[p].reserved
    PROVE  UNCHANGED <<held, Reserving>>
<1>1. \A o \in Handles : Held(o)' = Held(o) /\ (o \in Reserving' <=> o \in Reserving)
  BY HeldElsewhere DEF Mine, Reserving
<1>2. Reserving \subseteq Handles /\ Reserving' \subseteq Handles
  BY DEF Reserving
<1> QED
  BY <1>1, <1>2 DEF held

(* Opening, closing, and entering a call change no lock. *)
LEMMA RequestStays ==
    ASSUME UnixInv, NEW p \in Procs, StepOf(p), NEW h \in Mine(p),
           \/ UnixOpen(h) \/ UnixClose(h)
           \/ \E want \in Levels : Lock(h, want) \/ Unlock(h, want)
    PROVE  UNCHANGED <<held, Reserving>>
<1>0. TypeOK /\ ProcessInv(p) /\ h \in Handles /\ Proc[h] = p
  BY DEF UnixInv, Mine
<1>1. CASE UnixOpen(h) \/ UnixClose(h)
  <2>1. call[p] = Idle /\ call'[p] = Idle /\ UNCHANGED eFileLock
    BY <1>0, <1>1 DEF UnixOpen, UnixClose
  <2>2. sys'[p] = sys[p]
    BY <1>0, <1>1, UnixCloseKeeps DEF UnixOpen
  <2>3. \A o \in Mine(p) : Held(o)' = Held(o)
    BY <2>1, HeldIs, HeldBecomes
  <2> QED
    BY <2>2, <2>3, Stayed
<1>2. ASSUME NEW want \in Levels, Lock(h, want) PROVE UNCHANGED <<held, Reserving>>
  <2>1. /\ call[p] = Idle /\ UNCHANGED <<eFileLock, sys>>
        /\ call'[p] # Idle /\ call'[p].h = h /\ call'[p].at \in {"pending", "reserved", "range"}
        /\ call'[p].at = "range" => eFileLock[h] = PENDING_LOCK
    <3>1. /\ call[p] = Idle /\ UNCHANGED <<eFileLock, sys>>
          /\ call'[p] = [h |-> h, want |-> want,
                         at |-> IF want = RESERVED_LOCK THEN "reserved"
                                ELSE IF eFileLock[h] = PENDING_LOCK THEN "range" ELSE "pending"]
      BY <1>0, <1>2 DEF Lock, TypeOK
    <3>2. call'[p] \in Calls
      BY <1>0, <3>1 DEF Calls, Stages
    <3> QED
      BY <3>1, <3>2
  <2>2. \A o \in Mine(p) : Held(o)' = Held(o)
    BY <2>1, HeldIs, HeldBecomes DEF In
  <2> QED
    BY <2>1, <2>2, Stayed
<1>3. ASSUME NEW want \in Levels, Unlock(h, want) PROVE UNCHANGED <<held, Reserving>>
  <2>1. /\ call[p] = Idle /\ UNCHANGED <<eFileLock, sys>>
        /\ call'[p] # Idle /\ call'[p].h = h /\ call'[p].at \in {"count", "downgrade", "release"}
        /\ call'[p].at = "count" => eFileLock[h] = SHARED_LOCK
    <3>1. /\ call[p] = Idle /\ UNCHANGED <<eFileLock, sys>>
          /\ call'[p] = [h |-> h, want |-> want,
                         at |-> IF eFileLock[h] = SHARED_LOCK THEN "count"
                                ELSE IF want = SHARED_LOCK THEN "downgrade" ELSE "release"]
      BY <1>0, <1>3 DEF Unlock, TypeOK
    <3>2. call'[p] \in Calls
      BY <1>0, <3>1 DEF Calls, Stages
    <3> QED
      BY <3>1, <3>2
  <2>2. \A o \in Mine(p) : Held(o)' = Held(o)
    BY <2>1, HeldIs, HeldBecomes DEF In
  <2> QED
    BY <2>1, <2>2, Stayed
<1> QED
  BY <1>1, <1>2, <1>3

(* The call of p goes on or ends without a lock more or less. *)
LEMMA CallStays ==
    ASSUME UnixInv, NEW p \in Procs, StepOf(p), call[p] # Idle,
           UNCHANGED eFileLock, sys'[p].reserved = sys[p].reserved,
           call[p].at \notin {"shared", "count"}, ~In(p, "range", EXCLUSIVE_LOCK),
           \/ Return(p)
           \/ \E at \in Stages : /\ Goto(p, at) /\ at \notin {"shared", "count"}
                                 /\ at = "range" => call[p].want = SHARED_LOCK
    PROVE  UNCHANGED <<held, Reserving>>
<1>0. TypeOK /\ ProcessInv(p)
  BY DEF UnixInv
<1>1. CASE Return(p)
  <2>1. call'[p] = Idle
    BY <1>0, <1>1 DEF Return, TypeOK
  <2>2. \A o \in Mine(p) : Held(o)' = Held(o)
    BY <2>1, HeldIs, HeldBecomes
  <2> QED
    BY <2>2, Stayed
<1>2. ASSUME NEW at \in Stages, Goto(p, at), at \notin {"shared", "count"},
             at = "range" => call[p].want = SHARED_LOCK
      PROVE  UNCHANGED <<held, Reserving>>
  <2>1. call[p] \in Calls
    BY <1>0, InCall
  <2>2. /\ call'[p] # Idle /\ call'[p].h = call[p].h
        /\ call'[p].want = call[p].want /\ call'[p].at = at
    BY <1>0, <1>2, <2>1 DEF Goto, TypeOK, Calls
  <2>3. \A o \in Mine(p) : Held(o)' = Held(o)
    BY <1>2, <2>2, HeldIs, HeldBecomes DEF In
  <2> QED
    BY <2>3, Stayed
<1> QED
  BY <1>1, <1>2

(* A process that reads lets one more of its handles read. *)
LEMMA JoinReadersShares ==
    ASSUME UnixInv, NEW p \in Procs, StepOf(p), NEW h \in Mine(p), JoinReaders(h)
    PROVE  FL!Share(h)
<1>0. TypeOK /\ ProcessInv(p) /\ h \in Handles /\ Proc[h] = p
  BY DEF UnixInv, Mine
<1>1. /\ call[p] = Idle /\ call'[p] = Idle /\ eFileLock[h] = NO_LOCK
      /\ Level(p) \in {SHARED_LOCK, RESERVED_LOCK}
      /\ eFileLock' = [eFileLock EXCEPT ![h] = SHARED_LOCK] /\ UNCHANGED sys
  BY <1>0 DEF JoinReaders, MyInode, Level
<1>2. \A o \in Mine(p) : Held(o) = eFileLock[o] /\ Held(o)' = eFileLock'[o] /\ o \in Handles
  BY <1>1, HeldIs, HeldBecomes DEF Mine
<1>3. Moves(p, h, SHARED_LOCK) /\ Held(h) = NO_LOCK
  BY <1>0, <1>1, <1>2 DEF Moves, TypeOK
<1>4. held' = [held EXCEPT ![h] = SHARED_LOCK]
  BY <1>3, Moved
<1>5. UNCHANGED Reserving
  <2>1. \A o \in Handles : o \in Reserving' <=> o \in Reserving
    BY <1>0, <1>1, <1>3, HeldElsewhere DEF Reserving, Moves, Mine
  <2>2. Reserving \subseteq Handles /\ Reserving' \subseteq Handles
    BY DEF Reserving
  <2> QED
    BY <2>1, <2>2
<1>6. PICK peer \in Mine(p) : Held(peer) # NO_LOCK
  <2>1. Locked(p) # {}
    BY <1>0, <1>1 DEF ProcessInv, Counts
  <2> QED
    BY <1>2, <2>1 DEF Locked
<1>7. ASSUME NEW o \in Handles
      PROVE  /\ Held(o) < EXCLUSIVE_LOCK
             /\ Held(o) = PENDING_LOCK => Proc[o] # Proc[h]
  <2>1. Proc[o] \in Procs /\ o \in Mine(Proc[o])
    BY DEF Mine
  <2>2. Held(o) \in Levels
    BY <2>1, HeldBounds
  <2>3. CASE Proc[o] = p
    <3>1. eFileLock[o] > SHARED_LOCK => eFileLock[o] = Level(p)
      BY <1>0, <1>1, <2>1, <2>3 DEF ProcessInv, HandleLevels, At
    <3> QED
      BY <1>1, <1>2, <2>1, <2>2, <2>3, <3>1
  <2>4. CASE Proc[o] # p
    <3>1. Apart(Proc[o], p)
      BY <2>1, <2>4 DEF UnixInv, Conflicts
    <3>2. sys[p].range # "none"
      BY <1>0, <1>1, ExclusiveHasPending
    <3> QED
      BY <1>0, <2>1, <2>2, <2>4, <3>1, <3>2, HeldBounds DEF Apart
  <2> QED
    BY <2>3, <2>4
<1> QED
  BY <1>0, <1>3, <1>4, <1>5, <1>6, <1>7 DEF FL!Share, held, Mine

(* The bytes of the file that reserved stands for. *)
LEMMA ReservingStays ==
    ASSUME UnixInv, NEW p \in Procs, StepOf(p), sys'[p].reserved = sys[p].reserved,
           NEW h \in Mine(p), \A o \in Mine(p) : o # h => Held(o)' = Held(o),
           sys[p].reserved = "write" => (Held(h)' > SHARED_LOCK <=> Held(h) > SHARED_LOCK)
    PROVE  UNCHANGED Reserving
<1>1. \A o \in Handles : o \in Reserving' <=> o \in Reserving
  BY HeldElsewhere DEF Reserving, Mine
<1>2. Reserving \subseteq Handles /\ Reserving' \subseteq Handles
  BY DEF Reserving
<1> QED
  BY <1>1, <1>2

(* The pending byte makes PENDING. *)
LEMMA LockPendingByteMaps ==
    ASSUME UnixInv, NEW p \in Procs, StepOf(p), LockPendingByte(p)
    PROVE  (\E h \in Handles : FL!Pend(h)) \/ UNCHANGED <<held, Reserving>>
<1>h. PICK h \in Handles : h = call[p].h
  BY InCall DEF UnixInv, LockPendingByte
<1>0. /\ TypeOK /\ ProcessInv(p) /\ call[p] # Idle /\ call[p].at = "pending"
      /\ call[p] \in Calls /\ h \in Handles /\ h \in Mine(p) /\ Proc[h] = p
      /\ eFileLock[h] \in Levels /\ Level(p) \in Levels /\ sys[p] \in Kernel
      /\ \A o \in Mine(p) : o \in Handles /\ Proc[o] = p /\ eFileLock[o] \in Levels
  BY <1>h, InCall DEF UnixInv, LockPendingByte
<1>1. call[p].want \in {SHARED_LOCK, EXCLUSIVE_LOCK}
  BY <1>0 DEF ProcessInv, CallInProgress
<1>2. CASE UNCHANGED <<eFileLock, sys>> /\ Return(p)
  BY <1>0, <1>2, CallStays DEF In
<1>3. CASE /\ call[p].want = SHARED_LOCK /\ UNCHANGED eFileLock
           /\ Granted(p, "pending", "read") /\ Goto(p, "range")
  <2>1. sys'[p].reserved = sys[p].reserved
    BY <1>0, <1>3 DEF Granted, TypeOK, Kernel
  <2> QED
    BY <1>0, <1>3, <2>1, CallStays DEF In, Stages
<1>4. CASE /\ call[p].want = EXCLUSIVE_LOCK /\ Granted(p, "pending", "write")
           /\ IF inode[p].nShared > 1
                THEN Reached(p, PENDING_LOCK)
                ELSE Goto(p, "range") /\ UNCHANGED eFileLock
  <2>0. call[p].h = h
    BY <1>h
  <2>1. sys'[p].reserved = sys[p].reserved
    BY <1>0, <1>4 DEF Granted, TypeOK, Kernel
  <2>2. /\ eFileLock[h] = Level(p) /\ Level(p) \in {SHARED_LOCK, RESERVED_LOCK}
    BY <1>0, <1>4, <2>0 DEF ProcessInv, CallInProgress, In, Mine1
  <2>3. Held(h) = eFileLock[h] /\ \A o \in Mine(p) : o # h => Held(o) = eFileLock[o]
    BY <1>0, <2>0, HeldIs DEF In
  <2>4. Moves(p, h, PENDING_LOCK)
    <3>1. CASE Reached(p, PENDING_LOCK)
      <4>1. call'[p] = Idle /\ eFileLock' = [eFileLock EXCEPT ![h] = PENDING_LOCK]
        BY <1>0, <2>0, <3>1 DEF Reached, Return, TypeOK
      <4> QED
        BY <1>0, <2>3, <4>1, HeldBecomes DEF Moves, TypeOK
    <3>2. CASE Goto(p, "range") /\ UNCHANGED eFileLock
      <4>1. call'[p] # Idle /\ call'[p].h = h /\ call'[p].want = EXCLUSIVE_LOCK
            /\ call'[p].at = "range"
        BY <1>0, <1>4, <2>0, <3>2 DEF Goto, TypeOK, Calls, Stages
      <4> QED
        BY <1>0, <2>3, <3>2, <4>1, HeldBecomes DEF Moves, In
    <3> QED
      BY <1>4, <3>1, <3>2
  <2>5. held' = [held EXCEPT ![h] = PENDING_LOCK]
    BY <1>0, <2>0, <2>4, Moved
  <2>6. UNCHANGED Reserving
    <3>1. Level(p) = SHARED_LOCK => sys[p].reserved = "none"
      BY <1>0 DEF ProcessInv, KernelLocks
    <3> QED
      BY <1>0, <2>0, <2>1, <2>2, <2>3, <2>4, <3>1, ReservingStays DEF Moves
  <2>7. ASSUME NEW o \in Handles PROVE Held(o) < PENDING_LOCK
    <3>1. Proc[o] \in Procs /\ o \in Mine(Proc[o])
      BY DEF Mine
    <3>2. Held(o) \in Levels /\ (Held(o) >= PENDING_LOCK => sys[Proc[o]].pending = "write")
      BY <3>1, HeldBounds
    <3>3. CASE Proc[o] = p
      <4>1. ~At(o, "count")
        BY <1>0, <3>3 DEF At
      <4>2. eFileLock[o] > SHARED_LOCK => eFileLock[o] = Level(p)
        BY <1>0, <3>1, <3>3, <4>1 DEF ProcessInv, HandleLevels
      <4> QED
        BY <1>0, <2>2, <2>3, <3>1, <3>3, <4>2
    <3>4. CASE Proc[o] # p
      <4>1. sys[Proc[o]].pending = "none"
        BY <1>4, <3>1, <3>4 DEF Granted, Grantable
      <4> QED
        BY <3>2, <4>1
    <3> QED
      BY <3>3, <3>4
  <2>8. FL!Pend(h)
    BY <1>0, <2>0, <2>2, <2>3, <2>5, <2>6, <2>7 DEF FL!Pend, held
  <2> QED
    BY <2>0, <2>8
<1> QED
  BY <1>1, <1>2, <1>3, <1>4 DEF LockPendingByte

(* The shared range makes SHARED, or EXCLUSIVE. *)
LEMMA LockRangeMaps ==
    ASSUME UnixInv, NEW p \in Procs, StepOf(p), LockRange(p)
    PROVE  (\E h \in Handles : FL!Share(h) \/ FL!Exclude(h)) \/ UNCHANGED <<held, Reserving>>
<1>h. PICK h \in Handles : h = call[p].h
  BY InCall DEF UnixInv, LockRange
<1>0. /\ TypeOK /\ ProcessInv(p) /\ call[p] # Idle /\ call[p].at = "range"
      /\ call[p] \in Calls /\ h \in Handles /\ h \in Mine(p) /\ Proc[h] = p
      /\ eFileLock[h] \in Levels /\ Level(p) \in Levels /\ sys[p] \in Kernel
      /\ \A o \in Mine(p) : o \in Handles /\ Proc[o] = p /\ eFileLock[o] \in Levels
  BY <1>h, InCall DEF UnixInv, LockRange
<1>1. call[p].want \in {SHARED_LOCK, EXCLUSIVE_LOCK}
  BY <1>0 DEF ProcessInv, CallInProgress
<1>2. CASE /\ call[p].want = SHARED_LOCK /\ UNCHANGED <<eFileLock, sys>> /\ Goto(p, "busy")
  BY <1>0, <1>2, CallStays DEF In, Stages
<1>3. CASE /\ call[p].want = SHARED_LOCK /\ UNCHANGED eFileLock
           /\ Granted(p, "range", "read") /\ Goto(p, "shared")
  <2>0. call[p].h = h
    BY <1>h
  <2>1. sys'[p].reserved = sys[p].reserved
    BY <1>0, <1>3 DEF Granted, TypeOK, Kernel
  <2>2. /\ Level(p) = NO_LOCK /\ sys[p].pending = "read" /\ sys[p].reserved = "none"
        /\ \A o \in Mine(p) : eFileLock[o] = NO_LOCK
    BY <1>0, <1>3 DEF ProcessInv, CallInProgress, KernelLocks, Counts, Locked, In
  <2>3. \A o \in Mine(p) : Held(o) = NO_LOCK
    BY <1>0, <1>3, <2>2, HeldIs DEF In
  <2>4. Moves(p, h, SHARED_LOCK)
    <3>1. call'[p] # Idle /\ call'[p].h = h /\ call'[p].at = "shared"
      BY <1>0, <1>3, <2>0 DEF Goto, TypeOK, Calls, Stages
    <3> QED
      BY <1>0, <1>3, <2>2, <2>3, <3>1, HeldBecomes DEF Moves
  <2>5. held' = [held EXCEPT ![h] = SHARED_LOCK]
    BY <1>0, <2>0, <2>4, Moved
  <2>6. UNCHANGED Reserving
    BY <1>0, <2>0, <2>1, <2>2, <2>4, ReservingStays DEF Moves
  <2>7. ASSUME NEW o \in Handles PROVE Held(o) < PENDING_LOCK
    <3>1. Proc[o] \in Procs /\ o \in Mine(Proc[o])
      BY DEF Mine
    <3>2. Held(o) \in Levels /\ (Held(o) >= PENDING_LOCK => sys[Proc[o]].pending = "write")
      BY <3>1, HeldBounds
    <3>3. Proc[o] # p => Apart(Proc[o], p)
      BY <3>1 DEF UnixInv, Conflicts
    <3> QED
      BY <2>2, <2>3, <3>1, <3>2, <3>3 DEF Apart
  <2>8. FL!Share(h)
    <3>1. \A o \in Handles : Held(o) < EXCLUSIVE_LOCK /\ Held(o) # PENDING_LOCK
      BY <2>7, HeldBounds DEF Mine
    <3> QED
      BY <1>0, <2>0, <2>3, <2>5, <2>6, <3>1 DEF FL!Share, held
  <2> QED
    BY <2>0, <2>8
<1>4. CASE /\ call[p].want = EXCLUSIVE_LOCK /\ UNCHANGED sys /\ Reached(p, PENDING_LOCK)
  <2>0. call[p].h = h
    BY <1>h
  <2>1. call'[p] = Idle /\ eFileLock' = [eFileLock EXCEPT ![h] = PENDING_LOCK]
    BY <1>0, <1>4, <2>0 DEF Reached, Return, TypeOK
  <2>2. \A o \in Mine(p) : Held(o)' = Held(o)
    <3>1. Held(h) = PENDING_LOCK /\ \A o \in Mine(p) : o # h => Held(o) = eFileLock[o]
      BY <1>0, <1>4, <2>0, HeldIs DEF In
    <3>2. \A o \in Mine(p) : Held(o)' = eFileLock'[o]
      BY <2>1, HeldBecomes
    <3> QED
      BY <1>0, <2>1, <3>1, <3>2 DEF TypeOK
  <2> QED
    BY <1>4, <2>2, Stayed
<1>5. CASE /\ call[p].want = EXCLUSIVE_LOCK /\ Granted(p, "range", "write")
           /\ Reached(p, EXCLUSIVE_LOCK)
  <2>0. call[p].h = h
    BY <1>h
  <2>1. sys'[p].reserved = sys[p].reserved
    BY <1>0, <1>5 DEF Granted, TypeOK, Kernel
  <2>2. call'[p] = Idle /\ eFileLock' = [eFileLock EXCEPT ![h] = EXCLUSIVE_LOCK]
    BY <1>0, <1>5, <2>0 DEF Reached, Return, TypeOK
  <2>3. Locked(p) = {h}
    BY <1>0, <1>5, <2>0 DEF ProcessInv, CallInProgress, In
  <2>4. Held(h) = PENDING_LOCK /\ \A o \in Mine(p) : o # h => Held(o) = NO_LOCK
    BY <1>0, <1>5, <2>0, <2>3, HeldIs DEF In, Locked
  <2>5. Moves(p, h, EXCLUSIVE_LOCK)
    <3>1. \A o \in Mine(p) : o # h => eFileLock[o] = NO_LOCK
      BY <1>0, <2>3 DEF Locked
    <3> QED
      BY <1>0, <2>2, <2>4, <3>1, HeldBecomes DEF Moves, TypeOK
  <2>6. held' = [held EXCEPT ![h] = EXCLUSIVE_LOCK]
    BY <1>0, <2>0, <2>5, Moved
  <2>7. UNCHANGED Reserving
    BY <1>0, <2>0, <2>1, <2>4, <2>5, ReservingStays DEF Moves
  <2>8. ASSUME NEW o \in Handles, o # h PROVE Held(o) = NO_LOCK
    <3>1. Proc[o] \in Procs /\ o \in Mine(Proc[o])
      BY DEF Mine
    <3>2. Held(o) # NO_LOCK => sys[Proc[o]].range # "none"
      BY <3>1, HeldBounds
    <3>3. Proc[o] # p => sys[Proc[o]].range = "none"
      BY <1>5, <3>1 DEF Granted, Grantable
    <3> QED
      BY <2>4, <2>8, <3>1, <3>2, <3>3
  <2>9. FL!Exclude(h)
    BY <1>0, <2>0, <2>4, <2>6, <2>7, <2>8 DEF FL!Exclude, held
  <2> QED
    BY <2>0, <2>9
<1> QED
  BY <1>1, <1>2, <1>3, <1>4, <1>5 DEF LockRange

(* The reserved byte makes RESERVED. *)
LEMMA LockReservedByteMaps ==
    ASSUME UnixInv, NEW p \in Procs, StepOf(p), LockReservedByte(p)
    PROVE  (\E h \in Handles : FL!Reserve(h)) \/ UNCHANGED <<held, Reserving>>
<1>h. PICK h \in Handles : h = call[p].h
  BY InCall DEF UnixInv, LockReservedByte
<1>0. /\ TypeOK /\ ProcessInv(p) /\ call[p] # Idle /\ call[p].at = "reserved"
      /\ call[p] \in Calls /\ h \in Mine(p) /\ Proc[h] = p /\ sys[p] \in Kernel
      /\ \A o \in Mine(p) : o \in Handles /\ Proc[o] = p /\ eFileLock[o] \in Levels
  BY <1>h, InCall DEF UnixInv, LockReservedByte
<1>1. CASE UNCHANGED <<eFileLock, sys>> /\ Return(p)
  BY <1>0, <1>1, CallStays DEF In
<1>2. CASE Granted(p, "reserved", "write") /\ Reached(p, RESERVED_LOCK)
  <2>1. sys'[p].reserved = "write"
    BY <1>0, <1>2 DEF Granted, TypeOK, Kernel
  <2>2. call'[p] = Idle /\ eFileLock' = [eFileLock EXCEPT ![h] = RESERVED_LOCK]
    BY <1>h, <1>0, <1>2 DEF Reached, Return, TypeOK
  <2>3. eFileLock[h] = SHARED_LOCK /\ Level(p) = SHARED_LOCK /\ sys[p].reserved = "none"
    BY <1>h, <1>0 DEF ProcessInv, CallInProgress, KernelLocks, Mine1
  <2>4. \A o \in Mine(p) : Held(o) = eFileLock[o] /\ Held(o)' = eFileLock'[o]
    BY <1>0, <2>2, HeldIs, HeldBecomes DEF In
  <2>5. Moves(p, h, RESERVED_LOCK)
    BY <1>0, <2>2, <2>4 DEF Moves, TypeOK
  <2>6. held' = [held EXCEPT ![h] = RESERVED_LOCK]
    BY <1>0, <2>5, Moved
  <2>7. Reserving = {}
    <3>1. ASSUME NEW o \in Handles PROVE sys[Proc[o]].reserved # "write"
      <4>1. Proc[o] # p => sys[Proc[o]].reserved = "none"
        BY <1>2 DEF Granted, Grantable
      <4> QED
        BY <2>3, <4>1
    <3> QED
      BY <3>1 DEF Reserving
  <2>8. Reserving' = {h}
    <3>1. ASSUME NEW o \in Handles PROVE o \in Reserving' <=> o = h
      <4>1. CASE Proc[o] # p
        BY <1>0, <2>7, <4>1, HeldElsewhere
      <4>2. CASE Proc[o] = p
        <5>1. o \in Mine(p)
          BY <4>2 DEF Mine
        <5>2. ~At(o, "count")
          BY <1>0, <4>2 DEF At
        <5>3. o # h => Held(o)' = Held(o) /\ ~(Held(o) > SHARED_LOCK)
          BY <1>0, <2>3, <2>4, <2>5, <5>1, <5>2 DEF Moves, ProcessInv, HandleLevels
        <5>4. Held(h)' = RESERVED_LOCK
          BY <2>5 DEF Moves
        <5> QED
          BY <2>1, <4>2, <5>3, <5>4, <1>0 DEF Reserving
      <4> QED
        BY <4>1, <4>2
    <3> QED
      BY <3>1 DEF Reserving
  <2>9. FL!Reserve(h)
    BY <1>0, <2>3, <2>4, <2>6, <2>7, <2>8 DEF FL!Reserve, held
  <2> QED
    BY <2>9
<1> QED
  BY <1>1, <1>2 DEF LockReservedByte

(* SHARED was there before the pending byte goes. *)
LEMMA DropPendingByteMaps ==
    ASSUME UnixInv, NEW p \in Procs, StepOf(p), DropPendingByte(p)
    PROVE  UNCHANGED <<held, Reserving>>
<1>h. PICK h \in Handles : h = call[p].h
  BY InCall DEF UnixInv, DropPendingByte
<1>0. /\ TypeOK /\ ProcessInv(p) /\ call[p] # Idle /\ call[p].at \in {"shared", "busy"}
      /\ call[p] \in Calls /\ h \in Mine(p) /\ Proc[h] = p /\ sys[p] \in Kernel
      /\ \A o \in Mine(p) : o \in Handles /\ Proc[o] = p /\ eFileLock[o] \in Levels
  BY <1>h, InCall DEF UnixInv, DropPendingByte
<1>1. sys'[p].reserved = sys[p].reserved /\ call'[p] = Idle
  BY <1>0 DEF DropPendingByte, Return, TypeOK, Kernel
<1>2. eFileLock' = IF call[p].at = "shared"
                     THEN [eFileLock EXCEPT ![h] = SHARED_LOCK] ELSE eFileLock
  BY <1>h DEF DropPendingByte
<1>3. \A o \in Mine(p) : Held(o)' = eFileLock'[o]
  BY <1>1, HeldBecomes
<1>4. \A o \in Mine(p) :
         Held(o) = IF call[p].at = "shared" /\ o = h THEN SHARED_LOCK ELSE eFileLock[o]
  BY <1>h, <1>0, HeldIs DEF In
<1>5. \A o \in Mine(p) : Held(o)' = Held(o)
  BY <1>0, <1>2, <1>3, <1>4 DEF TypeOK
<1> QED
  BY <1>1, <1>5, Stayed

(* The range alone does not change a level. *)
LEMMA DowngradeRangeMaps ==
    ASSUME UnixInv, NEW p \in Procs, StepOf(p), DowngradeRange(p)
    PROVE  UNCHANGED <<held, Reserving>>
<1>0. /\ TypeOK /\ call[p] # Idle /\ call[p].at = "downgrade" /\ sys[p] \in Kernel
      /\ UNCHANGED eFileLock
  BY InCall DEF UnixInv, DowngradeRange
<1>1. sys'[p].reserved = sys[p].reserved
  BY <1>0 DEF DowngradeRange, Granted, TypeOK, Kernel
<1> QED
  BY <1>0, <1>1, CallStays DEF DowngradeRange, In, Stages

(* Without the two bytes the level is SHARED. *)
LEMMA ReleaseBytesMaps ==
    ASSUME UnixInv, NEW p \in Procs, StepOf(p), ReleaseBytes(p)
    PROVE  \E h \in Handles : FL!Downgrade(h)
<1>h. PICK h \in Handles : h = call[p].h
  BY InCall DEF UnixInv, ReleaseBytes
<1>0. /\ TypeOK /\ ProcessInv(p) /\ call[p] # Idle /\ call[p].at = "release"
      /\ call[p] \in Calls /\ h \in Mine(p) /\ Proc[h] = p /\ sys[p] \in Kernel
      /\ \A o \in Mine(p) : o \in Handles /\ Proc[o] = p /\ eFileLock[o] \in Levels
  BY <1>h, InCall DEF UnixInv, ReleaseBytes
<1>1. sys'[p].reserved = "none"
  BY <1>0 DEF ReleaseBytes, TypeOK, Kernel
<1>2. eFileLock[h] > SHARED_LOCK
  BY <1>h, <1>0 DEF ProcessInv, CallInProgress, Mine1
<1>3. \A o \in Mine(p) : Held(o) = eFileLock[o] /\ (o # h => ~(Held(o) > SHARED_LOCK))
  BY <1>0, <1>2, HeldIs DEF In, ProcessInv, HandleLevels
<1>4. Moves(p, h, SHARED_LOCK)
  <2>1. CASE call[p].want = SHARED_LOCK
    <3>1. call'[p] = Idle /\ eFileLock' = [eFileLock EXCEPT ![h] = SHARED_LOCK]
      BY <1>h, <1>0, <2>1 DEF ReleaseBytes, Return, TypeOK
    <3> QED
      BY <1>0, <1>3, <3>1, HeldBecomes DEF Moves, TypeOK
  <2>2. CASE call[p].want # SHARED_LOCK
    <3>1. UNCHANGED eFileLock /\ Goto(p, "count")
      BY <2>2 DEF ReleaseBytes
    <3>2. call'[p] # Idle /\ call'[p].h = h /\ call'[p].at = "count"
      BY <1>h, <1>0, <3>1 DEF Goto, TypeOK, Calls, Stages
    <3> QED
      BY <1>0, <1>3, <3>1, <3>2, HeldBecomes DEF Moves
  <2> QED
    BY <2>1, <2>2
<1>5. held' = [held EXCEPT ![h] = SHARED_LOCK]
  BY <1>0, <1>4, Moved
<1>6. Reserving' = Reserving \ {h}
  <2>1. ASSUME NEW o \in Handles PROVE o \in Reserving' <=> o \in Reserving /\ o # h
    <3>1. CASE Proc[o] # p
      BY <1>0, <3>1, HeldElsewhere
    <3>2. CASE Proc[o] = p
      <4>1. o \in Mine(p)
        BY <3>2 DEF Mine
      <4> QED
        BY <1>1, <1>3, <3>2, <4>1 DEF Reserving
    <3> QED
      BY <3>1, <3>2
  <2> QED
    BY <2>1 DEF Reserving
<1> QED
  BY <1>0, <1>2, <1>3, <1>5, <1>6 DEF FL!Downgrade, held

(* The handle that is counted down loses its lock, no other does. *)
LEMMA CountDownMaps ==
    ASSUME UnixInv, NEW p \in Procs, StepOf(p), CountDown(p)
    PROVE  \E h \in Handles : FL!Lose({h})
<1>h. PICK h \in Handles : h = call[p].h
  BY InCall DEF UnixInv, CountDown
<1>0. /\ TypeOK /\ ProcessInv(p) /\ call[p] # Idle /\ call[p].at = "count"
      /\ call[p] \in Calls /\ h \in Mine(p) /\ Proc[h] = p /\ sys[p] \in Kernel
      /\ \A o \in Mine(p) : o \in Handles /\ Proc[o] = p /\ eFileLock[o] \in Levels
  BY <1>h, InCall DEF UnixInv, CountDown
<1>1. call'[p] = Idle /\ eFileLock' = [eFileLock EXCEPT ![h] = NO_LOCK]
  BY <1>h, <1>0 DEF CountDown, Return, TypeOK
<1>2. \A o \in Mine(p) : Held(o)' = eFileLock'[o] /\ (o # h => Held(o) = eFileLock[o])
  BY <1>h, <1>0, <1>1, HeldIs, HeldBecomes
<1>3. Moves(p, h, NO_LOCK)
  BY <1>0, <1>1, <1>2 DEF Moves, TypeOK
<1>4. held' = [held EXCEPT ![h] = NO_LOCK]
  BY <1>0, <1>3, Moved
<1>5. ~(Held(h) > SHARED_LOCK)
  BY <1>h, <1>0, HeldIs
<1>6. Reserving' = Reserving \ {h}
  <2>1. ASSUME NEW o \in Handles PROVE o \in Reserving' <=> o \in Reserving /\ o # h
    <3>1. CASE Proc[o] # p
      BY <1>0, <3>1, HeldElsewhere
    <3>2. CASE Proc[o] = p /\ o # h
      <4>1. o \in Mine(p) /\ Held(o)' = Held(o)
        BY <1>3, <3>2 DEF Mine, Moves
      <4>2. CASE inode[p].nShared = 1
        <5>1. call[p].h \in Locked(p) /\ Locked(p) = {h}
          BY <1>h, <1>0, <4>2, OnlyOne DEF ProcessInv, CallInProgress
        <5>2. Held(o) = NO_LOCK
          BY <1>0, <1>2, <3>2, <4>1, <5>1 DEF Locked
        <5> QED
          BY <4>1, <5>2 DEF Reserving
      <4>3. CASE inode[p].nShared # 1
        <5>1. UNCHANGED sys
          BY <4>3 DEF CountDown
        <5> QED
          BY <3>2, <4>1, <5>1 DEF Reserving
      <4> QED
        BY <4>2, <4>3
    <3>3. CASE o = h
      BY <1>3, <1>5, <3>3 DEF Moves, Reserving
    <3> QED
      BY <3>1, <3>2, <3>3
  <2> QED
    BY <2>1 DEF Reserving
<1>7. held' = [o \in Handles |-> IF o \in {h} THEN NO_LOCK ELSE held[o]]
  BY <1>4 DEF held
<1> QED
  BY <1>6, <1>7 DEF FL!Lose, held

(* All handles of a process lose theirs at once. *)
LEMMA CrashMaps ==
    ASSUME UnixInv, NEW p \in Procs, StepOf(p), Crash(p)
    PROVE  FL!Lose(Mine(p))
<1>1. \A o \in Mine(p) : Held(o)' = NO_LOCK
  BY HeldBecomes DEF Crash, UnixInv, TypeOK, Mine
<1>2. held' = [o \in Handles |-> IF o \in Mine(p) THEN NO_LOCK ELSE held[o]]
  BY <1>1, HeldElsewhere DEF held, Mine
<1>3. Reserving' = Reserving \ Mine(p)
  <2>1. \A o \in Handles : o \in Reserving' <=> o \in Reserving /\ o \notin Mine(p)
    BY <1>1, HeldElsewhere DEF Reserving, Mine
  <2> QED
    BY <2>1 DEF Reserving
<1> QED
  BY <1>2, <1>3 DEF FL!Lose, held

(* Whatever the connections of any processes do, their levels follow the   *)
(* pager's protocol: os_unix.c implements FileLocks.                       *)
THEOREM LocksImplement == Spec => Implements
<1>1. Init => FL!Init
  <2> SUFFICES ASSUME Init PROVE FL!Init
    OBVIOUS
  <2>1. \A h \in Handles : Held(h) = NO_LOCK
    BY DEF Init, Held, At
  <2>2. Reserving = {}
    BY <2>1 DEF Reserving
  <2> QED
    BY <2>1, <2>2 DEF FL!Init
<1>2. UnixInv /\ [Next]_vars => [FL!Next]_FL!vars
  <2> SUFFICES ASSUME UnixInv, [Next]_vars PROVE FL!Next \/ UNCHANGED <<held, Reserving>>
    BY DEF FL!vars, held
  <2>1. CASE UNCHANGED vars
    BY <2>1 DEF vars, held, Reserving, Held, At
  <2>2. CASE Next
    <3>1. PICK p \in Procs : StepOf(p)
      BY <2>2, StepIsOfOne
    <3>2. CASE RequestOf(p)
      <4>1. PICK h \in Mine(p) :
               \/ UnixOpen(h) \/ UnixClose(h) \/ JoinReaders(h)
               \/ \E want \in Levels : Lock(h, want) \/ Unlock(h, want)
        BY <3>2 DEF RequestOf
      <4>2. h \in Handles
        BY DEF Mine
      <4> QED
        BY <3>1, <4>1, <4>2, RequestStays, JoinReadersShares DEF FL!Next
    <3>3. CASE SystemCall(p)
      <4>1. \/ \E h \in Handles : \/ FL!Share(h) \/ FL!Reserve(h) \/ FL!Pend(h)
                                  \/ FL!Exclude(h) \/ FL!Downgrade(h) \/ FL!Lose({h})
            \/ UNCHANGED <<held, Reserving>>
        BY <3>1, <3>3, LockPendingByteMaps, LockRangeMaps, LockReservedByteMaps,
           DropPendingByteMaps, DowngradeRangeMaps, ReleaseBytesMaps, CountDownMaps
           DEF SystemCall
      <4>2. \A h \in Handles : {h} \in SUBSET Handles
        OBVIOUS
      <4> QED
        BY <4>1, <4>2, Zenon DEF FL!Next
    <3>4. CASE Crash(p)
      <4>1. Mine(p) \in SUBSET Handles
        BY DEF Mine
      <4> QED
        BY <3>1, <3>4, <4>1, CrashMaps DEF FL!Next
    <3> QED
      BY <3>1, <3>2, <3>3, <3>4 DEF StepOf
  <2> QED
    BY <2>1, <2>2
<1> QED
  BY <1>1, <1>2, UnixInvariant, PTL DEF Spec, Implements, FL!Spec

(* Nobody reads the database while a connection of any process may be      *)
(* writing to it.                                                          *)
THEOREM ExclusiveIsAlone == Spec => []FL!ExclusiveMeansAlone
<1>1. UnixInv => FL!ExclusiveMeansAlone
  <2> SUFFICES ASSUME UnixInv, NEW h \in Handles, NEW o \in Handles,
                      Held(h) = EXCLUSIVE_LOCK, o # h
               PROVE  Held(o) = NO_LOCK
    BY DEF FL!ExclusiveMeansAlone
  <2>1. /\ Proc[h] \in Procs /\ Proc[o] \in Procs
        /\ h \in Mine(Proc[h]) /\ o \in Mine(Proc[o])
    BY DEF Mine
  <2>2. Level(Proc[h]) = EXCLUSIVE_LOCK
    BY <2>1, HeldBounds
  <2>3. CASE Proc[o] # Proc[h]
    <3>1. Apart(Proc[h], Proc[o])
      BY <2>1, <2>3 DEF UnixInv, Conflicts
    <3> QED
      BY <2>1, <2>2, <3>1, HeldBounds DEF Apart
  <2>4. CASE Proc[o] = Proc[h]
    <3>1. HandleLevels(Proc[h]) /\ CallInProgress(Proc[h])
      BY <2>1 DEF UnixInv, ProcessInv
    <3>2. eFileLock[h] = EXCLUSIVE_LOCK
      BY <2>1, HeldIs
    <3>3. eFileLock[o] = NO_LOCK
      BY <2>1, <2>2, <2>4, <3>1, <3>2 DEF HandleLevels
    <3>4. call[Proc[h]] # Idle /\ call[Proc[h]].h = o =>
             /\ call[Proc[h]].at \notin {"shared", "count"}
             /\ ~In(Proc[h], "range", EXCLUSIVE_LOCK)
      BY <2>2, <3>1, <3>3 DEF CallInProgress, In, Mine1
    <3> QED
      BY <2>1, <2>4, <3>3, <3>4, HeldIs
  <2> QED
    BY <2>3, <2>4
<1> QED
  BY <1>1, UnixInvariant, PTL
==============================================================================
