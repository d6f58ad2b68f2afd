------------------------------ MODULE PagerProofs ------------------------------
(* Theorems about Pager, for any number of connections, of pages and of    *)
(* faults.  They are about locks, files, the order of writes, and what a   *)
(* playback reads of a journal; PagerRecovery, which extends this module,  *)
(* is about what the playback makes of the database.                       *)
EXTENDS Pager, WellFoundedInduction, SequenceTheorems, TLAPS

FLP == INSTANCE FileLocksProofs WITH Handles <- Conns, Proc <- [c \in Conns |-> c]

USE DEF NO_LOCK, SHARED_LOCK, RESERVED_LOCK, PENDING_LOCK, EXCLUSIVE_LOCK

------------------------------------------------------------------------------
(* The Pager object and its locks *)

Fields == {"mode", "eState", "at", "job", "cache", "vers", "size", "txn", "origSize",
           "dirty", "needSync", "inJournal", "jfd", "dirSync", "hdr", "off",
           "spilled", "todo"}

(* A record of these fields, whatever their values. *)
IsPager(P) == P = [f \in Fields |-> P[f]]

(* Q is P but for the fields F. *)
Differs(P, Q, F) == IsPager(Q) /\ \A f \in Fields \ F : Q[f] = P[f]

(* The same of the files. *)
IsFile(J) == J = [i \in 1..JournalLen |-> J[i]]

FilesOK ==
    /\ db = [p \in Pages |-> db[p]]
    /\ jrnl = [id \in Journals |-> jrnl[id]]
    /\ \A id \in Journals : IsFile(jrnl[id])
    /\ dir.disk \subseteq Journals \cup {Nothing}
    /\ dir.now \in Journals \cup {Nothing}

IsWriter(P) ==
    P.eState \in {"WRITER_LOCKED", "WRITER_CACHEMOD", "WRITER_DBMOD", "WRITER_FINISHED"}

(* The locks that go with the states of a pager and with the stages of its *)
(* calls; "res" says whether it had RESERVED on its way to "level".  This  *)
(* is what assert_pager_state asserts, and what each stage relies on.      *)
Fits(P, level, res) ==
    /\ P.eState \in {"OPEN", "READER", "WRITER_LOCKED", "WRITER_CACHEMOD",
                     "WRITER_DBMOD", "WRITER_FINISHED", "ERROR"}
    /\ P.eState = "READER" => level >= SHARED_LOCK
    /\ IsWriter(P) => level >= RESERVED_LOCK /\ res
    /\ P.eState \in {"WRITER_DBMOD", "WRITER_FINISHED"} => level = EXCLUSIVE_LOCK
    /\ P.eState \in {"READER", "WRITER_LOCKED", "ERROR"} => P.at = "idle"
    /\ P.eState = "WRITER_FINISHED" => P.at \in {"finalize", "zeroed"}
    /\ P.at \in {"journal", "reserved", "peek", "lock", "validate"} =>
          P.eState = "OPEN" /\ level >= SHARED_LOCK
    /\ P.at \in {"open", "play", "finalize", "zeroed"} /\ P.eState = "OPEN" =>
          level = EXCLUSIVE_LOCK
    /\ P.at = "open" => P.eState = "OPEN"
    /\ P.at \in {"exclusive", "records", "header", "failed"} =>
          P.eState \in {"WRITER_CACHEMOD", "WRITER_DBMOD"}
    /\ P.at \in {"records", "header", "write"} => level = EXCLUSIVE_LOCK
    /\ P.at = "write" => P.eState = "WRITER_DBMOD"
    /\ P.at = "play" => P.eState \in {"OPEN", "WRITER_DBMOD"} /\ P.job \in {"hot", "rollback"}
    /\ P.job = "hot" <=> P.eState = "OPEN" /\ P.at \in {"play", "finalize", "zeroed"}
    /\ P.at \in {"finalize", "zeroed"} =>
          \/ P.job \in {"hot", "rollback"}
          \/ P.job = "commit" /\ P.eState = "WRITER_FINISHED"
    /\ P.job = "commit" =>
          P.eState \in {"WRITER_CACHEMOD", "WRITER_DBMOD", "WRITER_FINISHED"}
    /\ P.job = "rollback" => P.at \in {"play", "finalize", "zeroed"}

(* Whoever may write to the journal or to the database. *)
Owner(c) == IsWriter(pager[c]) \/ held[c] = EXCLUSIVE_LOCK

PagerOK(P) ==
    /\ IsPager(P)
    /\ P.mode \in {"delete", "persist"}
    /\ P.at = "zeroed" => P.mode = "persist"
    /\ P.jfd \in Journals \cup {Nothing}
    /\ P.eState \in {"OPEN", "READER", "WRITER_LOCKED", "ERROR"} =>
          P.inJournal = {} /\ P.needSync = {} /\ P.dirty = {}

OnDisk(cell) == cell.disk = {cell.now}

(* (5) of the notes at the top of pager.c: the database file is synced     *)
(* before the journal is deleted or zeroed.  A transaction that is rolled  *)
(* back from the cache has not written to it.                              *)
SyncedFirst(P, file) ==
    P.at \in {"finalize", "zeroed"} /\ P.eState # "WRITER_CACHEMOD" =>
        \A p \in Pages : OnDisk(file[p])

------------------------------------------------------------------------------
(* The journal of a transaction *)

(* A record, one of page p, and a complete header. *)
IsLog(e, txn)      == e.kind = "record" /\ e = Record(e.pgno, e.data, txn)
IsLogOf(e, p, txn) == e.kind = "record" /\ e = Record(p, e.data, txn)
IsHead(e, txn, size) ==
    e.kind = "header" /\ e = Header(TRUE, e.nRec, txn, size) /\ e.nRec \in Nat

(* The cells of a journal before "end" are on the disk, and are segments   *)
(* of a header and as many records as it says: a playback reads them all.  *)
Segments(J, end, txn, size) ==
    /\ \A i \in 1 .. end - 1 :
          OnDisk(J[i]) /\ (IsLog(J[i].now, txn) \/ IsHead(J[i].now, txn, size))
    /\ end > 1 => IsHead(J[1].now, txn, size)
    /\ \A h \in 1 .. end - 1 : IsHead(J[h].now, txn, size) =>
          /\ h + J[h].now.nRec < end
          /\ \A i \in h + 1 .. h + J[h].now.nRec : IsLog(J[i].now, txn)
          /\ h + J[h].now.nRec + 1 < end => IsHead(J[h + J[h].now.nRec + 1].now, txn, size)

Logged(J, p, end, txn) == \E i \in 1 .. end - 1 : IsLogOf(J[i].now, p, txn)

(* A transaction that has neither finished nor begun to roll back. *)
Logging(P) ==
    P.eState \in {"WRITER_CACHEMOD", "WRITER_DBMOD"} /\ P.job # "rollback"

(* The segment at hdr, up to off, is not complete yet. *)
OpenSegment(P, J) ==
    /\ P.hdr < P.off
    /\ J[P.hdr].now.kind = "header"
    /\ \A i \in P.hdr + 1 .. P.off - 1 : IsLog(J[i].now, P.txn)

LogOK(P, J) ==
    /\ P.hdr \in 1 .. JournalLen + 1 /\ P.off \in P.hdr .. JournalLen + 1
    /\ Segments(J, P.hdr, P.txn, P.origSize)
    /\ P.at # "failed" /\ ~(P.at = "write" /\ P.job = "commit") => OpenSegment(P, J)
    /\ P.at = "header" =>
          J[P.hdr].now = Header(TRUE, P.off - P.hdr - 1, P.txn, P.origSize)
    /\ \A p \in P.inJournal : Logged(J, p, P.off, P.txn)
    /\ \A p \in P.inJournal \ P.needSync : Logged(J, p, P.hdr, P.txn)
    /\ \A p \in P.dirty : p <= P.origSize => p \in P.inJournal
    /\ P.job = "spill" => P.spilled \in P.dirty
    /\ P.at = "write" => \/ P.job = "commit" /\ P.needSync = {}
                         \/ P.job = "spill" /\ P.spilled \notin P.needSync
    /\ P.at \in {"exclusive", "records", "header", "write"} => P.job \in {"commit", "spill"}

JournalOK(P, journals) ==
    Logging(P) => P.jfd \in Journals /\ LogOK(P, journals[P.jfd])

------------------------------------------------------------------------------
(* The inductive invariant *)

Good(P, level, res, journals, file) ==
    /\ PagerOK(P)
    /\ Fits(P, level, res)
    /\ JournalOK(P, journals)
    /\ SyncedFirst(P, file)

PagerInv ==
    /\ FilesOK
    /\ pager = [c \in Conns |-> pager[c]]
    /\ \A c \in Conns : Good(pager[c], held[c], c \in reserved, jrnl, db)

------------------------------------------------------------------------------
(* The locks of the pager are those of FileLocks *)

LEMMA LocksStep == [Next]_vars => [FLP!Next]_(FLP!vars)
<1> SUFFICES ASSUME [Next]_vars PROVE [FLP!Next]_(FLP!vars)
  OBVIOUS
<1>1. UNCHANGED locks => UNCHANGED FLP!vars
  BY DEF locks, FLP!vars
<1>2. \A c \in Conns : FL!Share(c) \/ FL!Reserve(c) \/ FL!Pend(c) \/ FL!Exclude(c)
                          \/ FL!Downgrade(c) => FLP!Next
  BY DEF FLP!Next, FL!Share, FLP!Share, FL!Reserve, FLP!Reserve, FL!Pend, FLP!Pend,
         FL!Exclude, FLP!Exclude, FL!Downgrade, FLP!Downgrade,
         FL!NO_LOCK, FL!SHARED_LOCK, FL!RESERVED_LOCK, FL!PENDING_LOCK, FL!EXCLUSIVE_LOCK,
         FLP!NO_LOCK, FLP!SHARED_LOCK, FLP!RESERVED_LOCK, FLP!PENDING_LOCK, FLP!EXCLUSIVE_LOCK
<1>3. \A lost \in SUBSET Conns : FL!Lose(lost) => FLP!Next
  BY DEF FLP!Next, FL!Lose, FLP!Lose, FL!NO_LOCK, FLP!NO_LOCK
<1>4. \A c \in Conns : FL!Lose({c}) => FLP!Next
  BY <1>3
<1>5. ASSUME NEW c \in Conns,
             Share(c) \/ LookForJournal(c) \/ CheckReservedLock(c) \/ PeekAtJournal(c)
             \/ LockForRollback(c) \/ GiveUpRollback(c) \/ OpenHotJournal(c) \/ Validate(c)
             \/ Unlock(c) \/ Begin(c) \/ EndUnwritten(c)
      PROVE  [FLP!Next]_(FLP!vars)
  BY <1>1, <1>2, <1>4, <1>5
  DEF Share, LookForJournal, CheckReservedLock, PeekAtJournal, LockForRollback, GiveUpRollback,
      OpenHotJournal, Validate, Unlock, Begin, EndUnwritten
<1>6. ASSUME NEW c \in Conns,
             BeginCommit(c) \/ ExclusiveLock(c) \/ SyncRecords(c) \/ SyncHeader(c)
             \/ WriteOut(c) \/ SpillOut(c) \/ SyncDatabase(c)
             \/ \E p \in Pages : ReadPage(c, p) \/ Write(c, p) \/ Spill(c, p)
      PROVE  [FLP!Next]_(FLP!vars)
  BY <1>1, <1>2, <1>6
  DEF BeginCommit, ReadPage, Write, Spill, ExclusiveLock, SyncRecords, SyncHeader, WriteOut,
      SpillOut, SyncDatabase
<1>7. ASSUME NEW c \in Conns,
             FinalizeJournal(c) \/ SyncZeroedHeader(c)
             \/ RollbackCache(c) \/ RollbackDatabase(c) \/ PlayRecord(c) \/ Fail(c) \/ Crash(c)
      PROVE  [FLP!Next]_(FLP!vars)
  BY <1>1, <1>2, <1>4, <1>7
  DEF FinalizeJournal, Return, SyncZeroedHeader, RollbackCache, RollbackDatabase, PlayRecord,
      Fail, Crash
<1>8. CASE PowerLoss
  BY <1>3, <1>8 DEF PowerLoss
<1>9. CASE UNCHANGED vars
  BY <1>1, <1>9 DEF vars
<1> QED
  BY <1>5, <1>6, <1>7, <1>8, <1>9, Zenon DEF Next

(* Whatever a connection does, it asks for locks in the order and from the *)
(* levels that the protocol allows.                                        *)
THEOREM PagerKeepsProtocol == Spec => FLP!Spec
<1>1. Init => FLP!Init
  BY DEF Init, FL!Init, FLP!Init, FL!NO_LOCK, FLP!NO_LOCK
<1> QED
  BY <1>1, LocksStep, PTL DEF Spec, FLP!Spec

(* What FileLocksProofs shows of the protocol holds of the pagers. *)
THEOREM PagersShareLocks == Spec => []FLP!LocksInv
<1>1. FLP!Spec => []FLP!LocksInv
  BY FLP!LocksInvariant
<1> QED
  BY <1>1, PagerKeepsProtocol, PTL

OthersKeepLocks(c) ==
    \A o \in Conns \ {c} : held'[o] = held[o] /\ (o \in reserved' <=> o \in reserved)

(* What a request does to the locks of who makes it. *)
LEMMA LockMoves ==
    ASSUME FLP!LocksInv, NEW c \in Conns
    PROVE  /\ held[c] \in 0..4
           /\ FL!Share(c) => OthersKeepLocks(c) /\ held'[c] = SHARED_LOCK
           /\ FL!Reserve(c) => OthersKeepLocks(c) /\ held'[c] = RESERVED_LOCK /\ c \in reserved'
           /\ FL!Pend(c) => /\ OthersKeepLocks(c) /\ reserved' = reserved
                            /\ held'[c] = PENDING_LOCK /\ held[c] \in {1, 2}
           /\ FL!Exclude(c) => /\ OthersKeepLocks(c) /\ reserved' = reserved
                               /\ held'[c] = EXCLUSIVE_LOCK
           /\ FL!Downgrade(c) => OthersKeepLocks(c) /\ held'[c] = SHARED_LOCK
           /\ FL!Lose({c}) => OthersKeepLocks(c) /\ held'[c] = NO_LOCK
           /\ UNCHANGED locks => /\ OthersKeepLocks(c) /\ held'[c] = held[c]
                                 /\ reserved' = reserved
<1>1. held \in [Conns -> 0..4] /\ reserved \subseteq Conns
  BY DEF FLP!LocksInv, FLP!TypeOK, FLP!Levels, FLP!NO_LOCK, FLP!EXCLUSIVE_LOCK
<1> QED
  BY <1>1 DEF OthersKeepLocks, locks, FL!Share, FL!Reserve, FL!Pend, FL!Exclude, FL!Downgrade,
              FL!Lose, FL!NO_LOCK, FL!SHARED_LOCK, FL!RESERVED_LOCK, FL!PENDING_LOCK,
              FL!EXCLUSIVE_LOCK

(* Two connections never both may write. *)
LEMMA OneOwner ==
    ASSUME FLP!LocksInv, PagerInv, NEW c \in Conns, NEW o \in Conns, Owner(c), Owner(o)
    PROVE  c = o
<1>1. /\ FLP!ExclusiveMeansAlone
      /\ \A a, b \in reserved : a = b
  BY DEF FLP!LocksInv, FLP!ReservedIsTaken
<1>2. \A a \in Conns : IsWriter(pager[a]) => a \in reserved /\ held[a] >= RESERVED_LOCK
  BY DEF PagerInv, Good, Fits
<1>3. \A a, b \in Conns : held[a] = EXCLUSIVE_LOCK /\ a # b => held[b] = NO_LOCK
  BY <1>1 DEF FLP!ExclusiveMeansAlone, FLP!EXCLUSIVE_LOCK, FLP!NO_LOCK
<1> QED
  BY <1>1, <1>2, <1>3 DEF Owner

(* What a connection relies on, a step of another one leaves as it is. *)
LEMMA OneMoves ==
    ASSUME FLP!LocksInv, PagerInv, NEW c \in Conns, NEW Q,
           pager' = [pager EXCEPT ![c] = Q],
           OthersKeepLocks(c), FilesOK',
           Owner(c) \/ UNCHANGED disk,
           Good(Q, held'[c], c \in reserved', jrnl', db')
    PROVE  PagerInv'
<1>1. pager'[c] = Q /\ pager' = [a \in Conns |-> pager'[a]]
  BY DEF PagerInv
<1>2. ASSUME NEW o \in Conns \ {c} PROVE Good(pager'[o], held'[o], o \in reserved', jrnl', db')
  <2>1. pager'[o] = pager[o] /\ held'[o] = held[o] /\ (o \in reserved' <=> o \in reserved)
    BY <1>2 DEF PagerInv, OthersKeepLocks
  <2>2. Good(pager[o], held[o], o \in reserved, jrnl, db)
    BY <1>2 DEF PagerInv
  <2>3. PagerOK(pager[o]) /\ Fits(pager[o], held'[o], o \in reserved')
    BY <2>1, <2>2 DEF Good, Fits
  <2>4. JournalOK(pager[o], jrnl') /\ SyncedFirst(pager[o], db')
    <3>1. CASE UNCHANGED disk
      BY <2>2, <3>1 DEF disk, Good, JournalOK, SyncedFirst
    <3>2. CASE Owner(c)
      <4>1. ~Owner(o)
        BY <1>2, <3>2, OneOwner
      <4>2. ~Logging(pager[o])
        BY <4>1 DEF Owner, IsWriter, Logging
      <4>3. ~(pager[o].at \in {"finalize", "zeroed"} /\ pager[o].eState # "WRITER_CACHEMOD")
        BY <2>2, <4>1 DEF Good, Fits, Owner, IsWriter
      <4> QED
        BY <4>2, <4>3 DEF JournalOK, SyncedFirst
    <3> QED
      BY <3>1, <3>2
  <2> QED
    BY <2>1, <2>3, <2>4 DEF Good
<1> QED
  BY <1>1, <1>2 DEF PagerInv

------------------------------------------------------------------------------
(* Steps that leave the files alone *)

LEMMA QuietMoves ==
    ASSUME FLP!LocksInv, PagerInv, NEW c \in Conns, NEW Q,
           pager' = [pager EXCEPT ![c] = Q],
           OthersKeepLocks(c), UNCHANGED disk,
           PagerOK(Q), Fits(Q, held'[c], c \in reserved'),
           ~Logging(Q), Q.at \notin {"finalize", "zeroed"}
    PROVE  PagerInv'
<1>1. FilesOK'
  BY DEF PagerInv, FilesOK, disk
<1>2. Good(Q, held'[c], c \in reserved', jrnl', db')
  BY DEF Good, JournalOK, SyncedFirst
<1> QED
  BY <1>1, <1>2, OneMoves

(* What becomes of a pager that goes back to its first states. *)
LEMMA Reopened ==
    ASSUME NEW m \in {"delete", "persist"}
    PROVE  /\ PagerOK(Fresh(m)) /\ Fresh(m).mode = m /\ Fresh(m).jfd = Nothing
           /\ Fresh(m).eState = "OPEN" /\ Fresh(m).at = "idle" /\ Fresh(m).job = "none"
  BY DEF Fresh, PagerOK, IsPager, Fields

LEMMA ClosedIsOpen ==
    ASSUME NEW P, PagerOK(P), NEW Q, Q = Closed(P) \/ Q = Closed(Emptied(P))
    PROVE  /\ PagerOK(Q) /\ Q.mode = P.mode /\ Q.jfd = Nothing
           /\ Q.eState = "OPEN" /\ Q.at = "idle" /\ Q.job = "none"
<1> DEFINE F == Fresh(P.mode)
<1>1. P.mode \in {"delete", "persist"}
  BY DEF PagerOK
<1>2. /\ PagerOK(F) /\ F.mode = P.mode /\ F.jfd = Nothing
      /\ F.eState = "OPEN" /\ F.at = "idle" /\ F.job = "none"
  BY <1>1, Reopened
<1>3. Emptied(P).mode = P.mode
  BY DEF Emptied, PagerOK, IsPager, Fields
<1>4. \E cache, vers : Q = [F EXCEPT !.cache = cache, !.vers = vers]
  BY <1>3 DEF Closed
<1> HIDE DEF F
<1> QED
  BY <1>2, <1>4 DEF PagerOK, IsPager, Fields

LEMMA BrokenIsError ==
    ASSUME NEW P, PagerOK(P), NEW Q, Q = Broken(P)
    PROVE  /\ PagerOK(Q) /\ Q.mode = P.mode /\ Q.jfd = Nothing
           /\ Q.eState = "ERROR" /\ Q.at = "idle" /\ Q.job = "none"
<1> DEFINE C == Closed(Emptied(P))
<1>1. PagerOK(C) /\ C.mode = P.mode /\ C.jfd = Nothing /\ C.at = "idle" /\ C.job = "none"
      /\ C.eState = "OPEN"
  BY ClosedIsOpen
<1>2. Q = [C EXCEPT !.eState = "ERROR"]
  BY DEF Broken
<1> HIDE DEF C
<1> QED
  BY <1>1, <1>2 DEF PagerOK, IsPager, Fields

LEMMA EndedIsReader ==
    ASSUME NEW P, PagerOK(P), NEW Q, Q = Ended(P)
    PROVE  /\ PagerOK(Q) /\ Q.mode = P.mode
           /\ Q.jfd = IF P.mode = "persist" THEN P.jfd ELSE Nothing
           /\ Q.eState = "READER" /\ Q.at = "idle" /\ Q.job = "none"
<1> DEFINE C == Closed(P)
<1>1. PagerOK(C) /\ C.mode = P.mode /\ C.at = "idle" /\ C.job = "none"
  BY ClosedIsOpen
<1>2. P.jfd \in Journals \cup {Nothing}
  BY DEF PagerOK
<1>3. Q = [C EXCEPT
        !.eState = "READER", !.size = P.size,
        !.cache = [p \in Pages |-> IF p > P.size THEN Nothing ELSE P.cache[p]],
        !.jfd = IF P.mode = "persist" THEN P.jfd ELSE Nothing,
        !.dirSync = P.mode = "persist" /\ P.dirSync]
  BY DEF Ended
<1>4. C.inJournal = {} /\ C.needSync = {} /\ C.dirty = {}
  BY DEF Closed, Fresh
<1> HIDE DEF C
<1>5. /\ IsPager(Q) /\ Q.mode = C.mode /\ Q.at = C.at /\ Q.job = C.job
      /\ Q.inJournal = C.inJournal /\ Q.needSync = C.needSync /\ Q.dirty = C.dirty
      /\ Q.eState = "READER"
      /\ Q.jfd = IF P.mode = "persist" THEN P.jfd ELSE Nothing
  <2> DEFINE cache == [p \in Pages |-> IF p > P.size THEN Nothing ELSE P.cache[p]]
             jfd   == IF P.mode = "persist" THEN P.jfd ELSE Nothing
             sync  == P.mode = "persist" /\ P.dirSync
             size  == P.size
  <2>1. IsPager(C)
    BY <1>1 DEF PagerOK
  <2>2. Q = [C EXCEPT !.eState = "READER", !.size = size, !.cache = cache,
                      !.jfd = jfd, !.dirSync = sync]
    BY <1>3
  <2>3. jfd = IF P.mode = "persist" THEN P.jfd ELSE Nothing
    OBVIOUS
  <2> HIDE DEF cache, jfd, sync, size
  <2>4. /\ Q.mode = C.mode /\ Q.at = C.at /\ Q.job = C.job /\ Q.inJournal = C.inJournal
        /\ Q.needSync = C.needSync /\ Q.dirty = C.dirty
        /\ Q.eState = "READER" /\ Q.jfd = jfd
    BY <2>1, <2>2, SMTT(30) DEF IsPager, Fields
  <2>5. IsPager(Q)
    BY <2>1, <2>2, Zenon DEF IsPager, Fields
  <2> QED
    BY <2>3, <2>4, <2>5
<1> QED
  BY <1>1, <1>2, <1>4, <1>5 DEF PagerOK

(* A call that only moves on, from the OPEN state. *)
LEMMA OpenMoves ==
    ASSUME NEW P, PagerOK(P), NEW at, at # "zeroed", NEW Q, Q = [P EXCEPT !.at = at]
    PROVE  /\ PagerOK(Q) /\ Q.eState = P.eState /\ Q.job = P.job /\ Q.at = at
           /\ Q.mode = P.mode /\ Q.jfd = P.jfd
  BY DEF PagerOK, IsPager, Fields

LEMMA GotoSets ==
    ASSUME PagerInv, NEW c \in Conns, NEW at, Goto(c, at)
    PROVE  pager' = [pager EXCEPT ![c] = [pager[c] EXCEPT !.at = at]]
  BY DEF PagerInv, Goto

(* sqlite3PagerSharedLock but for the rollback of a hot journal. *)
LEMMA SharedLockKeeps ==
    ASSUME FLP!LocksInv, PagerInv, NEW c \in Conns,
           Share(c) \/ LookForJournal(c) \/ CheckReservedLock(c) \/ PeekAtJournal(c)
           \/ LockForRollback(c)
    PROVE  PagerInv'
<1> DEFINE P == pager[c]
<1>1. PagerOK(P) /\ Fits(P, held[c], c \in reserved)
  BY DEF PagerInv, Good
<1>2. P.eState = "OPEN" /\ P.at \in {"idle", "journal", "reserved", "peek", "lock"}
  BY <1>1 DEF Share, LookForJournal, CheckReservedLock, PeekAtJournal, LockForRollback,
            At, Idle, Fits
<1>3. UNCHANGED disk /\ OthersKeepLocks(c)
  BY LockMoves DEF Share, LookForJournal, CheckReservedLock, PeekAtJournal, LockForRollback
<1>4. P.at = "idle" => held'[c] = SHARED_LOCK
  BY LockMoves DEF Share, LookForJournal, CheckReservedLock, PeekAtJournal, LockForRollback, At
<1>5. CASE At(c, "lock") /\ FL!Pend(c) /\ UNCHANGED pager
  <2>1. pager' = [pager EXCEPT ![c] = P] /\ P.at = "lock" /\ held'[c] = PENDING_LOCK
    BY <1>5, LockMoves DEF PagerInv, At
  <2>2. Fits(P, held'[c], c \in reserved') /\ ~Logging(P)
    BY <1>1, <1>2, <2>1 DEF Fits, IsWriter, Logging
  <2> QED
    BY <1>1, <1>3, <2>1, <2>2, QuietMoves
<1>6. ASSUME NEW at \in {"journal", "validate", "reserved", "peek", "lock", "open"}, Goto(c, at),
             IF at = "open" THEN held'[c] = EXCLUSIVE_LOCK
             ELSE UNCHANGED locks \/ held'[c] = SHARED_LOCK
      PROVE  PagerInv'
  <2> DEFINE Q == [P EXCEPT !.at = at]
  <2>1. pager' = [pager EXCEPT ![c] = Q]
    BY <1>6, GotoSets
  <2>2. PagerOK(Q) /\ Q.eState = P.eState /\ Q.job = P.job /\ Q.at = at
    BY <1>1, OpenMoves
  <2>3. held'[c] >= SHARED_LOCK
    <3>1. CASE UNCHANGED locks /\ P.at # "idle"
      BY <1>1, <1>2, <3>1 DEF Fits, locks
    <3> QED
      BY <1>4, <1>6, <3>1
  <2> HIDE DEF Q
  <2>4. Fits(Q, held'[c], c \in reserved') /\ ~Logging(Q)
    BY <1>1, <1>2, <1>6, <2>2, <2>3 DEF Fits, IsWriter, Logging
  <2> QED
    BY <1>3, <1>6, <2>1, <2>2, <2>4, QuietMoves
<1> QED
  BY <1>5, <1>6, LockMoves
     DEF Share, LookForJournal, CheckReservedLock, PeekAtJournal, LockForRollback

LEMMA GiveUpKeeps ==
    ASSUME FLP!LocksInv, PagerInv, NEW c \in Conns, GiveUpRollback(c) \/ Unlock(c)
    PROVE  PagerInv'
<1> DEFINE Q == Closed(pager[c])
<1>1. PagerOK(pager[c])
  BY DEF PagerInv, Good
<1>2. pager' = [pager EXCEPT ![c] = Q] /\ UNCHANGED disk
  BY DEF GiveUpRollback, Unlock, Set
<1>3. OthersKeepLocks(c) /\ held'[c] = NO_LOCK
  BY LockMoves DEF GiveUpRollback, Unlock
<1>4. PagerOK(Q) /\ Q.eState = "OPEN" /\ Q.at = "idle" /\ Q.job = "none"
  BY <1>1, ClosedIsOpen
<1> HIDE DEF Q
<1>5. Fits(Q, held'[c], c \in reserved') /\ ~Logging(Q)
  BY <1>4 DEF Fits, IsWriter, Logging
<1> QED
  BY <1>2, <1>3, <1>4, <1>5, QuietMoves

LEMMA ValidateKeeps ==
    ASSUME FLP!LocksInv, PagerInv, NEW c \in Conns, Validate(c)
    PROVE  PagerInv'
<1> DEFINE P == pager[c]
<1>1. PagerOK(P) /\ Fits(P, held[c], c \in reserved) /\ P.at = "validate"
  BY DEF PagerInv, Good, Validate, At
<1>2. UNCHANGED <<locks, disk>> /\ OthersKeepLocks(c) /\ held'[c] = held[c]
  BY LockMoves DEF Validate
<1> DEFINE same == P.vers = Counter(db[1].now)
           R == IF P.cache # Emptied(P).cache /\ ~same THEN Emptied(P) ELSE P
           Q == [R EXCEPT !.eState = "READER", !.at = "idle", !.size = SizeOf(File),
                          !.vers = IF R.cache[1] = Nothing THEN Counter(db[1].now) ELSE @,
                          !.cache[1] = IF @ = Nothing THEN db[1].now ELSE @]
<1>3. pager' = [pager EXCEPT ![c] = Q]
  BY DEF Validate, Set
<1>4. Differs(P, R, {"cache"})
  BY <1>1 DEF Differs, PagerOK, IsPager, Fields, Emptied
<1> HIDE DEF R
<1>5. /\ Differs(R, Q, {"eState", "at", "size", "vers", "cache"})
      /\ Q.eState = "READER" /\ Q.at = "idle"
  <2> DEFINE vers  == IF R.cache[1] = Nothing THEN Counter(db[1].now) ELSE R.vers
             cache == [R.cache EXCEPT ![1] = IF @ = Nothing THEN db[1].now ELSE @]
             size  == SizeOf(File)
  <2>1. Q = [R EXCEPT !.eState = "READER", !.at = "idle", !.size = size,
                      !.vers = vers, !.cache = cache]
    BY <1>4 DEF Differs, IsPager, Fields
  <2>2. IsPager(R)
    BY <1>4 DEF Differs
  <2> HIDE DEF vers, cache, size, Q
  <2> QED
    BY <2>1, <2>2 DEF Differs, IsPager, Fields
<1> HIDE DEF Q
<1>6. P.eState = "OPEN" /\ held'[c] >= SHARED_LOCK /\ P.job \notin {"hot", "commit", "rollback"}
  BY <1>1, <1>2 DEF Fits, IsWriter
<1>7. /\ Q.job = P.job /\ Q.mode = P.mode /\ Q.jfd = P.jfd /\ Q.inJournal = P.inJournal
      /\ Q.needSync = P.needSync /\ Q.dirty = P.dirty /\ IsPager(Q)
  BY <1>4, <1>5 DEF Differs, Fields
<1>8. PagerOK(Q)
  BY <1>1, <1>5, <1>6, <1>7 DEF PagerOK
<1>9. Fits(Q, held'[c], c \in reserved') /\ ~Logging(Q)
  BY <1>5, <1>6, <1>7 DEF Fits, IsWriter, Logging
<1> QED
  BY <1>2, <1>3, <1>5, <1>8, <1>9, QuietMoves

LEMMA BeginKeeps ==
    ASSUME FLP!LocksInv, PagerInv, NEW c \in Conns, Begin(c)
    PROVE  PagerInv'
<1> DEFINE P == pager[c]
           Q == [P EXCEPT !.eState = "WRITER_LOCKED", !.txn = txns + 1,
                          !.origSize = P.size, !.off = 0]
<1>1. PagerOK(P) /\ Fits(P, held[c], c \in reserved) /\ P.eState = "READER"
  BY DEF PagerInv, Good, Begin
<1>2. pager' = [pager EXCEPT ![c] = Q] /\ UNCHANGED disk
  BY DEF Begin, Set
<1>3. OthersKeepLocks(c) /\ held'[c] = RESERVED_LOCK /\ c \in reserved'
  BY LockMoves DEF Begin
<1>4. PagerOK(Q) /\ Q.eState = "WRITER_LOCKED" /\ Q.at = P.at /\ Q.job = P.job
  BY <1>1 DEF PagerOK, IsPager, Fields
<1> HIDE DEF Q
<1>5. Fits(Q, held'[c], c \in reserved') /\ ~Logging(Q)
  BY <1>1, <1>3, <1>4 DEF Fits, IsWriter, Logging
<1>6. Q.at = "idle"
  BY <1>1, <1>4 DEF Fits
<1> QED
  BY <1>2, <1>3, <1>4, <1>5, <1>6, QuietMoves

(* pager_end_transaction returns. *)
LEMMA EndUnwrittenKeeps ==
    ASSUME FLP!LocksInv, PagerInv, NEW c \in Conns, EndUnwritten(c)
    PROVE  PagerInv'
<1> DEFINE Q == Ended(pager[c])
<1>1. PagerOK(pager[c])
  BY DEF PagerInv, Good
<1>2. pager' = [pager EXCEPT ![c] = Q] /\ UNCHANGED disk
  BY DEF EndUnwritten, Set
<1>3. OthersKeepLocks(c) /\ held'[c] = SHARED_LOCK
  BY LockMoves DEF EndUnwritten
<1>4. PagerOK(Q) /\ Q.eState = "READER" /\ Q.at = "idle" /\ Q.job = "none"
  BY <1>1, EndedIsReader
<1> HIDE DEF Q
<1>5. Fits(Q, held'[c], c \in reserved') /\ ~Logging(Q)
  BY <1>3, <1>4 DEF Fits, IsWriter, Logging
<1> QED
  BY <1>2, <1>3, <1>4, <1>5, QuietMoves

(* The invariant does not depend on the cache, nor on what is known of the *)
(* database or still to be played back.                                    *)
LEMMA CacheIsFree ==
    ASSUME NEW P, NEW Q,
           Differs(P, Q, {"cache", "vers", "size", "todo"}) \/ Differs(P, Q, {"cache"}),
           NEW level, NEW res, NEW journals, NEW file, Good(P, level, res, journals, file)
    PROVE  Good(Q, level, res, journals, file)
<1>1. /\ IsPager(Q) /\ Q.eState = P.eState /\ Q.at = P.at /\ Q.job = P.job /\ Q.mode = P.mode
      /\ Q.jfd = P.jfd /\ Q.inJournal = P.inJournal /\ Q.needSync = P.needSync
      /\ Q.dirty = P.dirty /\ Q.hdr = P.hdr /\ Q.off = P.off /\ Q.txn = P.txn
      /\ Q.origSize = P.origSize /\ Q.spilled = P.spilled
  BY DEF Fields, Differs
<1>2. PagerOK(Q) /\ SyncedFirst(Q, file)
  BY <1>1 DEF Good, PagerOK, SyncedFirst
<1>3. Fits(Q, level, res)
  BY <1>1 DEF Good, Fits, IsWriter
<1>4. JournalOK(Q, journals)
  <2>1. Logging(Q) <=> Logging(P)
    BY <1>1 DEF Logging
  <2>2. ASSUME NEW J, LogOK(P, J) PROVE LogOK(Q, J)
    BY <1>1, <2>2 DEF LogOK, OpenSegment
  <2> QED
    BY <1>1, <2>1, <2>2 DEF Good, JournalOK
<1> QED
  BY <1>2, <1>3, <1>4 DEF Good

(* A page that is read changes nothing but the cache. *)
LEMMA ReadPageKeeps ==
    ASSUME FLP!LocksInv, PagerInv, NEW c \in Conns, NEW p \in Pages, ReadPage(c, p)
    PROVE  PagerInv'
<1> DEFINE P == pager[c]
           Q == [P EXCEPT !.cache[p] = db[p].now]
<1>1. Good(P, held[c], c \in reserved, jrnl, db)
  BY DEF PagerInv
<1>2. pager' = [pager EXCEPT ![c] = Q] /\ UNCHANGED <<locks, disk>>
  BY DEF ReadPage, Set
<1>3. Differs(P, Q, {"cache"})
  BY <1>1 DEF Good, PagerOK, IsPager, Fields, Differs
<1> HIDE DEF Q
<1>5. Good(Q, held'[c], c \in reserved', jrnl', db')
  BY <1>1, <1>2, <1>3, CacheIsFree DEF locks, disk
<1>6. FilesOK'
  BY <1>2 DEF PagerInv, FilesOK, disk
<1> QED
  BY <1>2, <1>5, <1>6, OneMoves, LockMoves

------------------------------------------------------------------------------
(* Steps that write to the files when no transaction is logging            *)

LEMMA FsyncKeeps ==
    ASSUME NEW J, IsFile(J)
    PROVE  /\ IsFile(Fsync(J))
           /\ \A i \in 1..JournalLen : Fsync(J)[i].now = J[i].now /\ OnDisk(Fsync(J)[i])
  BY DEF IsFile, Fsync, Synced, OnDisk

LEMMA JournalWritten ==
    ASSUME FilesOK, NEW id, NEW J, id \in Journals => IsFile(J),
           jrnl' = [jrnl EXCEPT ![id] = J]
    PROVE  /\ jrnl' = [a \in Journals |-> jrnl'[a]]
           /\ \A a \in Journals : IsFile(jrnl'[a])
           /\ id \in Journals => jrnl'[id] = J
  BY DEF FilesOK

LEMMA JournalFsynced ==
    ASSUME FilesOK, NEW id, jrnl' = [jrnl EXCEPT ![id] = Fsync(@)]
    PROVE  /\ jrnl' = [a \in Journals |-> jrnl'[a]]
           /\ \A a \in Journals : IsFile(jrnl'[a])
<1>1. id \in Journals => IsFile(Fsync(jrnl[id]))
  BY FsyncKeeps DEF FilesOK
<1>2. jrnl' = [jrnl EXCEPT ![id] = Fsync(jrnl[id])]
  BY DEF FilesOK
<1> QED
  BY <1>1, <1>2, JournalWritten

LEMMA DirSynced ==
    ASSUME FilesOK, dir' = dir \/ dir' = Synced(dir.now)
    PROVE  /\ dir'.disk \subseteq Journals \cup {Nothing}
           /\ dir'.now \in Journals \cup {Nothing}
  BY DEF FilesOK, Synced

LEMMA DbTruncated ==
    ASSUME NEW n, db' = Truncated(n)
    PROVE  db' = [p \in Pages |-> db'[p]]
  BY DEF Truncated

(* A step of a connection that may write, and that does not log after it.  *)
LEMMA OwnerMoves ==
    ASSUME FLP!LocksInv, PagerInv, NEW c \in Conns, NEW Q, Owner(c),
           pager' = [pager EXCEPT ![c] = Q], OthersKeepLocks(c), FilesOK',
           PagerOK(Q), Fits(Q, held'[c], c \in reserved'), ~Logging(Q),
           SyncedFirst(Q, db')
    PROVE  PagerInv'
<1>1. Good(Q, held'[c], c \in reserved', jrnl', db')
  BY DEF Good, JournalOK
<1> QED
  BY <1>1, OneMoves

LEMMA OpenHotJournalKeeps ==
    ASSUME FLP!LocksInv, PagerInv, NEW c \in Conns, OpenHotJournal(c)
    PROVE  PagerInv'
<1> DEFINE P == pager[c]
<1>1. PagerOK(P) /\ Fits(P, held[c], c \in reserved) /\ P.at = "open" /\ FilesOK
  BY DEF PagerInv, Good, OpenHotJournal, At
<1>2. /\ P.eState = "OPEN" /\ held[c] = EXCLUSIVE_LOCK /\ Owner(c)
      /\ P.job \notin {"hot", "commit", "rollback"}
  BY <1>1 DEF Fits, Owner, IsWriter
<1>3. CASE dir.now = Nothing
  <2> DEFINE Q == [P EXCEPT !.at = "validate"]
  <2>1. pager' = [pager EXCEPT ![c] = Q] /\ FL!Downgrade(c) /\ UNCHANGED disk
    BY <1>3, GotoSets DEF OpenHotJournal
  <2>2. PagerOK(Q) /\ Q.eState = P.eState /\ Q.job = P.job /\ Q.at = "validate"
    BY <1>1, OpenMoves
  <2> HIDE DEF Q
  <2>3. OthersKeepLocks(c) /\ held'[c] = SHARED_LOCK
    BY <2>1, LockMoves
  <2>4. Fits(Q, held'[c], c \in reserved') /\ ~Logging(Q)
    BY <1>2, <2>2, <2>3 DEF Fits, IsWriter, Logging
  <2> QED
    BY <2>1, <2>2, <2>3, <2>4, QuietMoves
<1>4. CASE dir.now # Nothing
  <2> DEFINE j == Now(jrnl[dir.now])
             R == [P EXCEPT !.jfd = dir.now, !.job = "hot", !.at = "play"]
             some == j[1].nRec > 0 \/ Playback(j) # {}
             S == IF some THEN Emptied(R) ELSE R
             T == [S EXCEPT !.off = 2, !.size = j[1].dbSize, !.todo = Playback(j)]
             Q == IF IsHeader(j[1]) THEN T ELSE R
  <2>1. /\ pager' = [pager EXCEPT ![c] = Q]
        /\ jrnl' = [jrnl EXCEPT ![dir.now] = Fsync(@)]
        /\ db' = (IF IsHeader(j[1]) THEN Truncated(j[1].dbSize) ELSE db)
        /\ UNCHANGED <<locks, dir>>
    BY <1>4 DEF OpenHotJournal, Set
  <2>2. Differs(P, R, {"jfd", "job", "at"}) /\ R.jfd = dir.now /\ R.job = "hot" /\ R.at = "play"
    BY <1>1 DEF PagerOK, IsPager, Fields, Differs
  <2> HIDE DEF R
  <2>3. Differs(R, S, {"cache"})
    BY <2>2 DEF Differs, IsPager, Fields, Emptied
  <2> HIDE DEF S
  <2>4. Differs(S, T, {"off", "size", "todo"})
    BY <2>3 DEF Differs, IsPager, Fields
  <2> HIDE DEF T, j
  <2>5. /\ IsPager(Q) /\ Q.eState = P.eState /\ Q.mode = P.mode /\ Q.jfd = dir.now /\ Q.job = "hot"
        /\ Q.at = "play" /\ Q.inJournal = P.inJournal /\ Q.needSync = P.needSync
        /\ Q.dirty = P.dirty
    BY <2>2, <2>3, <2>4 DEF Differs, Fields
  <2> HIDE DEF Q
  <2>6. PagerOK(Q) /\ SyncedFirst(Q, db')
    BY <1>1, <1>2, <2>5 DEF PagerOK, FilesOK, SyncedFirst
  <2>7. Fits(Q, held'[c], c \in reserved') /\ ~Logging(Q)
    BY <1>2, <2>1, <2>5, LockMoves DEF Fits, IsWriter, Logging
  <2>8. FilesOK'
    <3>1. db' = [p \in Pages |-> db'[p]]
      BY <1>1, <2>1, DbTruncated DEF FilesOK
    <3> QED
      BY <1>1, <2>1, <3>1, JournalFsynced DEF FilesOK
  <2> QED
    BY <1>2, <2>1, <2>6, <2>7, <2>8, OwnerMoves, LockMoves
<1> QED
  BY <1>3, <1>4

(* What is left of job, stage and files when a pager that may write goes   *)
(* back to a state in which it may not.                                    *)
LEMMA OwnerLeaves ==
    ASSUME FLP!LocksInv, PagerInv, NEW c \in Conns, NEW Q, Owner(c),
           pager' = [pager EXCEPT ![c] = Q], OthersKeepLocks(c), FilesOK', PagerOK(Q),
           \/ Q.eState = "OPEN" /\ Q.at = "idle"
           \/ Q.eState = "OPEN" /\ Q.at = "validate" /\ held'[c] >= SHARED_LOCK
           \/ Q.eState = "READER" /\ Q.at = "idle" /\ held'[c] >= SHARED_LOCK
           \/ Q.eState = "ERROR" /\ Q.at = "idle",
           Q.job = "none"
    PROVE  PagerInv'
<1>1. Fits(Q, held'[c], c \in reserved') /\ ~Logging(Q) /\ SyncedFirst(Q, db')
  BY DEF Fits, IsWriter, Logging, SyncedFirst
<1> QED
  BY <1>1, OwnerMoves

LEMMA SyncDatabaseKeeps ==
    ASSUME FLP!LocksInv, PagerInv, NEW c \in Conns, SyncDatabase(c)
    PROVE  PagerInv'
<1> DEFINE P == pager[c]
           state == IF P.job = "commit" THEN "WRITER_FINISHED" ELSE P.eState
           Q == [P EXCEPT !.at = "finalize", !.eState = state]
<1>1. /\ PagerOK(P) /\ Fits(P, held[c], c \in reserved) /\ FilesOK
      /\ \/ P.at = "write" /\ P.job = "commit"
         \/ P.at = "play"
  BY DEF PagerInv, Good, SyncDatabase, At
<1>2. /\ pager' = [pager EXCEPT ![c] = Q] /\ db' = Fsync(db)
      /\ UNCHANGED <<locks, dir, jrnl>>
  BY <1>1 DEF SyncDatabase, Set, PagerOK, IsPager, Fields
<1>3. Differs(P, Q, {"at", "eState"}) /\ Q.at = "finalize" /\ Q.eState = state
  BY <1>1 DEF PagerOK, IsPager, Fields, Differs
<1> HIDE DEF Q
<1>4. /\ IsPager(Q) /\ Q.mode = P.mode /\ Q.jfd = P.jfd /\ Q.job = P.job
      /\ Q.inJournal = P.inJournal /\ Q.needSync = P.needSync /\ Q.dirty = P.dirty
  BY <1>3 DEF Differs, Fields
<1>5. P.eState \in {"OPEN", "WRITER_DBMOD"} /\ held[c] = EXCLUSIVE_LOCK /\ Owner(c)
      /\ P.job \in {"hot", "rollback", "commit"} /\ (P.job = "hot" <=> P.eState = "OPEN")
  BY <1>1 DEF Fits, Owner, IsWriter
<1>6. PagerOK(Q)
  BY <1>1, <1>3, <1>4, <1>5 DEF PagerOK
<1>7. Fits(Q, held'[c], c \in reserved') /\ ~Logging(Q)
  BY <1>1, <1>2, <1>3, <1>4, <1>5, LockMoves DEF Fits, IsWriter, Logging
<1>8. db' = [p \in Pages |-> db'[p]] /\ \A p \in Pages : OnDisk(db'[p])
  BY <1>1, <1>2 DEF FilesOK, Fsync, Synced, OnDisk
<1>9. FilesOK' /\ SyncedFirst(Q, db')
  BY <1>1, <1>2, <1>8 DEF FilesOK, SyncedFirst
<1> QED
  BY <1>2, <1>5, <1>6, <1>7, <1>9, OwnerMoves, LockMoves

(* The end of pager_end_transaction. *)
LEMMA ReturnKeeps ==
    ASSUME FLP!LocksInv, PagerInv, NEW c \in Conns, Owner(c), FL!Downgrade(c), FilesOK',
           NEW R, PagerOK(R),
           Set(c, IF R.job = "hot" THEN [Ended(R) EXCEPT !.eState = "OPEN", !.at = "validate"]
                  ELSE Ended(R))
    PROVE  PagerInv'
<1> DEFINE E == Ended(R)
           Q == IF R.job = "hot" THEN [E EXCEPT !.eState = "OPEN", !.at = "validate"] ELSE E
<1>1. PagerOK(E) /\ E.eState = "READER" /\ E.at = "idle" /\ E.job = "none"
  BY EndedIsReader
<1>2. pager' = [pager EXCEPT ![c] = Q]
  BY DEF Set
<1> HIDE DEF E
<1>3. /\ PagerOK(Q) /\ Q.job = "none"
      /\ \/ Q.eState = "OPEN" /\ Q.at = "validate"
         \/ Q.eState = "READER" /\ Q.at = "idle"
  BY <1>1 DEF PagerOK, IsPager, Fields
<1> HIDE DEF Q
<1>4. OthersKeepLocks(c) /\ held'[c] = SHARED_LOCK
  BY LockMoves
<1>5. held'[c] >= SHARED_LOCK
  BY <1>4
<1> QED
  BY <1>2, <1>3, <1>4, <1>5, OwnerLeaves

(* A stage at which the journal is finalized: who is there may write.      *)
LEMMA FinalizerOwns ==
    ASSUME PagerInv, NEW c \in Conns, pager[c].at \in {"finalize", "zeroed"}
    PROVE  Owner(c) /\ ~Logging(pager[c])
  BY DEF PagerInv, Good, Fits, Owner, IsWriter, Logging

LEMMA FinalizeJournalKeeps ==
    ASSUME FLP!LocksInv, PagerInv, NEW c \in Conns, FinalizeJournal(c)
    PROVE  PagerInv'
<1> DEFINE P == pager[c]
<1>1. Good(P, held[c], c \in reserved, jrnl, db) /\ P.at = "finalize" /\ FilesOK
  BY DEF PagerInv, FinalizeJournal, At
<1>2. Owner(c) /\ ~Logging(P)
  BY <1>1, FinalizerOwns
<1>3. CASE Return(c) /\ UNCHANGED jrnl
           /\ (dir' = dir \/ dir' = [now |-> Nothing, disk |-> dir.disk \cup {Nothing}])
  <2>1. FilesOK'
    BY <1>1, <1>3 DEF FilesOK, FinalizeJournal
  <2> QED
    BY <1>1, <1>2, <1>3, <2>1, ReturnKeeps DEF Return, Good
<1>4. CASE /\ jrnl' = [jrnl EXCEPT ![P.jfd][1] = Put(@, Zeros)]
           /\ Goto(c, "zeroed") /\ UNCHANGED <<locks, dir>> /\ P.mode = "persist"
  <2> DEFINE Q == [P EXCEPT !.at = "zeroed"]
             J == [jrnl[P.jfd] EXCEPT ![1] = Put(@, Zeros)]
  <2>1. pager' = [pager EXCEPT ![c] = Q] /\ UNCHANGED <<db, locks, dir>>
    BY <1>4, GotoSets DEF FinalizeJournal
  <2>2. Differs(P, Q, {"at"}) /\ Q.at = "zeroed"
    BY <1>1 DEF Good, PagerOK, IsPager, Fields, Differs
  <2> HIDE DEF Q
  <2>3. /\ IsPager(Q) /\ Q.eState = P.eState /\ Q.mode = P.mode /\ Q.jfd = P.jfd /\ Q.job = P.job
        /\ Q.inJournal = P.inJournal /\ Q.needSync = P.needSync /\ Q.dirty = P.dirty
    BY <2>2 DEF Differs, Fields
  <2>4. PagerOK(Q) /\ SyncedFirst(Q, db')
    BY <1>1, <1>4, <2>1, <2>2, <2>3 DEF Good, PagerOK, SyncedFirst
  <2>5. held'[c] = held[c] /\ reserved' = reserved /\ OthersKeepLocks(c)
    BY <2>1, LockMoves
  <2>6. Fits(Q, held'[c], c \in reserved') /\ ~Logging(Q)
    BY <1>1, <1>2, <2>2, <2>3, <2>5 DEF Good, Fits, IsWriter, Logging
  <2>7. FilesOK'
    <3>1. jrnl' = [jrnl EXCEPT ![P.jfd] = J] /\ (P.jfd \in Journals => IsFile(J))
      BY <1>1, <1>4 DEF FilesOK, IsFile
    <3> HIDE DEF J
    <3> QED
      BY <1>1, <2>1, <3>1, JournalWritten DEF FilesOK
  <2> QED
    BY <1>2, <2>1, <2>4, <2>5, <2>6, <2>7, OwnerMoves
<1> QED
  BY <1>3, <1>4 DEF FinalizeJournal

LEMMA SyncZeroedHeaderKeeps ==
    ASSUME FLP!LocksInv, PagerInv, NEW c \in Conns, SyncZeroedHeader(c)
    PROVE  PagerInv'
<1> DEFINE P == pager[c]
           R == [P EXCEPT !.dirSync = FALSE]
<1>1. PagerOK(P) /\ P.at = "zeroed" /\ FilesOK
  BY DEF PagerInv, Good, SyncZeroedHeader, At
<1>2. Owner(c) /\ FL!Downgrade(c)
  BY <1>1, FinalizerOwns DEF SyncZeroedHeader
<1>3. FilesOK'
  BY <1>1, JournalFsynced, DirSynced DEF SyncZeroedHeader, FilesOK
<1>4. PagerOK(R)
  BY <1>1 DEF PagerOK, IsPager, Fields
<1>5. Set(c, IF R.job = "hot" THEN [Ended(R) EXCEPT !.eState = "OPEN", !.at = "validate"]
             ELSE Ended(R))
  BY DEF SyncZeroedHeader
<1> HIDE DEF R
<1> QED
  BY <1>2, <1>3, <1>4, <1>5, ReturnKeeps

(* The pagers that a rollback may begin from. *)
LEMMA RollsBack ==
    ASSUME PagerInv, NEW c \in Conns, Idle(c) \/ At(c, "failed"), Writing(c)
    PROVE  /\ PagerOK(pager[c]) /\ Fits(pager[c], held[c], c \in reserved)
           /\ Owner(c) /\ FilesOK
  BY DEF PagerInv, Good, Writing, Owner, IsWriter

LEMMA RollbackKeeps ==
    ASSUME FLP!LocksInv, PagerInv, NEW c \in Conns, RollbackCache(c) \/ RollbackDatabase(c)
    PROVE  PagerInv'
<1> DEFINE P == pager[c]
<1>1. /\ PagerOK(P) /\ Fits(P, held[c], c \in reserved) /\ Owner(c) /\ FilesOK
      /\ UNCHANGED <<locks, dir, jrnl>>
  BY RollsBack DEF RollbackCache, RollbackDatabase, Writing, disk
<1>2. PICK Q : /\ pager' = [pager EXCEPT ![c] = Q]
               /\ Differs(P, Q, {"cache", "size", "todo", "job", "at"}) /\ Q.job = "rollback"
               /\ \/ P.eState = "WRITER_CACHEMOD" /\ Q.at = "finalize" /\ db' = db
                  \/ P.eState = "WRITER_DBMOD" /\ Q.at = "play" /\ db' = Truncated(P.origSize)
  <2>1. CASE RollbackCache(c)
    <3>1. P.eState = "WRITER_CACHEMOD" /\ db' = db
      BY <2>1 DEF RollbackCache, disk
    <3>2. PICK cache : pager' = [pager EXCEPT ![c] =
                          [P EXCEPT !.cache = cache, !.size = P.origSize,
                                    !.job = "rollback", !.at = "finalize"]]
      BY <2>1 DEF RollbackCache, Set
    <3> DEFINE Q == [P EXCEPT !.cache = cache, !.size = P.origSize,
                              !.job = "rollback", !.at = "finalize"]
    <3>3. /\ Differs(P, Q, {"cache", "size", "todo", "job", "at"})
          /\ Q.job = "rollback" /\ Q.at = "finalize"
      BY <1>1 DEF PagerOK, IsPager, Fields, Differs
    <3> QED
      BY <3>1, <3>2, <3>3
  <2>2. CASE RollbackDatabase(c)
    <3>1. P.eState = "WRITER_DBMOD" /\ db' = Truncated(P.origSize)
      BY <2>2 DEF RollbackDatabase
    <3>2. PICK todo : pager' = [pager EXCEPT ![c] =
                          [P EXCEPT !.todo = todo, !.size = P.origSize,
                                    !.job = "rollback", !.at = "play"]]
      BY <2>2 DEF RollbackDatabase, Set
    <3> DEFINE Q == [P EXCEPT !.todo = todo, !.size = P.origSize,
                              !.job = "rollback", !.at = "play"]
    <3>3. /\ Differs(P, Q, {"cache", "size", "todo", "job", "at"})
          /\ Q.job = "rollback" /\ Q.at = "play"
      BY <1>1 DEF PagerOK, IsPager, Fields, Differs
    <3> QED
      BY <3>1, <3>2, <3>3
  <2> QED
    BY <2>1, <2>2
<1>3. /\ IsPager(Q) /\ Q.eState = P.eState /\ Q.mode = P.mode /\ Q.jfd = P.jfd
      /\ Q.inJournal = P.inJournal /\ Q.needSync = P.needSync /\ Q.dirty = P.dirty
  BY <1>2 DEF Differs, Fields
<1>4. PagerOK(Q) /\ ~Logging(Q) /\ SyncedFirst(Q, db')
  BY <1>1, <1>2, <1>3 DEF PagerOK, Logging, SyncedFirst
<1>5. held'[c] = held[c] /\ reserved' = reserved /\ OthersKeepLocks(c)
  BY <1>1, LockMoves
<1>6. Fits(Q, held'[c], c \in reserved')
  BY <1>1, <1>2, <1>3, <1>5 DEF Fits, IsWriter
<1>7. FilesOK'
  BY <1>1, <1>2, DbTruncated DEF FilesOK
<1> QED
  BY <1>1, <1>2, <1>4, <1>5, <1>6, <1>7, OwnerMoves

LEMMA PlayRecordKeeps ==
    ASSUME FLP!LocksInv, PagerInv, NEW c \in Conns, PlayRecord(c)
    PROVE  PagerInv'
<1> DEFINE P == pager[c]
<1>1. Good(P, held[c], c \in reserved, jrnl, db) /\ P.at = "play" /\ FilesOK
      /\ UNCHANGED <<locks, dir, jrnl>>
  BY DEF PagerInv, PlayRecord, At
<1>2. Owner(c) /\ ~Logging(P)
  BY <1>1 DEF Good, Fits, Owner, IsWriter, Logging
<1> DEFINE r == Journal(c)[NextRecord(P)].now
           Q == [P EXCEPT !.todo = @ \ {NextRecord(P)},
                          !.cache[r.pgno] = IF @ = Nothing THEN @ ELSE r.data,
                          !.vers = IF r.pgno = 1 /\ P.cache[1] # Nothing THEN r.data.ctr ELSE @]
<1>3. pager' = [pager EXCEPT ![c] = Q]
  BY DEF PlayRecord, Set
<1>4. db' = [p \in Pages |-> db'[p]]
  BY <1>1 DEF PlayRecord, FilesOK
<1> HIDE DEF r
<1>5. Differs(P, Q, {"cache", "vers", "size", "todo"})
  BY <1>1 DEF Good, PagerOK, IsPager, Fields, Differs
<1> HIDE DEF Q
<1>6. Good(P, held[c], c \in reserved, jrnl, db')
  BY <1>1 DEF Good, SyncedFirst
<1>7. Good(Q, held[c], c \in reserved, jrnl, db')
  BY <1>5, <1>6, CacheIsFree
<1>8. FilesOK'
  BY <1>1, <1>4 DEF FilesOK
<1> QED
  BY <1>1, <1>2, <1>3, <1>7, <1>8, OneMoves, LockMoves DEF locks

------------------------------------------------------------------------------
(* What goes wrong *)

LEMMA WrittenBackIsFile ==
    ASSUME PagerInv, NEW c \in Conns, jrnl' = WrittenBack(c)
    PROVE  /\ jrnl' = [a \in Journals |-> jrnl'[a]]
           /\ \A a \in Journals : IsFile(jrnl'[a])
           /\ pager[c].at # "zeroed" => jrnl' = jrnl
  BY JournalFsynced DEF PagerInv, FilesOK, WrittenBack, At

LEMMA CrashKeeps ==
    ASSUME FLP!LocksInv, PagerInv, NEW c \in Conns, Crash(c)
    PROVE  PagerInv'
<1> DEFINE Q == Fresh(pager[c].mode)
<1>1. PagerOK(pager[c]) /\ FilesOK
  BY DEF PagerInv, Good
<1>2. pager' = [pager EXCEPT ![c] = Q] /\ UNCHANGED <<db, dir>> /\ jrnl' = WrittenBack(c)
  BY DEF Crash, Set
<1>3. OthersKeepLocks(c) /\ held'[c] = NO_LOCK
  BY LockMoves DEF Crash
<1>4. PagerOK(Q) /\ Q.eState = "OPEN" /\ Q.at = "idle" /\ Q.job = "none"
  BY <1>1, Reopened DEF PagerOK
<1> HIDE DEF Q
<1>5. FilesOK'
  BY <1>1, <1>2, WrittenBackIsFile DEF FilesOK
<1>6. CASE pager[c].at = "zeroed"
  BY <1>2, <1>3, <1>4, <1>5, <1>6, FinalizerOwns, OwnerLeaves
<1>7. CASE pager[c].at # "zeroed"
  <2>1. UNCHANGED disk
    BY <1>2, <1>7, WrittenBackIsFile DEF disk
  <2>2. Fits(Q, held'[c], c \in reserved') /\ ~Logging(Q)
    BY <1>4 DEF Fits, IsWriter, Logging
  <2> QED
    BY <1>2, <1>3, <1>4, <2>1, <2>2, QuietMoves
<1> QED
  BY <1>6, <1>7

(* A call that fails: the pager is closed or broken, or rolls back.        *)
LEMMA FailKeeps ==
    ASSUME FLP!LocksInv, PagerInv, NEW c \in Conns, Fail(c)
    PROVE  PagerInv'
<1> DEFINE P == pager[c]
<1>1. /\ Good(P, held[c], c \in reserved, jrnl, db) /\ FilesOK
      /\ P.at \in {"records", "header", "write", "play", "finalize", "zeroed"}
      /\ jrnl' = WrittenBack(c) /\ dir' = dir /\ db' = [p \in Pages |-> db'[p]]
  BY DEF PagerInv, Fail
<1>2. Owner(c)
  BY <1>1 DEF Good, Fits, Owner, IsWriter
<1>3. FilesOK'
  BY <1>1, WrittenBackIsFile DEF FilesOK
<1>4. CASE P.job = "hot"
  <2> DEFINE Q == Closed(Emptied(P))
  <2>1. pager' = [pager EXCEPT ![c] = Q] /\ FL!Lose({c})
    BY <1>4 DEF Fail, Set
  <2>2. PagerOK(Q) /\ Q.eState = "OPEN" /\ Q.at = "idle" /\ Q.job = "none"
    BY <1>1, ClosedIsOpen DEF Good
  <2> HIDE DEF Q
  <2> QED
    BY <1>2, <1>3, <2>1, <2>2, LockMoves, OwnerLeaves
<1>5. CASE P.job # "hot" /\ (P.at \in {"finalize", "zeroed"} \/ P.job # "commit")
  <2> DEFINE Q == Broken(P)
  <2>1. pager' = [pager EXCEPT ![c] = Q] /\ (FL!Downgrade(c) \/ UNCHANGED locks)
    BY <1>5 DEF Fail, Set
  <2>2. PagerOK(Q) /\ Q.eState = "ERROR" /\ Q.at = "idle" /\ Q.job = "none"
    BY <1>1, BrokenIsError DEF Good
  <2> HIDE DEF Q
  <2> QED
    BY <1>2, <1>3, <2>1, <2>2, LockMoves, OwnerLeaves
<1>6. CASE P.job = "commit" /\ P.at \notin {"finalize", "zeroed"}
  <2> DEFINE Q == [P EXCEPT !.at = "failed", !.job = "none"]
  <2>1. pager' = [pager EXCEPT ![c] = Q] /\ UNCHANGED locks
    BY <1>6 DEF Fail, Set
  <2>2. Differs(P, Q, {"at", "job"}) /\ Q.at = "failed" /\ Q.job = "none"
    BY <1>1 DEF Good, PagerOK, IsPager, Fields, Differs
  <2> HIDE DEF Q
  <2>3. /\ IsPager(Q) /\ Q.eState = P.eState /\ Q.mode = P.mode /\ Q.jfd = P.jfd
        /\ Q.inJournal = P.inJournal /\ Q.needSync = P.needSync /\ Q.dirty = P.dirty
        /\ Q.hdr = P.hdr /\ Q.off = P.off /\ Q.txn = P.txn /\ Q.origSize = P.origSize
    BY <2>2 DEF Differs, Fields
  <2>4. held'[c] = held[c] /\ reserved' = reserved /\ OthersKeepLocks(c) /\ jrnl' = jrnl
    BY <1>1, <1>6, <2>1, LockMoves, WrittenBackIsFile
  <2>5. Logging(P) /\ P.at \in {"records", "header", "write"}
    BY <1>1, <1>6 DEF Good, Fits, IsWriter, Logging
  <2>6. PagerOK(Q) /\ SyncedFirst(Q, db')
    BY <1>1, <2>2, <2>3 DEF Good, PagerOK, SyncedFirst
  <2>7. Fits(Q, held'[c], c \in reserved')
    BY <1>1, <2>2, <2>3, <2>4, <2>5 DEF Good, Fits, IsWriter, Logging
  <2>8. JournalOK(Q, jrnl')
    BY <1>1, <2>2, <2>3, <2>4, <2>5 DEF Good, JournalOK, LogOK
  <2> QED
    BY <1>2, <1>3, <2>1, <2>4, <2>6, <2>7, <2>8, OneMoves DEF Good
<1> QED
  BY <1>4, <1>5, <1>6

LEMMA PowerLossKeeps == ASSUME PagerInv, PowerLoss PROVE PagerInv'
<1>1. pager' = [c \in Conns |-> Fresh(pager[c].mode)]
  BY DEF PowerLoss
<1>2. \A c \in Conns : /\ PagerOK(pager'[c]) /\ pager'[c].eState = "OPEN"
                       /\ pager'[c].at = "idle" /\ pager'[c].job = "none"
  BY <1>1, Reopened DEF PagerInv, Good, PagerOK
<1>3. ASSUME NEW c \in Conns
      PROVE  Good(pager'[c], held'[c], c \in reserved', jrnl', db')
  BY <1>2 DEF Good, Fits, IsWriter, JournalOK, Logging, SyncedFirst
<1>4. FilesOK'
  <2>1. PICK d \in Outcomes(db), f \in dir.disk :
            \E j \in IF f = Nothing THEN {<<>>} ELSE {Legible(o) : o \in Outcomes(jrnl[f])} :
               /\ db' = [p \in Pages |-> Synced(d[p])]
               /\ dir' = Synced(f)
               /\ jrnl' = [id \in Journals |->
                     IF id = f THEN [i \in 1..JournalLen |-> Synced(j[i])] ELSE Blank]
    BY DEF PowerLoss
  <2>2. PICK j : jrnl' = [id \in Journals |->
                     IF id = f THEN [i \in 1..JournalLen |-> Synced(j[i])] ELSE Blank]
    BY <2>1
  <2>3. \A id \in Journals : IsFile(jrnl'[id])
    BY <2>2 DEF IsFile, Blank
  <2> QED
    BY <2>1, <2>2, <2>3 DEF PagerInv, FilesOK, Synced
<1> QED
  BY <1>1, <1>3, <1>4 DEF PagerInv

------------------------------------------------------------------------------
(* Steps of a transaction that is logging *)

LEMMA SegmentsSame ==
    ASSUME NEW J, NEW K, NEW end \in 1 .. JournalLen + 1, NEW txn, NEW size,
           Segments(J, end, txn, size),
           \A i \in 1 .. end - 1 : K[i].now = J[i].now /\ OnDisk(K[i])
    PROVE  Segments(K, end, txn, size)
<1> USE PagerAssumption
<1>1. /\ \A i \in 1 .. end - 1 :
             OnDisk(K[i]) /\ (IsLog(K[i].now, txn) \/ IsHead(K[i].now, txn, size))
      /\ end > 1 => IsHead(K[1].now, txn, size)
  BY DEF Segments
<1>2. ASSUME NEW h \in 1 .. end - 1, IsHead(K[h].now, txn, size)
      PROVE  /\ h + K[h].now.nRec < end
             /\ \A i \in h + 1 .. h + K[h].now.nRec : IsLog(K[i].now, txn)
             /\ h + K[h].now.nRec + 1 < end => IsHead(K[h + K[h].now.nRec + 1].now, txn, size)
  <2> DEFINE n == J[h].now.nRec
  <2>1. K[h].now.nRec = n /\ n \in Nat
    BY <1>2 DEF IsHead
  <2>2. /\ h + n < end
        /\ \A i \in h + 1 .. h + n : IsLog(J[i].now, txn)
        /\ h + n + 1 < end => IsHead(J[h + n + 1].now, txn, size)
    BY <1>2 DEF Segments
  <2> HIDE DEF n
  <2>3. \A i \in h + 1 .. h + n : i \in 1 .. end - 1
    BY <2>1, <2>2
  <2>4. h + n + 1 < end => h + n + 1 \in 1 .. end - 1
    BY <2>1
  <2> QED
    BY <2>1, <2>2, <2>3, <2>4
<1> QED
  BY <1>1, <1>2 DEF Segments

(* The open segment is completed and synced: end and off become the same.  *)
LEMMA SegmentCompleted ==
    ASSUME NEW J, NEW K, NEW hdr \in 1 .. JournalLen, NEW off \in hdr + 1 .. JournalLen + 1,
           NEW txn, NEW size,
           Segments(J, hdr, txn, size),
           J[hdr].now = Header(TRUE, off - hdr - 1, txn, size),
           \A i \in hdr + 1 .. off - 1 : IsLog(J[i].now, txn),
           \A i \in 1 .. off - 1 : K[i].now = J[i].now /\ OnDisk(K[i])
    PROVE  Segments(K, off, txn, size)
<1> USE PagerAssumption
<1>1. IsHead(K[hdr].now, txn, size) /\ K[hdr].now.nRec = off - hdr - 1
  <2> DEFINE n == off - hdr - 1
  <2>1. n \in Nat /\ hdr \in 1 .. off - 1
    OBVIOUS
  <2>2. K[hdr].now = Header(TRUE, n, txn, size)
    BY <2>1
  <2> HIDE DEF n
  <2>3. K[hdr].now.kind = "header" /\ K[hdr].now.nRec = n
    BY <2>2 DEF Header
  <2> QED
    BY <2>1, <2>2, <2>3 DEF IsHead, n
<1>2. Segments(K, hdr, txn, size)
  BY SegmentsSame
<1>3. \A i \in hdr + 1 .. off - 1 : IsLog(K[i].now, txn) /\ ~IsHead(K[i].now, txn, size)
  <2>1. \A i \in hdr + 1 .. off - 1 : i \in 1 .. off - 1
    OBVIOUS
  <2>2. \A i \in hdr + 1 .. off - 1 : IsLog(K[i].now, txn)
    BY <2>1
  <2> QED
    BY <2>2 DEF IsLog, IsHead
<1>4. /\ \A i \in 1 .. off - 1 :
             OnDisk(K[i]) /\ (IsLog(K[i].now, txn) \/ IsHead(K[i].now, txn, size))
      /\ IsHead(K[1].now, txn, size)
  <2>1. ASSUME NEW i \in 1 .. off - 1 PROVE IsLog(K[i].now, txn) \/ IsHead(K[i].now, txn, size)
    <3>1. i \in 1 .. hdr - 1 \/ i = hdr \/ i \in hdr + 1 .. off - 1
      OBVIOUS
    <3> QED
      BY <1>1, <1>2, <1>3, <3>1 DEF Segments
  <2>2. IsHead(K[1].now, txn, size)
    <3>1. hdr = 1 \/ hdr > 1
      OBVIOUS
    <3> QED
      BY <1>1, <1>2, <3>1 DEF Segments
  <2> QED
    BY <2>1, <2>2
<1>5. ASSUME NEW h \in 1 .. off - 1, IsHead(K[h].now, txn, size)
      PROVE  /\ h + K[h].now.nRec < off
             /\ \A i \in h + 1 .. h + K[h].now.nRec : IsLog(K[i].now, txn)
             /\ h + K[h].now.nRec + 1 < off => IsHead(K[h + K[h].now.nRec + 1].now, txn, size)
  <2>1. CASE h = hdr
    BY <1>1, <1>3, <2>1
  <2>2. CASE h \in 1 .. hdr - 1
    <3> DEFINE n == K[h].now.nRec
    <3>1. /\ h + n < hdr
          /\ \A i \in h + 1 .. h + n : IsLog(K[i].now, txn)
          /\ h + n + 1 < hdr => IsHead(K[h + n + 1].now, txn, size)
      BY <1>2, <1>5, <2>2 DEF Segments
    <3>2. n \in Nat
      BY <1>5 DEF IsHead
    <3> HIDE DEF n
    <3>3. h + n + 1 < hdr \/ h + n + 1 = hdr
      BY <3>1, <3>2
    <3>4. IsHead(K[h + n + 1].now, txn, size) /\ h + n < off
      BY <1>1, <3>1, <3>2, <3>3
    <3> QED
      BY <3>1, <3>4 DEF n
  <2> QED
    BY <1>3, <1>5, <2>1, <2>2
<1> QED
  BY <1>4, <1>5 DEF Segments

(* What is logged in cells that stay as they are stays logged. *)
LEMMA LoggedSame ==
    ASSUME NEW J, NEW K, NEW end \in 1 .. JournalLen + 1, NEW txn,
           \A i \in 1 .. end - 1 : K[i].now = J[i].now
    PROVE  \A p : Logged(J, p, end, txn) => Logged(K, p, end, txn)
  BY DEF Logged

LEMMA LoggedLonger ==
    ASSUME NEW J, NEW end \in 1 .. JournalLen + 1, NEW more \in end .. JournalLen + 1, NEW txn
    PROVE  \A p : Logged(J, p, end, txn) => Logged(J, p, more, txn)
<1> USE PagerAssumption
<1>1. \A i \in 1 .. end - 1 : i \in 1 .. more - 1
  OBVIOUS
<1> QED
  BY <1>1 DEF Logged

(* The journal of a transaction whose segment at hdr is open up to off. *)
OpenAt(J, hdr, off, txn, size) ==
    /\ Segments(J, hdr, txn, size)
    /\ J[hdr].now.kind = "header"
    /\ \A i \in hdr + 1 .. off - 1 : IsLog(J[i].now, txn)

(* A record is appended. *)
Appended(J, off, p, data, txn) == [J EXCEPT ![off] = Log(@, Record(p, data, txn))]

LEMMA SegmentGrows ==
    ASSUME NEW J, IsFile(J), NEW hdr \in 1 .. JournalLen, NEW off \in hdr + 1 .. JournalLen,
           NEW txn, NEW size, OpenAt(J, hdr, off, txn, size),
           NEW p, NEW data, NEW K,
           K = Appended(J, off, p, data, txn)
    PROVE  /\ IsFile(K)
           /\ OpenAt(K, hdr, off + 1, txn, size)
           /\ Logged(K, p, off + 1, txn)
           /\ \A q : Logged(J, q, off, txn) => Logged(K, q, off + 1, txn)
           /\ \A q : Logged(J, q, hdr, txn) => Logged(K, q, hdr, txn)
<1> USE PagerAssumption
<1>1. IsFile(K) /\ \A i \in 1 .. JournalLen \ {off} : K[i] = J[i]
  BY DEF IsFile, Appended
<1>2. K[off].now = Record(p, data, txn)
  BY DEF IsFile, Log, Appended
<1>3. IsLogOf(K[off].now, p, txn) /\ IsLog(K[off].now, txn)
  BY <1>2 DEF IsLogOf, IsLog, Record
<1>4. \A i \in 1 .. off - 1 : K[i] = J[i]
  BY <1>1
<1>5. Segments(K, hdr, txn, size)
  <2>1. \A i \in 1 .. hdr - 1 : K[i].now = J[i].now /\ OnDisk(K[i])
    BY <1>4 DEF OpenAt, Segments
  <2> QED
    <3>1. hdr \in 1 .. JournalLen + 1 /\ Segments(J, hdr, txn, size)
      BY DEF OpenAt
    <3> QED
      BY <2>1, <3>1, SegmentsSame
<1>6. \A i \in hdr + 1 .. off : IsLog(K[i].now, txn)
  <2>1. \A i \in hdr + 1 .. off : i = off \/ (i \in hdr + 1 .. off - 1 /\ i \in 1 .. off - 1)
    OBVIOUS
  <2> QED
    BY <1>3, <1>4, <2>1 DEF OpenAt
<1>7. K[hdr].now.kind = "header"
  BY <1>4 DEF OpenAt
<1>8. Logged(K, p, off + 1, txn)
  BY <1>3 DEF Logged
<1>9. \A q : Logged(J, q, off, txn) => Logged(K, q, off, txn)
  <2>1. off \in 1 .. JournalLen + 1 /\ \A i \in 1 .. off - 1 : K[i].now = J[i].now
    BY <1>4
  <2> QED
    BY <2>1, LoggedSame
<1>10. \A q : Logged(K, q, off, txn) => Logged(K, q, off + 1, txn)
  BY LoggedLonger
<1>11. \A q : Logged(J, q, hdr, txn) => Logged(K, q, hdr, txn)
  <2>1. hdr \in 1 .. JournalLen + 1 /\ \A i \in 1 .. hdr - 1 : K[i].now = J[i].now
    BY <1>4
  <2> QED
    BY <2>1, LoggedSame
<1>12. OpenAt(K, hdr, off + 1, txn, size)
  BY <1>5, <1>6, <1>7 DEF OpenAt
<1> QED
  BY <1>1, <1>8, <1>9, <1>10, <1>11, <1>12

LEMMA NoSegments ==
    ASSUME NEW J, NEW txn, NEW size
    PROVE  Segments(J, 1, txn, size)
<1>1. 1 .. 1 - 1 = {} /\ ~(1 > 1)
  OBVIOUS
<1> QED
  BY <1>1 DEF Segments

Written(J, i, value) == [J EXCEPT ![i] = Put(@, value)]

LEMMA CellWritten ==
    ASSUME NEW J, IsFile(J), NEW i \in 1 .. JournalLen, NEW value
    PROVE  /\ IsFile(Written(J, i, value)) /\ Written(J, i, value)[i].now = value
           /\ \A k \in 1 .. JournalLen \ {i} : Written(J, i, value)[k] = J[k]
<1> DEFINE K == Written(J, i, value)
<1>1. K = [J EXCEPT ![i] = Put(@, value)]
  BY DEF Written
<1> HIDE DEF K
<1>2. /\ IsFile(K) /\ K[i].now = value
      /\ \A k \in 1 .. JournalLen \ {i} : K[k] = J[k]
  BY <1>1 DEF IsFile, Put
<1> QED
  BY <1>2 DEF K

LEMMA HeaderStarts ==
    ASSUME NEW cells, IsFile(cells), NEW txn, NEW size, NEW J,
           J = [cells EXCEPT ![1] = Put(@, Header(FALSE, 0, txn, size))]
    PROVE  IsFile(J) /\ OpenAt(J, 1, 2, txn, size)
<1> USE PagerAssumption
<1>1. 1 \in 1 .. JournalLen /\ 1 + 1 .. 2 - 1 = {}
  OBVIOUS
<1> DEFINE head == Header(FALSE, 0, txn, size)
<1>2. J = Written(cells, 1, head)
  BY DEF Written
<1>3. head.kind = "header"
  BY DEF Header
<1> HIDE DEF head
<1>4. IsFile(J) /\ J[1].now = head
  <2>1. \A v : IsFile(Written(cells, 1, v)) /\ Written(cells, 1, v)[1].now = v
    <3>1. 1 \in 1 .. JournalLen
      BY <1>1
    <3>2. \A i \in 1 .. JournalLen : \A v : IsFile(Written(cells, i, v))
      BY CellWritten
    <3>3. \A i \in 1 .. JournalLen : \A v : Written(cells, i, v)[i].now = v
      BY CellWritten
    <3> QED
      BY <3>1, <3>2, <3>3
  <2>2. IsFile(Written(cells, 1, head)) /\ Written(cells, 1, head)[1].now = head
    BY <2>1
  <2> QED
    BY <1>2, <2>2, Zenon
<1> QED
  BY <1>1, <1>3, <1>4, NoSegments DEF OpenAt

(* pager_open_journal: the journal that the first page to be written       *)
(* opens, and its header; a journal that is open is gone on with.          *)
JournalFor(c) ==
    IF pager[c].jfd # Nothing THEN pager[c].jfd
    ELSE IF dir.now # Nothing THEN dir.now
    ELSE CHOOSE new \in Journals : new \notin dir.disk

CellsFor(c) ==
    IF pager[c].jfd # Nothing \/ dir.now # Nothing THEN jrnl[JournalFor(c)] ELSE Blank

StartedFor(c) ==
    IF pager[c].eState = "WRITER_LOCKED"
      THEN [CellsFor(c) EXCEPT
              ![1] = Put(@, Header(FALSE, 0, pager[c].txn, pager[c].origSize))]
      ELSE CellsFor(c)

LEMMA PutPageStarts ==
    ASSUME PagerInv, NEW c \in Conns, Idle(c), pager[c].eState = "WRITER_LOCKED" \/ Writing(c),
           pager[c].jfd = Nothing /\ dir.now = Nothing => ~(Journals \subseteq dir.disk),
           NEW J, J = StartedFor(c), NEW off, NEW hdr,
           off = IF pager[c].eState = "WRITER_LOCKED" THEN 2 ELSE pager[c].off,
           hdr = IF pager[c].eState = "WRITER_LOCKED" THEN 1 ELSE pager[c].hdr
    PROVE  /\ JournalFor(c) \in Journals /\ IsFile(J)
           /\ hdr \in 1 .. JournalLen /\ off \in hdr + 1 .. JournalLen + 1
           /\ OpenAt(J, hdr, off, pager[c].txn, pager[c].origSize)
           /\ \A p \in pager[c].inJournal : Logged(J, p, off, pager[c].txn)
           /\ \A p \in pager[c].inJournal \ pager[c].needSync : Logged(J, p, hdr, pager[c].txn)
           /\ \A p \in pager[c].dirty : p <= pager[c].origSize => p \in pager[c].inJournal
<1> USE PagerAssumption
<1> DEFINE P == pager[c]
<1>1. /\ PagerOK(P) /\ Fits(P, held[c], c \in reserved) /\ JournalOK(P, jrnl)
      /\ FilesOK /\ P.at = "idle"
  BY DEF PagerInv, Good, Idle
<1>2. JournalFor(c) \in Journals
  BY <1>1 DEF PagerOK, FilesOK, JournalFor
<1> DEFINE cells == CellsFor(c)
<1>3. IsFile(cells)
  BY <1>1, <1>2 DEF FilesOK, IsFile, Blank, CellsFor
<1>4. CASE P.eState = "WRITER_LOCKED"
  <2>1. P.inJournal = {} /\ P.needSync = {} /\ P.dirty = {}
    BY <1>1, <1>4 DEF PagerOK
  <2>2. J = [cells EXCEPT ![1] = Put(@, Header(FALSE, 0, P.txn, P.origSize))]
    BY <1>4 DEF StartedFor
  <2>3. off = 2 /\ hdr = 1 /\ 1 \in 1 .. JournalLen /\ 2 \in 1 + 1 .. JournalLen + 1
    BY <1>4
  <2>4. IsFile(J) /\ OpenAt(J, 1, 2, P.txn, P.origSize)
    BY <1>3, <2>2, HeaderStarts
  <2> QED
    BY <1>2, <2>1, <2>3, <2>4
<1>5. CASE P.eState # "WRITER_LOCKED"
  <2>1. Logging(P)
    BY <1>1, <1>5 DEF Writing, Logging, Fits
  <2>2. P.jfd \in Journals /\ LogOK(P, jrnl[P.jfd])
    BY <1>1, <2>1 DEF JournalOK
  <2>3. CASE P.jfd # Nothing
    <3>1. J = jrnl[P.jfd] /\ J = cells /\ off = P.off /\ hdr = P.hdr
      BY <1>5, <2>3 DEF StartedFor, CellsFor, JournalFor
    <3>2. /\ P.hdr \in 1 .. JournalLen + 1 /\ P.off \in P.hdr .. JournalLen + 1
          /\ P.hdr < P.off
      BY <1>1, <2>2 DEF LogOK, OpenSegment
    <3>3. P.hdr \in 1 .. JournalLen /\ P.off \in P.hdr + 1 .. JournalLen + 1
      BY <3>2
    <3>4. OpenAt(jrnl[P.jfd], P.hdr, P.off, P.txn, P.origSize)
      BY <1>1, <2>2 DEF LogOK, OpenSegment, OpenAt
    <3>5. /\ \A p \in P.inJournal : Logged(jrnl[P.jfd], p, P.off, P.txn)
          /\ \A p \in P.inJournal \ P.needSync : Logged(jrnl[P.jfd], p, P.hdr, P.txn)
          /\ \A p \in P.dirty : p <= P.origSize => p \in P.inJournal
      BY <2>2 DEF LogOK
    <3> QED
      BY <1>2, <1>3, <1>5, <2>3, <3>1, <3>3, <3>4, <3>5
  <2> QED
    BY <2>2, <2>3
<1> QED
  BY <1>4, <1>5

Filled(P, e, id, sync, hdr, off, logged, unsafe, cache, dirty, size, job, at) ==
    [P EXCEPT !.eState = e, !.jfd = id, !.dirSync = sync, !.hdr = hdr, !.off = off,
              !.inJournal = logged, !.needSync = unsafe, !.cache = cache,
              !.dirty = dirty, !.size = size, !.job = job, !.at = at]

LEMMA FilledIsPager ==
    ASSUME NEW P, IsPager(P), NEW e, NEW id, NEW sync, NEW hdr, NEW off, NEW logged, NEW unsafe,
           NEW cache, NEW dirty, NEW size, NEW job, NEW at, NEW Q,
           Q = Filled(P, e, id, sync, hdr, off, logged, unsafe, cache, dirty, size, job, at)
    PROVE  /\ IsPager(Q)
           /\ Q.eState = e /\ Q.jfd = id /\ Q.hdr = hdr /\ Q.off = off /\ Q.inJournal = logged
           /\ Q.needSync = unsafe /\ Q.dirty = dirty /\ Q.job = job /\ Q.at = at
           /\ Q.txn = P.txn /\ Q.origSize = P.origSize /\ Q.mode = P.mode
  BY DEF IsPager, Fields, Filled

LEMMA PutPageKeeps ==
    ASSUME FLP!LocksInv, PagerInv, NEW c \in Conns, NEW p \in Pages, NEW value, NEW job, NEW at,
           Idle(c), pager[c].eState = "WRITER_LOCKED" \/ Writing(c),
           PutPage(c, p, value, job, at), UNCHANGED <<locks, db>>,
           \/ job = "none" /\ at = "idle"
           \/ job = "commit" /\ Writing(c) /\ at = ToExclusive(c)
    PROVE  PagerInv'
<1> USE PagerAssumption
<1> DEFINE P      == pager[c]
           id     == JournalFor(c)
           J      == StartedFor(c)
           first  == P.eState = "WRITER_LOCKED"
           off    == IF first THEN 2 ELSE P.off
           hdr    == IF first THEN 1 ELSE P.hdr
           log    == p <= P.origSize /\ p \notin P.inJournal
           more   == p > P.origSize /\ P.eState # "WRITER_DBMOD"
           K      == IF log THEN Appended(J, off, p, P.cache[p], P.txn) ELSE J
           end    == IF log THEN off + 1 ELSE off
           logged == IF log THEN P.inJournal \cup {p} ELSE P.inJournal
           unsafe == IF log \/ more THEN P.needSync \cup {p} ELSE P.needSync
           Q      == Dirtied(P, p, value, id, log, job, at)
<1>1. /\ PagerOK(P) /\ Fits(P, held[c], c \in reserved) /\ FilesOK
      /\ P.eState \in {"WRITER_LOCKED", "WRITER_CACHEMOD", "WRITER_DBMOD"}
  BY DEF PagerInv, Good, Writing
<1>2. /\ pager' = [pager EXCEPT ![c] = Q]
      /\ jrnl' = [jrnl EXCEPT ![id] = K]
      /\ dir' = IF P.jfd # Nothing \/ dir.now # Nothing THEN dir
                ELSE [now |-> id, disk |-> dir.disk \cup {id}]
      /\ log => off <= JournalLen
      /\ P.jfd = Nothing /\ dir.now = Nothing => ~(Journals \subseteq dir.disk)
  <2>1. pager' = [pager EXCEPT ![c] = Q]
    BY DEF PutPage, Set, JournalFor
  <2>2. jrnl' = [jrnl EXCEPT ![id] = K]
    BY DEF PutPage, JournalFor, CellsFor, StartedFor, Appended
  <2>3. /\ dir' = IF P.jfd # Nothing \/ dir.now # Nothing THEN dir
                  ELSE [now |-> id, disk |-> dir.disk \cup {id}]
        /\ log => off <= JournalLen
        /\ P.jfd = Nothing /\ dir.now = Nothing => ~(Journals \subseteq dir.disk)
    BY DEF PutPage, JournalFor
  <2> QED
    BY <2>1, <2>2, <2>3
<1>3. /\ id \in Journals /\ IsFile(J)
      /\ hdr \in 1 .. JournalLen /\ off \in hdr + 1 .. JournalLen + 1
      /\ OpenAt(J, hdr, off, P.txn, P.origSize)
      /\ \A q \in P.inJournal : Logged(J, q, off, P.txn)
      /\ \A q \in P.inJournal \ P.needSync : Logged(J, q, hdr, P.txn)
      /\ \A q \in P.dirty : q <= P.origSize => q \in P.inJournal
  BY <1>2, PutPageStarts
<1>4. /\ Q.eState = (IF first THEN "WRITER_CACHEMOD" ELSE P.eState)
      /\ Q.jfd = id /\ Q.hdr = hdr /\ Q.off = end /\ Q.inJournal = logged /\ Q.needSync = unsafe
      /\ Q.dirty = P.dirty \cup {p} /\ Q.job = job /\ Q.at = at
      /\ Q.txn = P.txn /\ Q.origSize = P.origSize /\ Q.mode = P.mode /\ IsPager(Q)
  <2>1. IsPager(P)
    BY <1>1 DEF PagerOK
  <2> DEFINE sync == P.dirSync \/ P.jfd = Nothing
             cache == [P.cache EXCEPT ![p] = value]
             dirty == P.dirty \cup {p}
             size == IF p > P.size THEN p ELSE P.size
             state == IF first THEN "WRITER_CACHEMOD" ELSE P.eState
  <2>2. Q = Filled(P, state, id, sync, hdr, end, logged, unsafe, cache, dirty, size, job, at)
    BY DEF Dirtied, Filled
  <2> HIDE DEF Q, P, id, first, off, hdr, log, more, end, logged, unsafe, state, sync, cache, dirty, size
  <2>3. /\ IsPager(Q) /\ Q.eState = state /\ Q.jfd = id /\ Q.hdr = hdr /\ Q.off = end
        /\ Q.inJournal = logged /\ Q.needSync = unsafe /\ Q.dirty = dirty
        /\ Q.job = job /\ Q.at = at
        /\ Q.txn = P.txn /\ Q.origSize = P.origSize /\ Q.mode = P.mode
    BY <2>1, <2>2, FilledIsPager
  <2> QED
    BY <2>3 DEF state, dirty
<1> HIDE DEF Q, J
<1>5. /\ IsFile(K) /\ OpenAt(K, hdr, end, P.txn, P.origSize) /\ end \in hdr + 1 .. JournalLen + 1
      /\ \A q \in logged : Logged(K, q, end, P.txn)
      /\ \A q \in logged \ unsafe : Logged(K, q, hdr, P.txn)
  <2>1. CASE log
    <3>1. off \in hdr + 1 .. JournalLen
      BY <1>2, <1>3, <2>1
    <3>2. K = Appended(J, off, p, P.cache[p], P.txn)
      BY <2>1
    <3> HIDE DEF off, hdr, K
    <3>3. /\ IsFile(K) /\ OpenAt(K, hdr, off + 1, P.txn, P.origSize)
          /\ Logged(K, p, off + 1, P.txn)
          /\ \A q : Logged(J, q, off, P.txn) => Logged(K, q, off + 1, P.txn)
          /\ \A q : Logged(J, q, hdr, P.txn) => Logged(K, q, hdr, P.txn)
      BY <1>3, <3>1, <3>2, SegmentGrows
    <3>4. end = off + 1 /\ logged = P.inJournal \cup {p} /\ unsafe = P.needSync \cup {p}
      BY <2>1
    <3>5. end \in hdr + 1 .. JournalLen + 1
      BY <1>3, <3>1, <3>4
    <3> HIDE DEF end, logged, unsafe
    <3> QED
      BY <1>3, <3>3, <3>4, <3>5
  <2>2. CASE ~log
    BY <1>3, <2>2
  <2> QED
    BY <2>1, <2>2
<1> HIDE DEF K
<1>6. p <= P.origSize => p \in logged
  OBVIOUS
<1>7. \A q \in Q.dirty : q <= P.origSize => q \in logged
  BY <1>3, <1>4, <1>6
<1> HIDE DEF id, first, hdr, off, end, log, more, logged, unsafe
<1>8. /\ Q.eState \in {"WRITER_CACHEMOD", "WRITER_DBMOD"}
      /\ Q.eState = "WRITER_DBMOD" => P.eState = "WRITER_DBMOD"
      /\ Q.at \in {"idle", "exclusive", "records"} /\ Q.job \in {"none", "commit"}
      /\ Q.at = "idle" <=> Q.job = "none"
      /\ Q.at = "records" => held[c] = EXCLUSIVE_LOCK
  BY <1>1, <1>4 DEF first, ToExclusive
<1>9. FilesOK'
  <2>1. dir'.disk \subseteq Journals \cup {Nothing} /\ dir'.now \in Journals \cup {Nothing}
    BY <1>1, <1>2, <1>3 DEF FilesOK
  <2>2. jrnl' = [a \in Journals |-> jrnl'[a]] /\ \A a \in Journals : IsFile(jrnl'[a])
    BY <1>1, <1>2, <1>5, JournalWritten
  <2> QED
    BY <1>1, <2>1, <2>2 DEF FilesOK
<1>10. held'[c] = held[c] /\ (c \in reserved' <=> c \in reserved) /\ OthersKeepLocks(c)
  BY LockMoves
<1>11. Fits(Q, held'[c], c \in reserved')
  BY <1>1, <1>8, <1>10 DEF Fits, IsWriter
<1>12. LogOK(Q, K)
  <2>1. hdr \in 1 .. JournalLen + 1 /\ end \in hdr .. JournalLen + 1 /\ hdr < end
    BY <1>3, <1>5
  <2>2. Segments(K, hdr, P.txn, P.origSize) /\ OpenSegment(Q, K)
    BY <1>4, <1>5, <2>1 DEF OpenAt, OpenSegment
  <2> QED
    BY <1>4, <1>5, <1>7, <1>8, <2>1, <2>2 DEF LogOK
<1>13. jrnl'[Q.jfd] = K /\ Q.jfd \in Journals
  BY <1>1, <1>2, <1>3, <1>4 DEF FilesOK
<1>14. PagerOK(Q)
  BY <1>1, <1>4, <1>8, <1>13 DEF PagerOK
<1>15. JournalOK(Q, jrnl') /\ SyncedFirst(Q, db')
  BY <1>8, <1>12, <1>13 DEF JournalOK, SyncedFirst
<1>16. Owner(c)
  BY <1>1 DEF Owner, IsWriter
<1> QED
  BY <1>2, <1>9, <1>10, <1>11, <1>14, <1>15, <1>16, OneMoves DEF Good

LEMMA WriteKeeps ==
    ASSUME FLP!LocksInv, PagerInv, NEW c \in Conns, NEW p \in Pages, Write(c, p)
    PROVE  PagerInv'
<1>1. Idle(c) /\ (pager[c].eState = "WRITER_LOCKED" \/ Writing(c)) /\ UNCHANGED <<locks, db>>
  BY DEF Write
<1>2. PICK value : PutPage(c, p, value, "none", "idle")
  BY DEF Write
<1> QED
  BY <1>1, <1>2, PutPageKeeps

LEMMA BeginCommitKeeps ==
    ASSUME FLP!LocksInv, PagerInv, NEW c \in Conns, BeginCommit(c)
    PROVE  PagerInv'
<1>1. Idle(c) /\ Writing(c) /\ UNCHANGED <<locks, db>>
  BY DEF BeginCommit
<1>2. PICK value : PutPage(c, 1, value, "commit", ToExclusive(c))
  BY DEF BeginCommit
<1>3. 1 \in Pages
  BY PagerAssumption DEF Pages
<1> QED
  BY <1>1, <1>2, <1>3, PutPageKeeps

(* Steps that only move a transaction on. *)
LEMMA LogMovesOn ==
    ASSUME FLP!LocksInv, PagerInv, NEW c \in Conns, NEW Q, Logging(pager[c]),
           pager' = [pager EXCEPT ![c] = Q], UNCHANGED disk, OthersKeepLocks(c),
           Differs(pager[c], Q, {"at", "job", "spilled"}),
           Fits(Q, held'[c], c \in reserved'), Q.job # "rollback",
           Q.at \notin {"failed", "header", "finalize", "zeroed"},
           ~(pager[c].at = "failed") /\ ~(pager[c].at = "write" /\ pager[c].job = "commit"),
           Q.job = "spill" => Q.spilled \in pager[c].dirty,
           Q.at = "write" => Q.job = "spill" /\ Q.spilled \notin pager[c].needSync,
           Q.at \in {"exclusive", "records"} => Q.job \in {"commit", "spill"}
    PROVE  PagerInv'
<1> DEFINE P == pager[c]
<1>1. PagerOK(P) /\ FilesOK /\ P.jfd \in Journals /\ LogOK(P, jrnl[P.jfd])
  BY DEF PagerInv, Good, JournalOK
<1>2. /\ IsPager(Q) /\ Q.eState = P.eState /\ Q.mode = P.mode /\ Q.jfd = P.jfd
      /\ Q.inJournal = P.inJournal /\ Q.needSync = P.needSync /\ Q.dirty = P.dirty
      /\ Q.hdr = P.hdr /\ Q.off = P.off /\ Q.txn = P.txn /\ Q.origSize = P.origSize
  BY DEF Differs, Fields
<1>3. PagerOK(Q) /\ SyncedFirst(Q, db') /\ FilesOK'
  BY <1>1, <1>2 DEF PagerOK, SyncedFirst, FilesOK, disk
<1>4. OpenSegment(P, jrnl[P.jfd])
  BY <1>1 DEF LogOK
<1>5. OpenSegment(Q, jrnl[P.jfd])
  BY <1>2, <1>4 DEF OpenSegment
<1>6. LogOK(Q, jrnl[P.jfd])
  BY <1>1, <1>2, <1>5 DEF LogOK
<1>7. JournalOK(Q, jrnl')
  BY <1>1, <1>2, <1>6 DEF JournalOK, disk
<1> QED
  BY <1>3, <1>7, OneMoves DEF Good

LEMMA SpillKeeps ==
    ASSUME FLP!LocksInv, PagerInv, NEW c \in Conns, NEW p \in Pages, Spill(c, p)
    PROVE  PagerInv'
<1> DEFINE P == pager[c]
           at == IF p \in P.needSync \/ P.eState = "WRITER_CACHEMOD"
                   THEN ToExclusive(c) ELSE "write"
           Q == [P EXCEPT !.job = "spill", !.spilled = p, !.at = at]
<1>1. PagerOK(P) /\ Fits(P, held[c], c \in reserved) /\ P.at = "idle"
  BY DEF PagerInv, Good, Spill, Idle
<1>2. /\ pager' = [pager EXCEPT ![c] = Q] /\ UNCHANGED disk /\ UNCHANGED locks
      /\ p \in P.dirty /\ P.eState \in {"WRITER_CACHEMOD", "WRITER_DBMOD"}
  BY DEF Spill, Set, Writing
<1>3. Differs(P, Q, {"at", "job", "spilled"}) /\ Q.job = "spill" /\ Q.spilled = p /\ Q.at = at
  BY <1>1 DEF PagerOK, IsPager, Fields, Differs
<1> HIDE DEF Q
<1>4. Q.eState = P.eState
  BY <1>3 DEF Differs, Fields
<1>5. held'[c] = held[c] /\ reserved' = reserved /\ OthersKeepLocks(c)
  BY <1>2, LockMoves
<1>6. at \in {"exclusive", "records", "write"} /\ (at = "records" => held[c] = EXCLUSIVE_LOCK)
      /\ (at = "write" => P.eState = "WRITER_DBMOD" /\ p \notin P.needSync)
  BY <1>2 DEF ToExclusive
<1> HIDE DEF at
<1>7. Logging(P)
  BY <1>1, <1>2 DEF Fits, Logging
<1>8. Fits(Q, held'[c], c \in reserved')
  BY <1>1, <1>2, <1>3, <1>4, <1>5, <1>6 DEF Fits, IsWriter
<1> QED
  BY <1>1, <1>2, <1>3, <1>5, <1>6, <1>7, <1>8, LogMovesOn

LEMMA ExclusiveLockKeeps ==
    ASSUME FLP!LocksInv, PagerInv, NEW c \in Conns, ExclusiveLock(c)
    PROVE  PagerInv'
<1> DEFINE P == pager[c]
<1>1. /\ PagerOK(P) /\ Fits(P, held[c], c \in reserved) /\ P.at = "exclusive" /\ UNCHANGED disk
      /\ JournalOK(P, jrnl)
  BY DEF PagerInv, Good, ExclusiveLock, At
<1>2. Logging(P) /\ P.eState \in {"WRITER_CACHEMOD", "WRITER_DBMOD"}
  BY <1>1 DEF Fits, Logging
<1>3. LogOK(P, jrnl[P.jfd])
  BY <1>1, <1>2 DEF JournalOK
<1>4. P.job \in {"commit", "spill"} /\ (P.job = "spill" => P.spilled \in P.dirty)
  BY <1>1, <1>3 DEF LogOK
<1>5. CASE FL!Pend(c) /\ UNCHANGED pager
  <2>1. pager' = [pager EXCEPT ![c] = P]
    BY <1>5 DEF PagerInv
  <2>2. /\ held'[c] = PENDING_LOCK /\ held[c] # EXCLUSIVE_LOCK /\ reserved' = reserved
        /\ OthersKeepLocks(c)
    <3>1. held[c] \in {1, 2}
      BY <1>5, LockMoves
    <3>2. held'[c] = PENDING_LOCK /\ reserved' = reserved /\ OthersKeepLocks(c)
      BY <1>5, LockMoves
    <3>3. held[c] # EXCLUSIVE_LOCK
      BY <3>1
    <3> QED
      BY <3>2, <3>3
  <2>3. Fits(P, held'[c], c \in reserved')
    BY <1>1, <1>2, <2>2 DEF Fits, IsWriter
  <2>4. Differs(P, P, {"at", "job", "spilled"})
    BY <1>1 DEF Differs, PagerOK
  <2> QED
    BY <1>1, <1>2, <1>4, <2>1, <2>2, <2>3, <2>4, LogMovesOn
<1>6. CASE FL!Exclude(c) /\ Goto(c, "records")
  <2> DEFINE Q == [P EXCEPT !.at = "records"]
  <2>1. pager' = [pager EXCEPT ![c] = Q]
    BY <1>6, GotoSets
  <2>2. held'[c] = EXCLUSIVE_LOCK /\ reserved' = reserved /\ OthersKeepLocks(c)
    BY <1>6, LockMoves
  <2>3. Differs(P, Q, {"at", "job", "spilled"}) /\ Q.at = "records" /\ Q.job = P.job
        /\ Q.spilled = P.spilled
    BY <1>1 DEF PagerOK, IsPager, Fields, Differs
  <2> HIDE DEF Q
  <2>4. Q.eState = P.eState
    BY <2>3 DEF Differs, Fields
  <2>5. Fits(Q, held'[c], c \in reserved')
    BY <1>1, <1>2, <2>2, <2>3, <2>4 DEF Fits, IsWriter
  <2> QED
    BY <1>1, <1>2, <1>4, <2>1, <2>2, <2>3, <2>5, LogMovesOn
<1>7. CASE UNCHANGED locks /\ Set(c, [P EXCEPT !.at = "idle", !.job = "none"])
  <2> DEFINE Q == [P EXCEPT !.at = "idle", !.job = "none"]
  <2>1. pager' = [pager EXCEPT ![c] = Q]
    BY <1>7 DEF Set
  <2>2. held'[c] = held[c] /\ reserved' = reserved /\ OthersKeepLocks(c)
    BY <1>7, LockMoves
  <2>3. Differs(P, Q, {"at", "job", "spilled"}) /\ Q.at = "idle" /\ Q.job = "none"
    BY <1>1 DEF PagerOK, IsPager, Fields, Differs
  <2> HIDE DEF Q
  <2>4. Q.eState = P.eState
    BY <2>3 DEF Differs, Fields
  <2>5. Fits(Q, held'[c], c \in reserved')
    BY <1>1, <1>2, <2>2, <2>3, <2>4 DEF Fits, IsWriter
  <2> QED
    BY <1>1, <1>2, <2>1, <2>2, <2>3, <2>5, LogMovesOn
<1> QED
  BY <1>5, <1>6, <1>7 DEF ExclusiveLock

(* pager_write_pagelist, for the commit and for the spill of a page. *)
LEMMA WriteOutKeeps ==
    ASSUME FLP!LocksInv, PagerInv, NEW c \in Conns, WriteOut(c)
    PROVE  PagerInv'
<1> DEFINE P == pager[c]
           p == FirstDirty(P)
           Q == [P EXCEPT !.dirty = @ \ {p}, !.vers = IF p = 1 THEN P.cache[1].ctr ELSE @]
<1>1. /\ PagerOK(P) /\ Fits(P, held[c], c \in reserved) /\ FilesOK /\ JournalOK(P, jrnl)
      /\ P.at = "write" /\ P.job = "commit"
  BY DEF PagerInv, Good, WriteOut, At
<1>2. /\ pager' = [pager EXCEPT ![c] = Q] /\ UNCHANGED <<locks, dir, jrnl>>
      /\ db' = [db EXCEPT ![p] = Put(@, P.cache[p])]
  BY DEF WriteOut, Set
<1>3. Differs(P, Q, {"dirty", "vers"}) /\ Q.dirty = P.dirty \ {p}
  BY <1>1 DEF PagerOK, IsPager, Fields, Differs
<1> HIDE DEF Q, p
<1>4. /\ IsPager(Q) /\ Q.eState = P.eState /\ Q.mode = P.mode /\ Q.jfd = P.jfd
      /\ Q.inJournal = P.inJournal /\ Q.needSync = P.needSync /\ Q.at = P.at /\ Q.job = P.job
      /\ Q.hdr = P.hdr /\ Q.off = P.off /\ Q.txn = P.txn /\ Q.origSize = P.origSize
  BY <1>3 DEF Differs, Fields
<1>5. P.eState = "WRITER_DBMOD" /\ Logging(P) /\ Owner(c)
  BY <1>1 DEF Fits, Logging, Owner, IsWriter
<1>6. held'[c] = held[c] /\ reserved' = reserved /\ OthersKeepLocks(c)
  BY <1>2, LockMoves
<1>7. FilesOK'
  <2>1. db' = [q \in Pages |-> db'[q]]
    BY <1>1, <1>2 DEF FilesOK
  <2> QED
    BY <1>1, <1>2, <2>1 DEF FilesOK
<1>8. PagerOK(Q) /\ SyncedFirst(Q, db') /\ Fits(Q, held'[c], c \in reserved')
  BY <1>1, <1>3, <1>4, <1>5, <1>6 DEF PagerOK, SyncedFirst, Fits, IsWriter
<1>9. P.jfd \in Journals /\ LogOK(P, jrnl[P.jfd])
  BY <1>1, <1>5 DEF JournalOK
<1>10. LogOK(Q, jrnl[P.jfd])
  BY <1>1, <1>3, <1>4, <1>9 DEF LogOK
<1>11. JournalOK(Q, jrnl')
  BY <1>2, <1>4, <1>9, <1>10 DEF JournalOK
<1> QED
  BY <1>2, <1>5, <1>6, <1>7, <1>8, <1>11, OneMoves DEF Good

LEMMA SpillOutKeeps ==
    ASSUME FLP!LocksInv, PagerInv, NEW c \in Conns, SpillOut(c)
    PROVE  PagerInv'
<1> DEFINE P == pager[c]
           p == P.spilled
           Q == [P EXCEPT !.dirty = @ \ {p}, !.cache[p] = Nothing,
                          !.at = "idle", !.job = "none", !.spilled = 0]
<1>1. /\ PagerOK(P) /\ Fits(P, held[c], c \in reserved) /\ FilesOK /\ JournalOK(P, jrnl)
      /\ P.at = "write" /\ P.job = "spill"
  BY DEF PagerInv, Good, SpillOut, At
<1>2. /\ pager' = [pager EXCEPT ![c] = Q] /\ UNCHANGED <<locks, dir, jrnl>>
      /\ db' = [db EXCEPT ![p] = Put(@, P.cache[p])]
  BY DEF SpillOut, Set
<1>3. /\ Differs(P, Q, {"dirty", "cache", "at", "job", "spilled"})
      /\ Q.dirty = P.dirty \ {p} /\ Q.at = "idle" /\ Q.job = "none"
  BY <1>1 DEF PagerOK, IsPager, Fields, Differs
<1> HIDE DEF Q
<1>4. /\ IsPager(Q) /\ Q.eState = P.eState /\ Q.mode = P.mode /\ Q.jfd = P.jfd
      /\ Q.inJournal = P.inJournal /\ Q.needSync = P.needSync
      /\ Q.hdr = P.hdr /\ Q.off = P.off /\ Q.txn = P.txn /\ Q.origSize = P.origSize
  BY <1>3 DEF Differs, Fields
<1>5. P.eState = "WRITER_DBMOD" /\ Logging(P) /\ Owner(c)
  BY <1>1 DEF Fits, Logging, Owner, IsWriter
<1>6. held'[c] = held[c] /\ reserved' = reserved /\ OthersKeepLocks(c)
  BY <1>2, LockMoves
<1>7. FilesOK'
  <2>1. db' = [q \in Pages |-> db'[q]]
    BY <1>1, <1>2 DEF FilesOK
  <2> QED
    BY <1>1, <1>2, <2>1 DEF FilesOK
<1>8. PagerOK(Q) /\ SyncedFirst(Q, db') /\ Fits(Q, held'[c], c \in reserved')
  BY <1>1, <1>3, <1>4, <1>5, <1>6 DEF PagerOK, SyncedFirst, Fits, IsWriter
<1>9. P.jfd \in Journals /\ LogOK(P, jrnl[P.jfd])
  BY <1>1, <1>5 DEF JournalOK
<1>10. LogOK(Q, jrnl[P.jfd])
  <2>1. OpenSegment(Q, jrnl[P.jfd])
    BY <1>1, <1>4, <1>9 DEF LogOK, OpenSegment
  <2> QED
    BY <1>1, <1>3, <1>4, <1>9, <2>1 DEF LogOK
<1>11. JournalOK(Q, jrnl')
  BY <1>2, <1>4, <1>9, <1>10 DEF JournalOK
<1> QED
  BY <1>2, <1>5, <1>6, <1>7, <1>8, <1>11, OneMoves DEF Good

(* syncJournal *)
LEMMA SyncRecordsKeeps ==
    ASSUME FLP!LocksInv, PagerInv, NEW c \in Conns, SyncRecords(c)
    PROVE  PagerInv'
<1> USE PagerAssumption
<1> DEFINE P     == pager[c]
           J     == jrnl[P.jfd]
           left  == P.off <= JournalLen /\ IsHeader(J[P.off].now)
           clean == IF left THEN Written(J, P.off, Zeros) ELSE J
           full  == Header(TRUE, P.off - P.hdr - 1, P.txn, P.origSize)
           done  == Fsync(clean)
           K     == Written(done, P.hdr, full)
           Q     == [P EXCEPT !.at = "header", !.dirSync = FALSE]
<1>1. /\ PagerOK(P) /\ Fits(P, held[c], c \in reserved) /\ FilesOK /\ JournalOK(P, jrnl)
      /\ P.at = "records" /\ P.job # "rollback"
  BY DEF PagerInv, Good, SyncRecords, At, Fits
<1>2. /\ pager' = [pager EXCEPT ![c] = Q] /\ UNCHANGED <<locks, db>>
      /\ jrnl' = [jrnl EXCEPT ![P.jfd] = K]
      /\ dir' = dir \/ dir' = Synced(dir.now)
  BY DEF SyncRecords, Set, Journal, Written
<1>3. Differs(P, Q, {"at", "dirSync"}) /\ Q.at = "header"
  BY <1>1 DEF PagerOK, IsPager, Fields, Differs
<1> HIDE DEF Q
<1>4. /\ IsPager(Q) /\ Q.eState = P.eState /\ Q.mode = P.mode /\ Q.jfd = P.jfd /\ Q.job = P.job
      /\ Q.inJournal = P.inJournal /\ Q.needSync = P.needSync /\ Q.dirty = P.dirty
      /\ Q.hdr = P.hdr /\ Q.off = P.off /\ Q.txn = P.txn /\ Q.origSize = P.origSize
      /\ Q.spilled = P.spilled
  BY <1>3 DEF Differs, Fields
<1>5. Logging(P) /\ Owner(c)
  BY <1>1 DEF Fits, Logging, Owner, IsWriter
<1>6. held'[c] = held[c] /\ reserved' = reserved /\ OthersKeepLocks(c)
  BY <1>2, LockMoves
<1>7. P.jfd \in Journals /\ LogOK(P, J) /\ IsFile(J) /\ OpenSegment(P, J)
  BY <1>1, <1>5 DEF JournalOK, LogOK, FilesOK
<1>8. /\ P.hdr \in 1 .. JournalLen /\ P.off \in P.hdr + 1 .. JournalLen + 1
      /\ P.off \in 1 .. JournalLen + 1
  BY <1>7 DEF LogOK, OpenSegment
<1> HIDE DEF J
<1>9. IsFile(clean) /\ \A i \in 1 .. P.off - 1 : clean[i] = J[i]
  <2>1. CASE left
    <3>1. P.off \in 1 .. JournalLen /\ \A i \in 1 .. P.off - 1 : i \in 1 .. JournalLen \ {P.off}
      BY <1>8, <2>1
    <3> QED
      BY <1>7, <2>1, <3>1, CellWritten
  <2>2. CASE ~left
    BY <1>7, <2>2
  <2> QED
    BY <2>1, <2>2
<1> HIDE DEF clean
<1>10. IsFile(done) /\ \A i \in 1 .. P.off - 1 : done[i].now = J[i].now /\ OnDisk(done[i])
  <2>1. \A i \in 1 .. P.off - 1 : i \in 1 .. JournalLen
    BY <1>8
  <2> QED
    BY <1>9, <2>1, FsyncKeeps
<1> HIDE DEF done, full
<1>11. IsFile(K) /\ K[P.hdr].now = full /\ \A i \in 1 .. JournalLen \ {P.hdr} : K[i] = done[i]
  BY <1>8, <1>10, CellWritten
<1> HIDE DEF K
<1>12. \A i \in 1 .. P.off - 1 : i # P.hdr => K[i].now = J[i].now /\ OnDisk(K[i])
  BY <1>8, <1>10, <1>11
<1>13. FilesOK'
  <2>1. jrnl' = [a \in Journals |-> jrnl'[a]] /\ \A a \in Journals : IsFile(jrnl'[a])
    BY <1>1, <1>2, <1>11, JournalWritten
  <2> QED
    BY <1>1, <1>2, <2>1, DirSynced DEF FilesOK
<1>14. PagerOK(Q) /\ SyncedFirst(Q, db') /\ Fits(Q, held'[c], c \in reserved')
  BY <1>1, <1>3, <1>4, <1>5, <1>6 DEF PagerOK, SyncedFirst, Fits, IsWriter, Logging
<1>15. Segments(K, P.hdr, P.txn, P.origSize)
  <2>1. P.hdr \in 1 .. JournalLen + 1 /\ \A i \in 1 .. P.hdr - 1 : i \in 1 .. P.off - 1 /\ i # P.hdr
    BY <1>8
  <2>2. \A i \in 1 .. P.hdr - 1 : K[i].now = J[i].now /\ OnDisk(K[i])
    BY <1>12, <2>1
  <2>3. Segments(J, P.hdr, P.txn, P.origSize)
    BY <1>7 DEF LogOK
  <2> QED
    BY <2>1, <2>2, <2>3, SegmentsSame
<1>16. OpenSegment(Q, K)
  <2>1. \A i \in P.hdr + 1 .. P.off - 1 : i \in 1 .. P.off - 1 /\ i # P.hdr
    BY <1>8
  <2>2. \A i \in P.hdr + 1 .. P.off - 1 : IsLog(K[i].now, P.txn)
    BY <1>7, <1>12, <2>1 DEF OpenSegment
  <2>3. full.kind = "header"
    BY DEF full, Header
  <2> QED
    BY <1>4, <1>7, <1>11, <2>2, <2>3 DEF OpenSegment
<1>17. \A p : /\ Logged(J, p, P.off, P.txn) => Logged(K, p, P.off, P.txn)
              /\ Logged(J, p, P.hdr, P.txn) => Logged(K, p, P.hdr, P.txn)
  <2>1. J[P.hdr].now.kind = "header"
    BY <1>7 DEF OpenSegment
  <2>2. \A i \in 1 .. P.hdr - 1 : i \in 1 .. P.off - 1 /\ i # P.hdr
    BY <1>8
  <2> QED
    BY <1>12, <2>1, <2>2 DEF Logged, IsLogOf
<1>18. LogOK(Q, K)
  BY <1>1, <1>3, <1>4, <1>7, <1>11, <1>15, <1>16, <1>17 DEF LogOK, full
<1>19. jrnl'[P.jfd] = K
  BY <1>1, <1>2, <1>7 DEF FilesOK
<1>20. JournalOK(Q, jrnl')
  BY <1>4, <1>7, <1>18, <1>19 DEF JournalOK
<1> QED
  BY <1>2, <1>5, <1>6, <1>13, <1>14, <1>20, OneMoves DEF Good

LEMMA SyncHeaderKeeps ==
    ASSUME FLP!LocksInv, PagerInv, NEW c \in Conns, SyncHeader(c)
    PROVE  PagerInv'
<1> USE PagerAssumption
<1> DEFINE P    == pager[c]
           J    == jrnl[P.jfd]
           next == P.job = "spill"
           done == Fsync(J)
           head == Header(FALSE, 0, P.txn, P.origSize)
           K    == IF next THEN Written(done, P.off, head) ELSE done
           end  == IF next THEN P.off + 1 ELSE P.off
           Q    == [P EXCEPT !.at = "write", !.eState = "WRITER_DBMOD", !.needSync = {},
                             !.hdr = P.off, !.off = end]
<1>1. /\ PagerOK(P) /\ Fits(P, held[c], c \in reserved) /\ FilesOK /\ JournalOK(P, jrnl)
      /\ P.at = "header" /\ P.job # "rollback"
  BY DEF PagerInv, Good, SyncHeader, At, Fits
<1>2. Logging(P) /\ Owner(c) /\ held[c] = EXCLUSIVE_LOCK
  BY <1>1 DEF Fits, Logging, Owner, IsWriter
<1>3. P.jfd \in Journals /\ LogOK(P, J) /\ IsFile(J) /\ OpenSegment(P, J)
  BY <1>1, <1>2 DEF JournalOK, LogOK, FilesOK
<1>4. /\ UNCHANGED <<locks, db, dir>> /\ (next => P.off <= JournalLen)
      /\ jrnl' = [jrnl EXCEPT ![P.jfd] = K]
  BY DEF SyncHeader, Journal, Written
<1>5. pager' = [pager EXCEPT ![c] = Q]
  BY <1>1 DEF SyncHeader, Set, PagerOK, IsPager, Fields
<1>6. /\ Differs(P, Q, {"at", "eState", "needSync", "hdr", "off"}) /\ Q.at = "write"
      /\ Q.eState = "WRITER_DBMOD" /\ Q.needSync = {} /\ Q.hdr = P.off /\ Q.off = end
  BY <1>1 DEF PagerOK, IsPager, Fields, Differs
<1> HIDE DEF Q
<1>7. /\ IsPager(Q) /\ Q.mode = P.mode /\ Q.jfd = P.jfd /\ Q.job = P.job
      /\ Q.inJournal = P.inJournal /\ Q.dirty = P.dirty /\ Q.spilled = P.spilled
      /\ Q.txn = P.txn /\ Q.origSize = P.origSize
  BY <1>6 DEF Differs, Fields
<1>8. held'[c] = held[c] /\ reserved' = reserved /\ OthersKeepLocks(c)
  BY <1>4, LockMoves
<1>9. /\ P.hdr \in 1 .. JournalLen /\ P.off \in P.hdr + 1 .. JournalLen + 1
      /\ P.off \in 1 .. JournalLen + 1 /\ end \in P.off .. JournalLen + 1
  BY <1>3, <1>4 DEF LogOK, OpenSegment
<1> HIDE DEF J
<1>10. IsFile(done) /\ \A i \in 1 .. P.off - 1 : done[i].now = J[i].now /\ OnDisk(done[i])
  <2>1. \A i \in 1 .. P.off - 1 : i \in 1 .. JournalLen
    BY <1>9
  <2> QED
    BY <1>3, <2>1, FsyncKeeps
<1> HIDE DEF done, head
<1>11. /\ IsFile(K) /\ \A i \in 1 .. P.off - 1 : K[i].now = J[i].now /\ OnDisk(K[i])
       /\ next => K[P.off].now = head
  <2>1. CASE next
    <3>1. P.off \in 1 .. JournalLen /\ \A i \in 1 .. P.off - 1 : i \in 1 .. JournalLen \ {P.off}
      BY <1>4, <1>9, <2>1
    <3> QED
      BY <1>10, <2>1, <3>1, CellWritten
  <2>2. CASE ~next
    BY <1>10, <2>2
  <2> QED
    BY <2>1, <2>2
<1> HIDE DEF K
<1>12. FilesOK'
  <2>1. jrnl' = [a \in Journals |-> jrnl'[a]] /\ \A a \in Journals : IsFile(jrnl'[a])
    BY <1>1, <1>4, <1>11, JournalWritten
  <2> QED
    BY <1>1, <1>4, <2>1 DEF FilesOK
<1>13. PagerOK(Q) /\ SyncedFirst(Q, db') /\ Fits(Q, held'[c], c \in reserved')
  BY <1>1, <1>2, <1>6, <1>7, <1>8 DEF PagerOK, SyncedFirst, Fits, IsWriter, Logging
<1>14. Segments(K, P.off, P.txn, P.origSize)
  <2>1. /\ Segments(J, P.hdr, P.txn, P.origSize)
        /\ J[P.hdr].now = Header(TRUE, P.off - P.hdr - 1, P.txn, P.origSize)
        /\ \A i \in P.hdr + 1 .. P.off - 1 : IsLog(J[i].now, P.txn)
    BY <1>1, <1>3 DEF LogOK, OpenSegment
  <2>2. \A i \in 1 .. P.off - 1 : K[i].now = J[i].now /\ OnDisk(K[i])
    BY <1>11
  <2>3. P.hdr \in 1 .. JournalLen /\ P.off \in P.hdr + 1 .. JournalLen + 1
    BY <1>9
  <2> HIDE DEF P
  <2> QED
    BY <2>1, <2>2, <2>3, SegmentCompleted
<1>15. next => OpenSegment(Q, K)
  <2>1. ASSUME next PROVE P.off < end /\ P.off + 1 .. end - 1 = {}
    BY <1>9, <2>1
  <2>2. head.kind = "header"
    BY DEF head, Header
  <2> QED
    BY <1>6, <1>7, <1>11, <2>1, <2>2 DEF OpenSegment
<1>16. \A p \in P.inJournal : Logged(K, p, P.off, P.txn) /\ Logged(K, p, end, P.txn)
  <2>1. \A p \in P.inJournal : Logged(J, p, P.off, P.txn)
    BY <1>3 DEF LogOK
  <2>2. \A i \in 1 .. P.off - 1 : K[i].now = J[i].now
    BY <1>11
  <2>3. \A p \in P.inJournal : Logged(K, p, P.off, P.txn)
    BY <1>9, <2>1, <2>2, LoggedSame
  <2> HIDE DEF end
  <2> QED
    BY <1>9, <2>3, LoggedLonger
<1>17. P.job \in {"commit", "spill"} /\ (next => P.spilled \in P.dirty)
  BY <1>1, <1>3 DEF LogOK
<1> HIDE DEF end
<1>18. LogOK(Q, K)
  BY <1>3, <1>6, <1>7, <1>9, <1>14, <1>15, <1>16, <1>17 DEF LogOK
<1>19. jrnl'[P.jfd] = K
  BY <1>1, <1>3, <1>4 DEF FilesOK
<1>20. JournalOK(Q, jrnl')
  BY <1>3, <1>7, <1>18, <1>19 DEF JournalOK
<1> QED
  BY <1>2, <1>5, <1>8, <1>12, <1>13, <1>20, OneMoves DEF Good

------------------------------------------------------------------------------
(* Theorems *)

LEMMA PagerStarts == Init => PagerInv
<1> SUFFICES ASSUME Init PROVE PagerInv
  OBVIOUS
<1>1. PICK s \in Starts :
          /\ pager = [c \in Conns |-> Fresh(s.mode[c])]
          /\ db = [p \in Pages |-> Synced(IF p <= s.size THEN Page(0, 0) ELSE Nothing)]
  BY DEF Init
<1>2. \A c \in Conns : s.mode[c] \in {"delete", "persist"}
  BY PagerAssumption
<1>3. \A c \in Conns : /\ PagerOK(pager[c]) /\ pager[c].eState = "OPEN"
                       /\ pager[c].at = "idle" /\ pager[c].job = "none"
  BY <1>1, <1>2, Reopened
<1>4. ASSUME NEW c \in Conns PROVE Good(pager[c], held[c], c \in reserved, jrnl, db)
  BY <1>3 DEF Good, Fits, IsWriter, JournalOK, Logging, SyncedFirst
<1>5. FilesOK
  <2>1. \A id \in Journals : IsFile(jrnl[id])
    BY DEF Init, IsFile, Blank
  <2> QED
    BY <1>1, <2>1 DEF Init, FilesOK, Synced
<1> QED
  BY <1>1, <1>4, <1>5 DEF PagerInv

LEMMA PagerStep == FLP!LocksInv /\ PagerInv /\ [Next]_vars => PagerInv'
<1> SUFFICES ASSUME FLP!LocksInv, PagerInv, [Next]_vars PROVE PagerInv'
  OBVIOUS
<1>1. ASSUME NEW c \in Conns,
             \/ Share(c) \/ LookForJournal(c) \/ CheckReservedLock(c) \/ PeekAtJournal(c)
             \/ LockForRollback(c) \/ GiveUpRollback(c) \/ OpenHotJournal(c) \/ Validate(c)
             \/ Unlock(c)
      PROVE  PagerInv'
  BY <1>1, SharedLockKeeps, GiveUpKeeps, OpenHotJournalKeeps, ValidateKeeps
<1>2. ASSUME NEW c \in Conns,
             \/ Begin(c) \/ EndUnwritten(c) \/ BeginCommit(c)
             \/ \E p \in Pages : ReadPage(c, p) \/ Write(c, p) \/ Spill(c, p)
      PROVE  PagerInv'
  BY <1>2, BeginKeeps, EndUnwrittenKeeps, BeginCommitKeeps, ReadPageKeeps, WriteKeeps, SpillKeeps
<1>3. ASSUME NEW c \in Conns,
             \/ ExclusiveLock(c) \/ SyncRecords(c) \/ SyncHeader(c) \/ WriteOut(c)
             \/ SpillOut(c) \/ SyncDatabase(c) \/ FinalizeJournal(c) \/ SyncZeroedHeader(c)
      PROVE  PagerInv'
  BY <1>3, ExclusiveLockKeeps, SyncRecordsKeeps, SyncHeaderKeeps, WriteOutKeeps, SpillOutKeeps,
     SyncDatabaseKeeps, FinalizeJournalKeeps, SyncZeroedHeaderKeeps
<1>4. ASSUME NEW c \in Conns,
             \/ RollbackCache(c) \/ RollbackDatabase(c) \/ PlayRecord(c) \/ Fail(c) \/ Crash(c)
      PROVE  PagerInv'
  BY <1>4, RollbackKeeps, PlayRecordKeeps, FailKeeps, CrashKeeps
<1>5. CASE PowerLoss
  BY <1>5, PowerLossKeeps
<1>6. CASE UNCHANGED vars
  BY <1>6 DEF vars, locks, disk, PagerInv, FilesOK
<1> QED
  BY <1>1, <1>2, <1>3, <1>4, <1>5, <1>6, Zenon DEF Next

(* The locks, the pagers and the files fit together throughout. *)
THEOREM PagerInvariant == Spec => []PagerInv
<1> QED
  BY PagersShareLocks, PagerStarts, PagerStep, PTL DEF Spec

(* assert_pager_state: whatever has failed or ended, each connection has   *)
(* the locks that the state of its pager and the stage of its call rely    *)
(* on: SHARED to read, RESERVED to log, EXCLUSIVE once the file may be     *)
(* written to.                                                             *)
StatesFitLocks == \A c \in Conns : Fits(pager[c], held[c], c \in reserved)

(* So for every connection in every reachable state.                       *)
THEOREM PagerStatesFitLocks == Spec => []StatesFitLocks
<1>1. PagerInv => StatesFitLocks
  BY DEF PagerInv, Good, StatesFitLocks
<1> QED
  BY <1>1, PagerInvariant, PTL

(* Note (1a) of pager.c, write ahead: when a page is written to the        *)
(* database file in a commit or a spill, a record of what it was is in the *)
(* journal and on the disk, in a segment whose header counts it and is on  *)
(* the disk as well, as are all segments before it.                        *)
WriteAhead ==
    \A c \in Conns :
        LET P == pager[c] IN
        At(c, "write") =>
            /\ Segments(Journal(c), P.hdr, P.txn, P.origSize)
            /\ \A p \in P.dirty : p <= P.origSize /\ (P.job = "spill" => p = P.spilled) =>
                   Logged(Journal(c), p, P.hdr, P.txn)

(* So before every write to the database file.                             *)
THEOREM PagesAreLoggedAhead == Spec => []WriteAhead
<1>1. ASSUME PagerInv, NEW c \in Conns, At(c, "write")
      PROVE  LET P == pager[c] IN
             /\ Segments(Journal(c), P.hdr, P.txn, P.origSize)
             /\ \A p \in P.dirty : p <= P.origSize /\ (P.job = "spill" => p = P.spilled) =>
                    Logged(Journal(c), p, P.hdr, P.txn)
  <2>1. Fits(pager[c], held[c], c \in reserved) /\ JournalOK(pager[c], jrnl)
    BY <1>1 DEF PagerInv, Good
  <2>2. Logging(pager[c])
    BY <1>1, <2>1 DEF At, Fits, Logging
  <2>3. LogOK(pager[c], Journal(c))
    BY <2>1, <2>2 DEF JournalOK, Journal
  <2> QED
    BY <1>1, <2>3 DEF LogOK, At
<1>2. PagerInv => WriteAhead
  BY <1>1 DEF WriteAhead
<1> QED
  BY <1>2, PagerInvariant, PTL

(* Note (5) of pager.c: when the journal is deleted or zeroed, all that    *)
(* was written to the database file is on the disk.                        *)
SyncedBeforeFinal == \A c \in Conns : SyncedFirst(pager[c], db)

(* So in every state in which a journal is about to be finalized.          *)
THEOREM DatabaseIsSyncedFirst == Spec => []SyncedBeforeFinal
<1>1. PagerInv => SyncedBeforeFinal
  BY DEF PagerInv, Good, SyncedBeforeFinal
<1> QED
  BY <1>1, PagerInvariant, PTL

------------------------------------------------------------------------------
(* Readers see one database *)

Reading(P) == P.eState \in {"READER", "WRITER_LOCKED", "WRITER_CACHEMOD"}

LEMMA WriterIsExclusive ==
    ASSUME PagerInv, Next, db' # db, ~PowerLoss
    PROVE  \E c \in Conns : held[c] = EXCLUSIVE_LOCK /\ ~Reading(pager[c])
<1>1. ASSUME NEW c \in Conns,
             OpenHotJournal(c) \/ WriteOut(c) \/ SpillOut(c) \/ SyncDatabase(c)
             \/ RollbackDatabase(c) \/ PlayRecord(c)
      PROVE  held[c] = EXCLUSIVE_LOCK /\ ~Reading(pager[c])
  <2>1. Fits(pager[c], held[c], c \in reserved)
    BY DEF PagerInv, Good
  <2>2. pager[c].at \in {"open", "write", "play"} \/ pager[c].eState = "WRITER_DBMOD"
    BY <1>1 DEF OpenHotJournal, WriteOut, SpillOut, SyncDatabase, RollbackDatabase, PlayRecord, At
  <2> QED
    BY <2>1, <2>2 DEF Fits, Reading
<1>2. ASSUME NEW c \in Conns, Fail(c)
      PROVE  held[c] = EXCLUSIVE_LOCK /\ ~Reading(pager[c])
  <2>1. Fits(pager[c], held[c], c \in reserved) /\ db = [p \in Pages |-> db[p]]
    BY DEF PagerInv, Good, FilesOK
  <2>2. PICK torn \in SUBSET Target(c) :
            db' = [p \in Pages |-> IF p \in torn THEN Put(db[p], Junk) ELSE db[p]]
    BY <1>2 DEF Fail
  <2>3. torn # {}
    BY <2>1, <2>2
  <2>4. pager[c].at \in {"write", "play"}
    BY <2>3 DEF Target, At
  <2> QED
    BY <2>1, <2>4 DEF Fits, Reading
<1>3. ASSUME NEW c \in Conns,
             Share(c) \/ LookForJournal(c) \/ CheckReservedLock(c) \/ PeekAtJournal(c)
             \/ LockForRollback(c) \/ GiveUpRollback(c) \/ Validate(c) \/ Unlock(c) \/ Begin(c)
             \/ EndUnwritten(c) \/ BeginCommit(c)
             \/ \E p \in Pages : ReadPage(c, p) \/ Write(c, p) \/ Spill(c, p)
      PROVE  FALSE
  BY <1>3 DEF disk, Share, LookForJournal, CheckReservedLock, PeekAtJournal, LockForRollback,
     GiveUpRollback, Validate, Unlock, Begin, EndUnwritten, BeginCommit, ReadPage, Write, Spill
<1>4. ASSUME NEW c \in Conns,
             ExclusiveLock(c) \/ SyncRecords(c) \/ SyncHeader(c) \/ FinalizeJournal(c)
             \/ SyncZeroedHeader(c) \/ RollbackCache(c) \/ Crash(c)
      PROVE  FALSE
  BY <1>4 DEF disk, ExclusiveLock, SyncRecords, SyncHeader, FinalizeJournal, SyncZeroedHeader,
     RollbackCache, Crash
<1> QED
  BY <1>1, <1>2, <1>3, <1>4, Zenon DEF Next

(* Notes (12) and (13) of pager.c: the database file changes only under an *)
(* EXCLUSIVE lock, and while a connection reads it, or writes to its cache *)
(* only, it does not change at all, whatever the others do.                *)
ReadersSeeOneFile ==
    [][\A c \in Conns : Reading(pager[c]) /\ Reading(pager[c])' => db' = db]_vars

(* So for every step and every reader.                                     *)
THEOREM FileStaysForReaders == Spec => ReadersSeeOneFile
<1>1. ASSUME FLP!LocksInv, PagerInv, [Next]_vars, NEW c \in Conns,
             Reading(pager[c]), Reading(pager[c])'
      PROVE  db' = db
  <2>1. ~PowerLoss
    BY <1>1 DEF PowerLoss, Reading, Fresh
  <2>2. SUFFICES ASSUME db' # db PROVE FALSE
    OBVIOUS
  <2>3. Next
    BY <1>1, <2>2 DEF vars, disk
  <2>4. PICK o \in Conns : held[o] = EXCLUSIVE_LOCK /\ ~Reading(pager[o])
    BY <1>1, <2>1, <2>2, <2>3, WriterIsExclusive
  <2>5. held[c] = NO_LOCK
    BY <1>1, <2>4 DEF FLP!LocksInv, FLP!ExclusiveMeansAlone, FLP!EXCLUSIVE_LOCK, FLP!NO_LOCK
  <2>6. Fits(pager[c], held[c], c \in reserved)
    BY <1>1 DEF PagerInv, Good
  <2> QED
    BY <1>1, <2>5, <2>6 DEF Fits, Reading, IsWriter
<1>2. FLP!LocksInv /\ PagerInv /\ [Next]_vars =>
          \A c \in Conns : Reading(pager[c]) /\ Reading(pager[c])' => db' = db
  BY <1>1
<1> QED
  BY <1>2, PagersShareLocks, PagerInvariant, PTL DEF Spec, ReadersSeeOneFile

------------------------------------------------------------------------------
(* The journal stays linked if all connections agree on the journal mode   *)

Alike     == \A s \in Starts : \A c, o \in Conns : s.mode[c] = s.mode[o]
AllDelete == \A s \in Starts : \A c \in Conns : s.mode[c] = "delete"

(* The journal that a connection has open is the one in the directory; in  *)
(* mode DELETE only the connection that may write has one open.            *)
Links(P, entry, owner) ==
    /\ P.jfd # Nothing \/ P.eState \in {"WRITER_CACHEMOD", "WRITER_DBMOD"} => entry = P.jfd
    /\ P.mode = "delete" /\ P.jfd # Nothing => owner

LinkInv ==
    /\ \A c, o \in Conns : pager[c].mode = pager[o].mode
    /\ AllDelete => \A c \in Conns : pager[c].mode = "delete"
    /\ \A c \in Conns : Links(pager[c], dir.now, Owner(c))

(* What has become of the journal of connection c. *)
Kept(c)    == pager'[c].jfd = pager[c].jfd /\ (Writing(c)' => Writing(c)) /\ (Owner(c) => Owner(c)')
Dropped(c) == pager'[c].jfd = Nothing /\ ~Writing(c)'
Ending(c)  == /\ pager'[c].jfd = IF pager[c].mode = "persist" THEN pager[c].jfd ELSE Nothing
              /\ ~Writing(c)'

LEMMA LinkMoves ==
    ASSUME FLP!LocksInv, PagerInv, LinkInv, NEW c \in Conns,
           pager' = [pager EXCEPT ![c] = pager'[c]], pager'[c].mode = pager[c].mode,
           OthersKeepLocks(c), Links(pager'[c], dir'.now, Owner(c)'),
           dir'.now = dir.now \/ \A o \in Conns \ {c} : pager[o].jfd = Nothing /\ ~Writing(o)
    PROVE  LinkInv'
<1>1. \A o \in Conns \ {c} : pager'[o] = pager[o] /\ held'[o] = held[o]
  BY DEF PagerInv, OthersKeepLocks
<1>2. \A o \in Conns : pager'[o].mode = pager[o].mode
  BY <1>1
<1>3. ASSUME NEW o \in Conns PROVE Links(pager'[o], dir'.now, Owner(o)')
  <2>1. CASE o = c
    BY <2>1
  <2>2. CASE o # c
    <3>1. Owner(o)' = Owner(o) /\ pager'[o] = pager[o]
      BY <1>1, <2>2 DEF Owner
    <3>2. Links(pager[o], dir.now, Owner(o))
      BY DEF LinkInv
    <3> QED
      BY <2>2, <3>1, <3>2 DEF Links, Writing
  <2> QED
    BY <2>1, <2>2
<1> QED
  BY <1>2, <1>3 DEF LinkInv

LEMMA LinkStays ==
    ASSUME FLP!LocksInv, PagerInv, LinkInv, NEW c \in Conns,
           pager' = [pager EXCEPT ![c] = pager'[c]], pager'[c].mode = pager[c].mode,
           OthersKeepLocks(c), dir'.now = dir.now, Kept(c) \/ Dropped(c) \/ Ending(c)
    PROVE  LinkInv'
<1>1. Links(pager[c], dir.now, Owner(c)) /\ pager[c].mode \in {"delete", "persist"}
  BY DEF LinkInv, PagerInv, Good, PagerOK
<1>2. Links(pager'[c], dir'.now, Owner(c)')
  BY <1>1 DEF Links, Kept, Dropped, Ending, Writing
<1> QED
  BY <1>2, LinkMoves

(* What is set is what the pager is then. *)
LEMMA SetIs ==
    ASSUME PagerInv, NEW c \in Conns, NEW Q, pager' = [pager EXCEPT ![c] = Q]
    PROVE  pager'[c] = Q /\ pager' = [pager EXCEPT ![c] = pager'[c]]
  BY DEF PagerInv

(* The state, the mode and the journal are not touched. *)
Same(c) ==
    /\ pager' = [pager EXCEPT ![c] = pager'[c]]
    /\ pager'[c].mode = pager[c].mode /\ pager'[c].jfd = pager[c].jfd
    /\ pager'[c].eState = pager[c].eState

LEMMA SameSteps ==
    ASSUME PagerInv, NEW c \in Conns,
           \/ Share(c) \/ LookForJournal(c) \/ CheckReservedLock(c) \/ PeekAtJournal(c)
           \/ LockForRollback(c) \/ ExclusiveLock(c) \/ SyncRecords(c)
           \/ WriteOut(c) \/ SpillOut(c) \/ RollbackCache(c) \/ RollbackDatabase(c)
           \/ PlayRecord(c) \/ \E p \in Pages : ReadPage(c, p) \/ Spill(c, p)
    PROVE  Same(c) /\ dir'.now = dir.now
<1>1. PagerOK(pager[c]) /\ pager = [a \in Conns |-> pager[a]]
  BY DEF PagerInv, Good
<1> USE <1>1 DEF PagerOK, IsPager, Fields, Set, Goto, Same, disk
<1>2. CASE Share(c) \/ LookForJournal(c) \/ CheckReservedLock(c) \/ PeekAtJournal(c)
           \/ LockForRollback(c)
  <2>1. CASE Share(c)
    BY <2>1 DEF Share
  <2>2. CASE LookForJournal(c)
    BY <2>2 DEF LookForJournal
  <2>3. CASE CheckReservedLock(c)
    BY <2>3 DEF CheckReservedLock
  <2>4. CASE PeekAtJournal(c)
    BY <2>4 DEF PeekAtJournal
  <2>5. CASE LockForRollback(c)
    BY <2>5 DEF LockForRollback
  <2> QED
    BY <1>2, <2>1, <2>2, <2>3, <2>4, <2>5
<1>3. CASE ExclusiveLock(c)
  <2>1. \/ UNCHANGED pager
        \/ pager' = [pager EXCEPT ![c] = [pager[c] EXCEPT !.at = "records"]]
        \/ pager' = [pager EXCEPT ![c] = [pager[c] EXCEPT !.at = "idle", !.job = "none"]]
    BY <1>3 DEF ExclusiveLock
  <2>2. dir' = dir
    BY <1>3 DEF ExclusiveLock
  <2>3. CASE UNCHANGED pager
    BY <2>2, <2>3
  <2>4. CASE pager' = [pager EXCEPT ![c] = [pager[c] EXCEPT !.at = "records"]]
    BY <2>2, <2>4
  <2>5. CASE pager' = [pager EXCEPT ![c] = [pager[c] EXCEPT !.at = "idle", !.job = "none"]]
    BY <2>2, <2>5
  <2> QED
    BY <2>1, <2>3, <2>4, <2>5
<1>4. CASE SyncRecords(c)
  BY <1>4 DEF SyncRecords, Synced
<1>5. CASE WriteOut(c)
  BY <1>5 DEF WriteOut
<1>6. CASE SpillOut(c)
  BY <1>6 DEF SpillOut
<1>7. CASE RollbackCache(c)
  BY <1>7 DEF RollbackCache
<1>8. CASE RollbackDatabase(c)
  BY <1>8 DEF RollbackDatabase
<1>9. CASE PlayRecord(c)
  BY <1>9 DEF PlayRecord
<1>10. CASE \E p \in Pages : ReadPage(c, p)
  BY <1>10 DEF ReadPage
<1>11. CASE \E p \in Pages : Spill(c, p)
  <2>0. PICK page \in Pages : Spill(c, page)
    BY <1>11
  <2>1. PICK p, at : pager' = [pager EXCEPT ![c] = [pager[c] EXCEPT !.job = "spill", !.spilled = p,
                                                                    !.at = at]]
    BY <2>0, Zenon DEF Spill, Set
  <2>2. dir' = dir
    BY <1>11 DEF Spill
  <2> QED
    BY <2>1, <2>2
<1> QED
  BY <1>2, <1>3, <1>4, <1>5, <1>6, <1>7, <1>8, <1>9, <1>10, <1>11

LEMMA SameLocks ==
    ASSUME FLP!LocksInv, PagerInv, NEW c \in Conns,
           \/ Share(c) \/ LookForJournal(c) \/ CheckReservedLock(c) \/ PeekAtJournal(c)
           \/ LockForRollback(c) \/ ExclusiveLock(c) \/ SyncRecords(c)
           \/ WriteOut(c) \/ SpillOut(c) \/ RollbackCache(c) \/ RollbackDatabase(c)
           \/ PlayRecord(c) \/ \E p \in Pages : ReadPage(c, p) \/ Spill(c, p)
    PROVE  OthersKeepLocks(c) /\ (held[c] = EXCLUSIVE_LOCK => held'[c] = EXCLUSIVE_LOCK)
<1>1. CASE Share(c)
  <2>1. FL!Share(c) /\ held[c] = NO_LOCK
    BY <1>1 DEF Share, FL!Share, FL!NO_LOCK
  <2>2. OthersKeepLocks(c)
    BY <2>1, LockMoves
  <2>3. held[c] # EXCLUSIVE_LOCK
    BY <2>1
  <2> QED
    BY <2>2, <2>3
<1>2. CASE LockForRollback(c) \/ ExclusiveLock(c)
  <2>1. FL!Pend(c) \/ FL!Exclude(c) \/ UNCHANGED locks
    BY <1>2 DEF LockForRollback, ExclusiveLock
  <2>2. CASE FL!Pend(c)
    <3>1. OthersKeepLocks(c) /\ held[c] \in {1, 2}
      BY <2>2, LockMoves
    <3> QED
      BY <3>1
  <2> QED
    BY <2>1, <2>2, LockMoves
<1>3. ASSUME UNCHANGED locks
      PROVE  OthersKeepLocks(c) /\ (held[c] = EXCLUSIVE_LOCK => held'[c] = EXCLUSIVE_LOCK)
  BY <1>3, LockMoves
<1> QED
  BY <1>1, <1>2, <1>3 DEF LookForJournal, CheckReservedLock, PeekAtJournal, SyncRecords,
     WriteOut, SpillOut, RollbackCache, RollbackDatabase, PlayRecord, ReadPage, Spill

LEMMA SameKeepsLinks ==
    ASSUME FLP!LocksInv, PagerInv, LinkInv, NEW c \in Conns,
           \/ Share(c) \/ LookForJournal(c) \/ CheckReservedLock(c) \/ PeekAtJournal(c)
           \/ LockForRollback(c) \/ ExclusiveLock(c) \/ SyncRecords(c)
           \/ WriteOut(c) \/ SpillOut(c) \/ RollbackCache(c) \/ RollbackDatabase(c)
           \/ PlayRecord(c) \/ \E p \in Pages : ReadPage(c, p) \/ Spill(c, p)
    PROVE  LinkInv'
<1>1. Same(c) /\ dir'.now = dir.now
  BY SameSteps
<1>2. OthersKeepLocks(c) /\ (held[c] = EXCLUSIVE_LOCK => held'[c] = EXCLUSIVE_LOCK)
  BY SameLocks
<1>3. Kept(c)
  BY <1>1, <1>2 DEF Kept, Same, Writing, Owner, IsWriter
<1> QED
  BY <1>1, <1>2, <1>3, LinkStays DEF Same

(* The steps that only change the state of the pager. *)
Moves(c, states) ==
    /\ pager' = [pager EXCEPT ![c] = pager'[c]] /\ pager'[c].mode = pager[c].mode
    /\ pager'[c].jfd = pager[c].jfd /\ pager'[c].eState \in states

LEMMA StateSteps ==
    ASSUME PagerInv, NEW c \in Conns
    PROVE  /\ Validate(c) => Moves(c, {"READER"})
           /\ Begin(c) => Moves(c, {"WRITER_LOCKED"})
           /\ SyncHeader(c) => Moves(c, {"WRITER_DBMOD"})
           /\ SyncDatabase(c) =>
                 Moves(c, IF pager[c].job = "commit" THEN {"WRITER_FINISHED"} ELSE {pager[c].eState})
<1>1. PagerOK(pager[c]) /\ pager = [a \in Conns |-> pager[a]]
  BY DEF PagerInv, Good
<1>2. ASSUME Validate(c) PROVE Moves(c, {"READER"})
  <2> DEFINE P    == pager[c]
             same == P.vers = Counter(db[1].now)
             R == IF P.cache # Emptied(P).cache /\ ~same THEN Emptied(P) ELSE P
             Q == [R EXCEPT !.eState = "READER", !.at = "idle", !.size = SizeOf(File),
                            !.vers = IF R.cache[1] = Nothing THEN Counter(db[1].now) ELSE @,
                            !.cache[1] = IF @ = Nothing THEN db[1].now ELSE @]
  <2>1. pager' = [pager EXCEPT ![c] = Q]
    BY <1>2 DEF Validate, Set
  <2>2. IsPager(R) /\ R.mode = P.mode /\ R.jfd = P.jfd
    BY <1>1 DEF PagerOK, IsPager, Fields, Emptied
  <2> HIDE DEF R
  <2>3. Q.mode = P.mode /\ Q.jfd = P.jfd /\ Q.eState = "READER"
    BY <2>2 DEF IsPager, Fields
  <2> HIDE DEF Q
  <2> QED
    BY <2>1, <2>3, SetIs DEF Moves
<1>3. ASSUME Begin(c) PROVE Moves(c, {"WRITER_LOCKED"})
  BY <1>1, <1>3 DEF Begin, Set, PagerOK, IsPager, Fields, Moves
<1>4. ASSUME SyncHeader(c) PROVE Moves(c, {"WRITER_DBMOD"})
  BY <1>1, <1>4 DEF SyncHeader, Set, PagerOK, IsPager, Fields, Moves
<1>5. ASSUME SyncDatabase(c)
      PROVE  Moves(c, IF pager[c].job = "commit" THEN {"WRITER_FINISHED"} ELSE {pager[c].eState})
  BY <1>1, <1>5 DEF SyncDatabase, Set, PagerOK, IsPager, Fields, Moves
<1> QED
  BY <1>2, <1>3, <1>4, <1>5

LEMMA StateKeepsLinks ==
    ASSUME FLP!LocksInv, PagerInv, LinkInv, NEW c \in Conns,
           Validate(c) \/ Begin(c) \/ SyncHeader(c) \/ SyncDatabase(c)
    PROVE  LinkInv'
<1>1. Fits(pager[c], held[c], c \in reserved)
  BY DEF PagerInv, Good
<1>2. CASE Validate(c)
  <2>1. Moves(c, {"READER"})
    BY <1>2, StateSteps
  <2>2. UNCHANGED locks /\ UNCHANGED disk /\ pager[c].eState = "OPEN"
    BY <1>1, <1>2 DEF Validate, At, Fits
  <2>3. Kept(c) /\ OthersKeepLocks(c) /\ dir'.now = dir.now
    BY <2>1, <2>2, LockMoves DEF Moves, Kept, Writing, Owner, IsWriter, disk
  <2> QED
    BY <2>1, <2>3, LinkStays DEF Moves
<1>3. CASE Begin(c)
  <2>1. Moves(c, {"WRITER_LOCKED"})
    BY <1>3, StateSteps
  <2>2. FL!Reserve(c) /\ UNCHANGED disk
    BY <1>3 DEF Begin
  <2>3. Kept(c) /\ OthersKeepLocks(c) /\ dir'.now = dir.now
    BY <2>1, <2>2, LockMoves DEF Moves, Kept, Writing, Owner, IsWriter, disk
  <2> QED
    BY <2>1, <2>3, LinkStays DEF Moves
<1>4. CASE SyncHeader(c)
  <2>1. Moves(c, {"WRITER_DBMOD"})
    BY <1>4, StateSteps
  <2>2. UNCHANGED <<locks, dir>> /\ Writing(c)
    BY <1>1, <1>4 DEF SyncHeader, At, Fits, Writing
  <2>3. Kept(c) /\ OthersKeepLocks(c) /\ dir'.now = dir.now
    BY <2>1, <2>2, LockMoves DEF Moves, Kept, Writing, Owner, IsWriter
  <2> QED
    BY <2>1, <2>3, LinkStays DEF Moves
<1>5. CASE SyncDatabase(c)
  <2>1. Moves(c, {"WRITER_FINISHED", pager[c].eState})
    BY <1>5, StateSteps DEF Moves
  <2>2. UNCHANGED <<locks, dir>>
    BY <1>5 DEF SyncDatabase
  <2>3. Kept(c) /\ OthersKeepLocks(c) /\ dir'.now = dir.now
    BY <2>1, <2>2, LockMoves DEF Moves, Kept, Writing, Owner, IsWriter
  <2> QED
    BY <2>1, <2>3, LinkStays DEF Moves
<1> QED
  BY <1>2, <1>3, <1>4, <1>5

(* The ends of transactions. *)
LEMMA ReturnEnds ==
    ASSUME PagerInv, NEW c \in Conns, NEW R, PagerOK(R),
           R.mode = pager[c].mode, R.jfd = pager[c].jfd, NEW Q,
           Q = IF R.job = "hot" THEN [Ended(R) EXCEPT !.eState = "OPEN", !.at = "validate"]
               ELSE Ended(R),
           pager' = [pager EXCEPT ![c] = Q]
    PROVE  /\ pager' = [pager EXCEPT ![c] = pager'[c]]
           /\ pager'[c].mode = pager[c].mode /\ Ending(c)
<1> DEFINE E == Ended(R)
<1>1. /\ PagerOK(E) /\ E.mode = R.mode /\ E.eState = "READER"
      /\ E.jfd = IF R.mode = "persist" THEN R.jfd ELSE Nothing
  BY EndedIsReader
<1>2. Q = E \/ Q = [E EXCEPT !.eState = "OPEN", !.at = "validate"]
  OBVIOUS
<1> HIDE DEF E
<1>3. Q.mode = E.mode /\ Q.jfd = E.jfd /\ Q.eState \in {"OPEN", "READER"}
  BY <1>1, <1>2 DEF PagerOK, IsPager, Fields
<1>4. pager'[c] = Q /\ pager' = [pager EXCEPT ![c] = pager'[c]]
  <2>1. \A new : pager' = [pager EXCEPT ![c] = new] =>
                   pager'[c] = new /\ pager' = [pager EXCEPT ![c] = pager'[c]]
    BY SetIs
  <2> QED
    BY <2>1, Zenon
<1> QED
  BY <1>1, <1>3, <1>4 DEF Ending, Writing

LEMMA EndKeepsLinks ==
    ASSUME FLP!LocksInv, PagerInv, LinkInv, NEW c \in Conns,
           EndUnwritten(c) \/ SyncZeroedHeader(c)
    PROVE  LinkInv'
<1> DEFINE P == pager[c]
           R == [P EXCEPT !.dirSync = FALSE]
<1>1. PagerOK(P) /\ Fits(P, held[c], c \in reserved)
  BY DEF PagerInv, Good
<1>2. OthersKeepLocks(c) /\ dir'.now = dir.now
  <2>1. FL!Downgrade(c) /\ (dir' = dir \/ dir' = Synced(dir.now))
    BY DEF EndUnwritten, SyncZeroedHeader, disk
  <2>2. dir'.now = dir.now
    BY <2>1 DEF Synced
  <2> QED
    BY <2>1, <2>2, LockMoves
<1>3. CASE EndUnwritten(c)
  <2>1. P.job # "hot" /\ pager' = [pager EXCEPT ![c] = Ended(P)]
    BY <1>1, <1>3 DEF EndUnwritten, Set, Fits
  <2> QED
    BY <1>1, <1>2, <2>1, ReturnEnds, LinkStays
<1>4. CASE SyncZeroedHeader(c)
  <2>1. pager' = [pager EXCEPT ![c] =
            IF R.job = "hot" THEN [Ended(R) EXCEPT !.eState = "OPEN", !.at = "validate"]
            ELSE Ended(R)]
    BY <1>4 DEF SyncZeroedHeader, Set
  <2>2. PagerOK(R) /\ R.mode = P.mode /\ R.jfd = P.jfd
    BY <1>1 DEF PagerOK, IsPager, Fields
  <2> HIDE DEF R
  <2> QED
    BY <1>2, <2>1, <2>2, ReturnEnds, LinkStays
<1> QED
  BY <1>3, <1>4

LEMMA FinalizeKeepsLinks ==
    ASSUME FLP!LocksInv, PagerInv, LinkInv, NEW c \in Conns, FinalizeJournal(c)
    PROVE  LinkInv'
<1> DEFINE P == pager[c]
<1>1. PagerOK(P) /\ Fits(P, held[c], c \in reserved) /\ P.at = "finalize"
  BY DEF PagerInv, Good, FinalizeJournal, At
<1>2. CASE Return(c)
  <2>1. OthersKeepLocks(c)
    BY <1>2, LockMoves DEF Return
  <2>2. /\ pager' = [pager EXCEPT ![c] = pager'[c]]
        /\ pager'[c].mode = P.mode /\ Ending(c)
    BY <1>1, <1>2, ReturnEnds DEF Return, Set
  <2>3. CASE dir' = dir
    BY <2>1, <2>2, <2>3, LinkStays
  <2>4. CASE P.mode = "delete" /\ dir'.now = Nothing
    <3>1. \A o \in Conns \ {c} : pager[o].jfd = Nothing /\ ~Writing(o)
      <4>1. ASSUME NEW o \in Conns \ {c} PROVE ~Owner(o)
        BY <1>1, <4>1, OneOwner, FinalizerOwns
      <4> QED
        BY <2>4, <4>1 DEF LinkInv, Links, Owner, IsWriter, Writing
    <3>2. Links(pager'[c], dir'.now, Owner(c)')
      BY <2>2, <2>4 DEF Links, Ending, Writing
    <3> QED
      BY <2>1, <2>2, <3>1, <3>2, LinkMoves
  <2> QED
    BY <2>3, <2>4 DEF FinalizeJournal
<1>3. CASE Goto(c, "zeroed") /\ UNCHANGED <<locks, dir>>
  <2>1. Same(c)
    BY <1>1, <1>3, GotoSets, SetIs DEF Same, PagerOK, IsPager, Fields
  <2>2. OthersKeepLocks(c) /\ held'[c] = held[c]
    BY <1>3, LockMoves
  <2>3. Kept(c)
    BY <2>1, <2>2 DEF Kept, Same, Writing, Owner, IsWriter
  <2> QED
    BY <1>3, <2>1, <2>2, <2>3, LinkStays DEF Same
<1> QED
  BY <1>2, <1>3 DEF FinalizeJournal

LEMMA LeaveKeepsLinks ==
    ASSUME FLP!LocksInv, PagerInv, LinkInv, NEW c \in Conns,
           GiveUpRollback(c) \/ Unlock(c) \/ Crash(c)
    PROVE  LinkInv'
<1>1. PagerOK(pager[c]) /\ pager[c].mode \in {"delete", "persist"}
  BY DEF PagerInv, Good, PagerOK
<1>2. PICK Q \in {Closed(pager[c]), Fresh(pager[c].mode)} : pager' = [pager EXCEPT ![c] = Q]
  BY DEF GiveUpRollback, Unlock, Crash, Set
<1>3. Q.mode = pager[c].mode /\ Q.jfd = Nothing /\ Q.eState = "OPEN"
  BY <1>1, <1>2, ClosedIsOpen, Reopened
<1>4. pager'[c] = Q /\ pager' = [pager EXCEPT ![c] = pager'[c]]
  BY <1>2, SetIs
<1>5. Dropped(c)
  BY <1>3, <1>4 DEF Dropped, Writing
<1>6. OthersKeepLocks(c) /\ dir'.now = dir.now
  BY LockMoves DEF GiveUpRollback, Unlock, Crash, disk
<1> QED
  BY <1>3, <1>4, <1>5, <1>6, LinkStays

LEMMA FailKeepsLinks ==
    ASSUME FLP!LocksInv, PagerInv, LinkInv, NEW c \in Conns, Fail(c)
    PROVE  LinkInv'
<1> DEFINE P == pager[c]
<1>1. PagerOK(P)
  BY DEF PagerInv, Good
<1>2. dir'.now = dir.now
  BY DEF Fail
<1>3. CASE \E Q \in {Closed(Emptied(P)), Broken(P)} :
              pager' = [pager EXCEPT ![c] = Q] /\ OthersKeepLocks(c)
  <2>1. PICK Q \in {Closed(Emptied(P)), Broken(P)} :
            pager' = [pager EXCEPT ![c] = Q] /\ OthersKeepLocks(c)
    BY <1>3
  <2>2. Q.mode = P.mode /\ Q.jfd = Nothing /\ Q.eState \in {"OPEN", "ERROR"}
    BY <1>1, <2>1, ClosedIsOpen, BrokenIsError
  <2>3. pager'[c] = Q /\ pager' = [pager EXCEPT ![c] = pager'[c]]
    BY <2>1, SetIs
  <2>4. Dropped(c)
    BY <2>2, <2>3 DEF Dropped, Writing
  <2> QED
    BY <1>2, <2>1, <2>2, <2>3, <2>4, LinkStays
<1>4. CASE UNCHANGED locks /\ Set(c, [P EXCEPT !.at = "failed", !.job = "none"])
  <2>1. pager' = [pager EXCEPT ![c] = [P EXCEPT !.at = "failed", !.job = "none"]]
    BY <1>4 DEF Set
  <2>2. Same(c)
    <3> DEFINE Q == [P EXCEPT !.at = "failed", !.job = "none"]
    <3>1. Q.mode = P.mode /\ Q.jfd = P.jfd /\ Q.eState = P.eState
      BY <1>1 DEF PagerOK, IsPager, Fields
    <3> HIDE DEF Q
    <3> QED
      BY <2>1, <3>1, SetIs DEF Same, Q
  <2>3. OthersKeepLocks(c) /\ held'[c] = held[c]
    BY <1>4, LockMoves
  <2>4. Kept(c)
    BY <2>2, <2>3 DEF Kept, Same, Writing, Owner, IsWriter
  <2> QED
    BY <1>2, <2>2, <2>3, <2>4, LinkStays DEF Same
<1> QED
  BY <1>3, <1>4, LockMoves DEF Fail, Set

LEMMA OpenHotSets ==
    ASSUME PagerInv, NEW c \in Conns, OpenHotJournal(c)
    PROVE  /\ pager' = [pager EXCEPT ![c] = pager'[c]] /\ dir' = dir
           /\ pager'[c].eState = "OPEN" /\ pager'[c].mode = pager[c].mode
           /\ IF dir.now = Nothing THEN FL!Downgrade(c) /\ pager'[c].jfd = pager[c].jfd
              ELSE UNCHANGED locks /\ pager'[c].jfd = dir.now
<1> DEFINE P == pager[c]
<1>1. PagerOK(P) /\ P.eState = "OPEN" /\ dir' = dir
  BY DEF PagerInv, Good, OpenHotJournal, At, disk, Fits
<1>2. CASE dir.now = Nothing
  <2> DEFINE Q == [P EXCEPT !.at = "validate"]
  <2>1. pager' = [pager EXCEPT ![c] = Q] /\ FL!Downgrade(c)
    BY <1>2, GotoSets DEF OpenHotJournal
  <2>2. Q.mode = P.mode /\ Q.jfd = P.jfd /\ Q.eState = P.eState
    BY <1>1 DEF PagerOK, IsPager, Fields
  <2> HIDE DEF Q
  <2> QED
    BY <1>1, <1>2, <2>1, <2>2, SetIs
<1>3. CASE dir.now # Nothing
  <2> DEFINE j == Now(jrnl[dir.now])
             R == [P EXCEPT !.jfd = dir.now, !.job = "hot", !.at = "play"]
             some == j[1].nRec > 0 \/ Playback(j) # {}
             S == IF some THEN Emptied(R) ELSE R
             T == [S EXCEPT !.off = 2, !.size = j[1].dbSize, !.todo = Playback(j)]
             Q == IF IsHeader(j[1]) THEN T ELSE R
  <2>1. pager' = [pager EXCEPT ![c] = Q] /\ UNCHANGED locks
    BY <1>3 DEF OpenHotJournal, Set
  <2>2. IsPager(R) /\ R.jfd = dir.now /\ R.eState = "OPEN" /\ R.mode = P.mode
    BY <1>1 DEF PagerOK, IsPager, Fields
  <2> HIDE DEF R
  <2>3. IsPager(S) /\ S.jfd = dir.now /\ S.eState = "OPEN" /\ S.mode = P.mode
    BY <2>2 DEF IsPager, Fields, Emptied
  <2> HIDE DEF S
  <2>4. T.jfd = dir.now /\ T.eState = "OPEN" /\ T.mode = P.mode
    BY <2>3 DEF IsPager, Fields
  <2> HIDE DEF T, j
  <2>5. Q.jfd = dir.now /\ Q.eState = "OPEN" /\ Q.mode = P.mode
    BY <2>2, <2>4
  <2> HIDE DEF Q
  <2> QED
    BY <1>1, <1>3, <2>1, <2>5, SetIs
<1> QED
  BY <1>2, <1>3

LEMMA OpenHotKeepsLinks ==
    ASSUME FLP!LocksInv, PagerInv, LinkInv, NEW c \in Conns, OpenHotJournal(c)
    PROVE  LinkInv'
<1>1. /\ Fits(pager[c], held[c], c \in reserved) /\ pager[c].at = "open"
      /\ Links(pager[c], dir.now, Owner(c))
  BY DEF PagerInv, Good, OpenHotJournal, At, LinkInv
<1>2. pager[c].eState = "OPEN" /\ held[c] = EXCLUSIVE_LOCK
  BY <1>1 DEF Fits
<1>3. CASE dir.now = Nothing
  <2>1. FL!Downgrade(c) /\ pager'[c].jfd = Nothing /\ pager'[c].eState = "OPEN"
    BY <1>1, <1>3, OpenHotSets DEF Links
  <2>2. Dropped(c) /\ OthersKeepLocks(c)
    BY <2>1, LockMoves DEF Dropped, Writing
  <2> QED
    BY <2>2, OpenHotSets, LinkStays
<1>4. CASE dir.now # Nothing
  <2>1. UNCHANGED locks /\ pager'[c].jfd = dir.now /\ pager'[c].eState = "OPEN" /\ dir' = dir
    BY <1>4, OpenHotSets
  <2>2. OthersKeepLocks(c) /\ held'[c] = held[c]
    BY <2>1, LockMoves
  <2>3. Links(pager'[c], dir'.now, Owner(c)')
    BY <1>1, <1>2, <2>1, <2>2 DEF Links, Owner
  <2> QED
    BY <2>1, <2>2, <2>3, OpenHotSets, LinkMoves
<1> QED
  BY <1>3, <1>4

(* The journal that a writer opens is the one in the directory.            *)
LEMMA PutPageSets ==
    ASSUME PagerInv, NEW c \in Conns, NEW p, NEW value, NEW job, NEW at,
           PutPage(c, p, value, job, at)
    PROVE  /\ pager' = [pager EXCEPT ![c] = pager'[c]]
           /\ pager'[c].eState = IF pager[c].eState = "WRITER_LOCKED" THEN "WRITER_CACHEMOD"
                                 ELSE pager[c].eState
           /\ pager'[c].jfd = JournalFor(c) /\ pager'[c].mode = pager[c].mode
<1> DEFINE P      == pager[c]
           id     == JournalFor(c)
           first  == P.eState = "WRITER_LOCKED"
           state  == IF first THEN "WRITER_CACHEMOD" ELSE P.eState
           off    == IF first THEN 2 ELSE P.off
           log    == p <= P.origSize /\ p \notin P.inJournal
           more   == p > P.origSize /\ P.eState # "WRITER_DBMOD"
           Q      == Dirtied(P, p, value, id, log, job, at)
<1>1. IsPager(P)
  BY DEF PagerInv, Good, PagerOK
<1>2. pager' = [pager EXCEPT ![c] = Q]
  BY DEF PutPage, Set, JournalFor
<1>3. Q.eState = state /\ Q.jfd = id /\ Q.mode = P.mode
  <2> DEFINE sync == P.dirSync \/ P.jfd = Nothing
             cache == [P.cache EXCEPT ![p] = value]
             dirty == P.dirty \cup {p}
             size == IF p > P.size THEN p ELSE P.size
             hdr == IF first THEN 1 ELSE P.hdr
             end == IF log THEN off + 1 ELSE off
             logged == IF log THEN P.inJournal \cup {p} ELSE P.inJournal
             unsafe == IF log \/ more THEN P.needSync \cup {p} ELSE P.needSync
  <2>2. Q = Filled(P, state, id, sync, hdr, end, logged, unsafe, cache, dirty, size, job, at)
    BY DEF Dirtied, Filled
  <2> HIDE DEF Q, P, id, first, off, hdr, log, more, end, logged, unsafe, state, sync, cache, dirty, size
  <2>3. /\ IsPager(Q) /\ Q.eState = state /\ Q.jfd = id /\ Q.hdr = hdr /\ Q.off = end
        /\ Q.inJournal = logged /\ Q.needSync = unsafe /\ Q.dirty = dirty
        /\ Q.job = job /\ Q.at = at
        /\ Q.txn = P.txn /\ Q.origSize = P.origSize /\ Q.mode = P.mode
    BY <1>1, <2>2, FilledIsPager
  <2> QED
    BY <2>3
<1> HIDE DEF Q
<1> QED
  BY <1>2, <1>3, SetIs

LEMMA PutPageKeepsLinks ==
    ASSUME FLP!LocksInv, PagerInv, LinkInv, NEW c \in Conns, NEW p, NEW value, NEW job, NEW at,
           pager[c].eState = "WRITER_LOCKED" \/ Writing(c),
           PutPage(c, p, value, job, at), UNCHANGED locks
    PROVE  LinkInv'
<1>1. Links(pager[c], dir.now, Owner(c)) /\ Owner(c)
  BY DEF PagerInv, LinkInv, Owner, Writing, IsWriter
<1>2. dir' = IF pager[c].jfd # Nothing \/ dir.now # Nothing THEN dir
             ELSE [now |-> JournalFor(c), disk |-> dir.disk \cup {JournalFor(c)}]
  BY DEF PutPage, JournalFor
<1>3. OthersKeepLocks(c) /\ held'[c] = held[c]
  BY LockMoves
<1>4. dir'.now = JournalFor(c)
  BY <1>1, <1>2 DEF Links, JournalFor
<1>5. pager'[c].eState \in {"WRITER_CACHEMOD", "WRITER_DBMOD"} /\ pager'[c].jfd = JournalFor(c)
  BY PutPageSets DEF Writing
<1>6. Links(pager'[c], dir'.now, Owner(c)')
  BY <1>4, <1>5 DEF Links, Owner, IsWriter
<1>7. ASSUME dir'.now # dir.now, NEW o \in Conns \ {c}
      PROVE  pager[o].jfd = Nothing /\ ~Writing(o)
  <2>1. dir.now = Nothing
    BY <1>2, <1>7
  <2>2. ~Owner(o) /\ Links(pager[o], dir.now, Owner(o))
    BY <1>1, <1>7, OneOwner DEF LinkInv
  <2> QED
    BY <2>1, <2>2 DEF Links, Owner, IsWriter, Writing
<1> QED
  BY <1>3, <1>6, <1>7, PutPageSets, LinkMoves

LEMMA PowerLossKeepsLinks == ASSUME PagerInv, LinkInv, PowerLoss PROVE LinkInv'
<1>1. pager' = [c \in Conns |-> Fresh(pager[c].mode)]
  BY DEF PowerLoss
<1>2. \A c \in Conns : /\ pager'[c].mode = pager[c].mode /\ pager'[c].jfd = Nothing
                       /\ pager'[c].eState = "OPEN"
  BY <1>1, Reopened DEF PagerInv, Good, PagerOK
<1>3. \A c \in Conns : Links(pager'[c], dir'.now, Owner(c)')
  BY <1>2 DEF Links
<1> QED
  BY <1>2, <1>3 DEF LinkInv

LEMMA LinkStep == FLP!LocksInv /\ PagerInv /\ LinkInv /\ [Next]_vars => LinkInv'
<1> SUFFICES ASSUME FLP!LocksInv, PagerInv, LinkInv, [Next]_vars PROVE LinkInv'
  OBVIOUS
<1>1. ASSUME NEW c \in Conns,
             \/ Share(c) \/ LookForJournal(c) \/ CheckReservedLock(c) \/ PeekAtJournal(c)
             \/ LockForRollback(c) \/ ExclusiveLock(c) \/ SyncRecords(c)
             \/ WriteOut(c) \/ SpillOut(c) \/ RollbackCache(c) \/ RollbackDatabase(c)
             \/ PlayRecord(c) \/ \E p \in Pages : ReadPage(c, p) \/ Spill(c, p)
      PROVE  LinkInv'
  BY <1>1, SameKeepsLinks
<1>2. ASSUME NEW c \in Conns,
             Validate(c) \/ Begin(c) \/ SyncHeader(c) \/ SyncDatabase(c)
             \/ EndUnwritten(c) \/ SyncZeroedHeader(c) \/ FinalizeJournal(c)
      PROVE  LinkInv'
  BY <1>2, StateKeepsLinks, EndKeepsLinks, FinalizeKeepsLinks
<1>3. ASSUME NEW c \in Conns,
             GiveUpRollback(c) \/ Unlock(c) \/ Crash(c) \/ Fail(c) \/ OpenHotJournal(c)
      PROVE  LinkInv'
  BY <1>3, LeaveKeepsLinks, FailKeepsLinks, OpenHotKeepsLinks
<1>4. ASSUME NEW c \in Conns, BeginCommit(c) \/ \E p \in Pages : Write(c, p)
      PROVE  LinkInv'
  <2>1. UNCHANGED locks /\ (pager[c].eState = "WRITER_LOCKED" \/ Writing(c))
    BY <1>4 DEF BeginCommit, Write
  <2>2. \E p, value, job, at : PutPage(c, p, value, job, at)
    BY <1>4 DEF BeginCommit, Write
  <2> QED
    BY <2>1, <2>2, PutPageKeepsLinks
<1>5. CASE PowerLoss
  BY <1>5, PowerLossKeepsLinks
<1>6. CASE UNCHANGED vars
  BY <1>6 DEF vars, locks, disk, LinkInv, Links, Owner
<1> QED
  BY <1>1, <1>2, <1>3, <1>4, <1>5, <1>6, Zenon DEF Next

LEMMA LinkStarts == Alike /\ Init => LinkInv
<1> SUFFICES ASSUME Alike, Init PROVE LinkInv
  OBVIOUS
<1>1. PICK s \in Starts : pager = [c \in Conns |-> Fresh(s.mode[c])]
  BY DEF Init
<1>2. \A c \in Conns : s.mode[c] \in {"delete", "persist"}
  BY PagerAssumption
<1>3. \A c \in Conns : /\ pager[c].mode = s.mode[c] /\ pager[c].jfd = Nothing
                       /\ pager[c].eState = "OPEN"
  BY <1>1, <1>2, Reopened
<1> QED
  BY <1>3 DEF LinkInv, Links, Alike, AllDelete

LEMMA LinkInvariant == ASSUME Alike PROVE Spec => []LinkInv
<1> QED
  BY LinkStarts, LinkStep, PagersShareLocks, PagerInvariant, PTL DEF Spec

(* Nobody deletes the journal "out from under us" (pager_unlock), provided *)
(* that all connections use one journal mode: with both modes in use it    *)
(* happens, as the run pager_mixed shows.                                  *)
THEOREM JournalsStayLinked == ASSUME Alike PROVE Spec => []JournalStaysLinked
<1>1. LinkInv => JournalStaysLinked
  BY DEF LinkInv, Links, JournalStaysLinked, Writing
<1> QED
  BY <1>1, LinkInvariant, PTL

------------------------------------------------------------------------------
(* What is left of a file, and what a playback reads                       *)

(* Induction on a set of numbers: the library's takes a predicate.         *)
LEMMA Counts ==
    ASSUME NEW S, 0 \in S, \A n \in Nat : n \in S => n + 1 \in S
    PROVE  Nat \subseteq S
<1> DEFINE Below == {ss \in Nat \X Nat : ss[1] < ss[2]}
           Rest  == Nat \ S
<1>1. IsWellFoundedOn(Below, Nat)
  BY NatLessThanWellFounded DEF OpToRel
<1>2. SUFFICES ASSUME Rest # {} PROVE FALSE
  OBVIOUS
<1>3. PICK m \in Rest : \A k \in Rest : ~(<<k, m>> \in Below)
  BY <1>1, <1>2, WFMin
<1>4. m # 0 /\ m \in Nat /\ m \notin S
  BY <1>3
<1>5. m - 1 \in Nat /\ <<m - 1, m>> \in Nat \X Nat /\ m - 1 < m
  BY <1>4
<1>6. m - 1 \in S
  BY <1>3, <1>5
<1> QED
  BY <1>4, <1>5, <1>6

(* The first n cells of what a power loss can leave of a file. *)
Left(cells, n) ==
    {s \in [1 .. n -> UNION {cells[i].disk : i \in DOMAIN cells}] :
        \A i \in 1 .. n : s[i] \in cells[i].disk}
Longer(s, v) == Append(s, v)
Added(S, D) == {Longer(s, v) : s \in S, v \in D}
LeftBy(cells, F, n) ==
    IF n = 0 THEN {<<>>} ELSE Added(F[n - 1], cells[n].disk)

LEMMA AddedIs ==
    ASSUME NEW S, NEW D, NEW w
    PROVE  w \in Added(S, D) <=> \E s \in S, v \in D : w = Longer(s, v)
  BY DEF Added

LEMMA LeftNone == ASSUME NEW cells PROVE Left(cells, 0) = {<<>>}
<1> DEFINE All == UNION {cells[i].disk : i \in DOMAIN cells}
           W   == Left(cells, 0)
<1>1. W = {s \in [1 .. 0 -> All] : \A i \in 1 .. 0 : s[i] \in cells[i].disk}
  BY DEF Left
<1> HIDE DEF All, W
<1>2. \A s \in [1 .. 0 -> All] : s = <<>>
  OBVIOUS
<1>3. <<>> \in [1 .. 0 -> All]
  OBVIOUS
<1>4. \A i \in 1 .. 0 : FALSE
  OBVIOUS
<1>5. \A s : s \in W <=> s = <<>>
  BY <1>1, <1>2, <1>3, <1>4
<1>6. W = {<<>>}
  BY <1>5
<1> QED
  BY <1>6 DEF W

LEMMA SequenceOf ==
    ASSUME NEW A, NEW k \in Nat, NEW s \in [1 .. k -> A]
    PROVE  s \in Seq(A) /\ Len(s) = k
  OBVIOUS

LEMMA LeftMore ==
    ASSUME NEW N \in Nat, NEW cells, cells = [i \in 1 .. N |-> cells[i]], NEW n \in 1 .. N
    PROVE  Left(cells, n) = Added(Left(cells, n - 1), cells[n].disk)
<1> DEFINE All == UNION {cells[i].disk : i \in DOMAIN cells}
<1>1. n - 1 \in Nat /\ n \in Nat
  OBVIOUS
<1>2. \A i \in 1 .. n : cells[i].disk \subseteq All
  OBVIOUS
<1> HIDE DEF All
<1>3. ASSUME NEW s \in Left(cells, n - 1), NEW v \in cells[n].disk
      PROVE  Longer(s, v) \in Left(cells, n)
  <2>1. s \in [1 .. n - 1 -> All] /\ \A i \in 1 .. n - 1 : s[i] \in cells[i].disk
    BY <1>3 DEF Left, All
  <2>2. s \in Seq(All) /\ Len(s) = n - 1
    BY <1>1, <2>1, SequenceOf
  <2>3. v \in All
    BY <1>1, <1>2, <1>3
  <2>4. /\ Append(s, v) \in Seq(All) /\ Len(Append(s, v)) = n
        /\ \A i \in 1 .. n - 1 : Append(s, v)[i] = s[i]
        /\ Append(s, v)[n] = v
    BY <1>1, <2>2, <2>3, AppendProperties
  <2> DEFINE w == Append(s, v)
  <2> HIDE DEF w
  <2>5. w \in [1 .. n -> All]
    BY <2>4, LenProperties DEF w
  <2>6. \A i \in 1 .. n : w[i] \in cells[i].disk
    <3>1. \A i \in 1 .. n : i = n \/ i \in 1 .. n - 1
      BY <1>1
    <3> QED
      BY <1>3, <2>1, <2>4, <3>1 DEF w
  <2> QED
    BY <2>5, <2>6 DEF Left, All, w, Longer
<1>4. ASSUME NEW s \in Left(cells, n)
      PROVE  \E q \in Left(cells, n - 1), v \in cells[n].disk : s = Longer(q, v)
  <2> DEFINE q == [i \in 1 .. n - 1 |-> s[i]]
  <2>1. s \in [1 .. n -> All] /\ \A i \in 1 .. n : s[i] \in cells[i].disk
    BY <1>4 DEF Left, All
  <2>2. \A i \in 1 .. n - 1 : i \in 1 .. n
    BY <1>1
  <2>3. /\ q \in [1 .. n - 1 -> All]
        /\ \A i \in 1 .. n - 1 : q[i] = s[i] /\ q[i] \in cells[i].disk
    BY <2>1, <2>2
  <2> HIDE DEF q
  <2>4. q \in Left(cells, n - 1)
    BY <2>3 DEF Left, All
  <2>5. q \in Seq(All) /\ Len(q) = n - 1
    BY <1>1, <2>3, SequenceOf
  <2>6. n \in 1 .. n /\ s[n] \in All /\ s[n] \in cells[n].disk
    <3>1. n \in 1 .. n
      BY <1>1
    <3> QED
      BY <2>1, <3>1
  <2>7. /\ Append(q, s[n]) \in Seq(All) /\ Len(Append(q, s[n])) = n
        /\ \A i \in 1 .. n - 1 : Append(q, s[n])[i] = q[i]
        /\ Append(q, s[n])[n] = s[n]
    BY <1>1, <2>5, <2>6, AppendProperties
  <2> DEFINE w == Append(q, s[n])
  <2>8. \A i \in 1 .. n : i = n \/ i \in 1 .. n - 1
    BY <1>1
  <2>9. \A i \in 1 .. n : w[i] = s[i]
    BY <2>3, <2>7, <2>8
  <2> HIDE DEF w
  <2>10. w \in [1 .. n -> All]
    BY <2>7, LenProperties DEF w
  <2>11. s = w
    BY <2>1, <2>9, <2>10
  <2> QED
    BY <2>4, <2>6, <2>11 DEF w, Longer
<1> DEFINE A == Left(cells, n - 1)
           D == cells[n].disk
           W == Left(cells, n)
<1>5. /\ \A s \in A, v \in D : Longer(s, v) \in W
      /\ \A s \in W : \E q \in A, v \in D : s = Longer(q, v)
  BY <1>3, <1>4
<1> HIDE DEF A, D, W
<1>6. \A w : w \in W <=> w \in Added(A, D)
  BY <1>5, AddedIs
<1>7. W = Added(A, D)
  BY <1>6
<1> QED
  BY <1>7 DEF A, D, W

(* What a power loss can leave of a file is a value of each of its cells.  *)
LEMMA OutcomesAre ==
    ASSUME NEW N \in Nat, NEW cells, cells = [i \in 1 .. N |-> cells[i]]
    PROVE  \A o : o \in Outcomes(cells) <=>
                     /\ o = [i \in 1 .. N |-> o[i]]
                     /\ \A i \in 1 .. N : o[i] \in cells[i].disk
<1> DEFINE L == [n \in 0 .. N |-> Left(cells, n)]
           Fits1(f) == f = [n \in 0 .. N |-> LeftBy(cells, f, n)]
           F == CHOOSE f : Fits1(f)
<1>1. Len(cells) = N
  <2>1. cells \in [1 .. N -> {cells[i] : i \in 1 .. N}]
    OBVIOUS
  <2>2. cells \in Seq({cells[i] : i \in 1 .. N})
    BY <2>1
  <2> QED
    BY <2>1, <2>2
<1>2. ASSUME NEW n \in 0 .. N PROVE Left(cells, n) = LeftBy(cells, L, n)
  <2>1. CASE n = 0
    BY <2>1, LeftNone DEF LeftBy
  <2>2. CASE n # 0
    <3>1. n \in 1 .. N /\ n - 1 \in 0 .. N
      BY <2>2
    <3>2. L[n - 1] = Left(cells, n - 1)
      BY <3>1
    <3>3. Left(cells, n) = Added(Left(cells, n - 1), cells[n].disk)
      BY <3>1, LeftMore
    <3> HIDE DEF L
    <3> QED
      BY <2>2, <3>2, <3>3 DEF LeftBy
  <2> QED
    BY <2>1, <2>2
<1>3. Fits1(L)
  BY <1>2
<1>4. Fits1(F)
  <2> HIDE DEF L, Fits1
  <2> QED
    BY <1>3
<1>5. Outcomes(cells) = F[N]
  BY <1>1 DEF Outcomes, LeftBy, Added, Longer
<1> HIDE DEF F
<1>6. \A n \in 0 .. N : F[n] = LeftBy(cells, F, n)
  BY <1>4
<1> DEFINE S == {n \in Nat : n <= N => F[n] = Left(cells, n)}
<1>7. 0 \in S
  <2>1. 0 \in 0 .. N
    OBVIOUS
  <2>2. F[0] = LeftBy(cells, F, 0)
    BY <1>6, <2>1
  <2>3. F[0] = {<<>>}
    BY <2>2 DEF LeftBy
  <2> QED
    BY <2>3, LeftNone
<1>8. ASSUME NEW n \in Nat, n \in S PROVE n + 1 \in S
  <2>1. SUFFICES ASSUME n + 1 <= N PROVE F[n + 1] = Left(cells, n + 1)
    BY <1>8
  <2>2. F[n] = Left(cells, n) /\ n + 1 \in 1 .. N /\ n + 1 \in 0 .. N /\ n + 1 # 0 /\ (n + 1) - 1 = n
    BY <1>8, <2>1
  <2>3. F[n + 1] = Added(F[n], cells[n + 1].disk)
    <3>1. F[n + 1] = LeftBy(cells, F, n + 1)
      BY <1>6, <2>2
    <3> QED
      BY <2>2, <3>1 DEF LeftBy
  <2>4. Left(cells, n + 1) = Added(Left(cells, n), cells[n + 1].disk)
    BY <2>2, LeftMore
  <2> QED
    BY <2>2, <2>3, <2>4
<1>9. N \in S
  <2> HIDE DEF S
  <2> QED BY <1>7, <1>8, Counts
<1>10. Outcomes(cells) = Left(cells, N)
  BY <1>5, <1>9
<1>11. \A o : o \in Left(cells, N) <=>
              o = [i \in 1 .. N |-> o[i]] /\ \A i \in 1 .. N : o[i] \in cells[i].disk
  BY DEF Left
<1> QED
  BY <1>10, <1>11

(* One step of a playback: what is read from cell i on.                    *)
ReadOne(j, f, i) ==
    [h \in 0 .. JournalLen |->
        IF i > JournalLen THEN {}
        ELSE IF h # 0 /\ i <= h + j[h].nRec
          THEN IF IsRecord(j[i], j[h].nonce) THEN {i} \cup f[i + 1][h] ELSE {}
        ELSE IF IsHeader(j[i]) THEN f[i + 1][i] ELSE {}]
ReadAll(j, f, first) == f = [i \in first .. JournalLen + 1 |-> ReadOne(j, f, i)]

LEMMA ReadOneIs ==
    ASSUME NEW j, NEW f, NEW i, f[i] = ReadOne(j, f, i), NEW h \in 0 .. JournalLen
    PROVE  /\ i > JournalLen => f[i][h] = {}
           /\ ~(i > JournalLen) /\ h # 0 /\ i <= h + j[h].nRec =>
                 f[i][h] = IF IsRecord(j[i], j[h].nonce) THEN {i} \cup f[i + 1][h] ELSE {}
           /\ ~(i > JournalLen) /\ ~(h # 0 /\ i <= h + j[h].nRec) =>
                 f[i][h] = IF IsHeader(j[i]) THEN f[i + 1][i] ELSE {}
<1> DEFINE V(g) == IF i > JournalLen THEN {}
              ELSE IF g # 0 /\ i <= g + j[g].nRec
                THEN IF IsRecord(j[i], j[g].nonce) THEN {i} \cup f[i + 1][g] ELSE {}
              ELSE IF IsHeader(j[i]) THEN f[i + 1][i] ELSE {}
<1>1. f[i] = [g \in 0 .. JournalLen |-> V(g)]
  BY DEF ReadOne
<1>2. f[i][h] = V(h)
  <2> HIDE DEF V
  <2> QED BY <1>1
<1> QED
  BY <1>2

LEMMA ReadOneSame ==
    ASSUME NEW j, NEW f, NEW g, NEW i, i > JournalLen \/ f[i + 1] = g[i + 1]
    PROVE  ReadOne(j, f, i) = ReadOne(j, g, i)
<1> DEFINE V(k, h) == IF i > JournalLen THEN {}
              ELSE IF h # 0 /\ i <= h + j[h].nRec
                THEN IF IsRecord(j[i], j[h].nonce) THEN {i} \cup k[i + 1][h] ELSE {}
              ELSE IF IsHeader(j[i]) THEN k[i + 1][i] ELSE {}
<1>1. ReadOne(j, f, i) = [h \in 0 .. JournalLen |-> V(f, h)] /\ ReadOne(j, g, i) = [h \in 0 .. JournalLen |-> V(g, h)]
  BY DEF ReadOne
<1>2. \A h \in 0 .. JournalLen : V(f, h) = V(g, h)
  OBVIOUS
<1> HIDE DEF V
<1> QED
  BY <1>1, <1>2

LEMMA ReadBack ==
    ASSUME NEW j, NEW n \in 1 .. JournalLen + 1,
           n <= JournalLen => \E f : ReadAll(j, f, n + 1)
    PROVE  \E g : ReadAll(j, g, n)
<1> USE PagerAssumption
<1>1. PICK f : n <= JournalLen => ReadAll(j, f, n + 1)
  OBVIOUS
<1> DEFINE g == [i \in n .. JournalLen + 1 |-> IF i > n THEN f[i] ELSE ReadOne(j, f, n)]
<1>2. ASSUME NEW i \in n .. JournalLen + 1 PROVE g[i] = ReadOne(j, g, i)
  <2>1. i > JournalLen \/ g[i + 1] = f[i + 1]
    BY <1>2
  <2>2. ReadOne(j, g, i) = ReadOne(j, f, i)
    <3> HIDE DEF g
    <3> QED
      BY <2>1, ReadOneSame
  <2>3. CASE i = n
    BY <2>2, <2>3
  <2>4. CASE i # n
    <3>1. i \in n + 1 .. JournalLen + 1 /\ n <= JournalLen /\ i > n
      BY <2>4
    <3>2. f[i] = ReadOne(j, f, i)
      BY <1>1, <3>1 DEF ReadAll
    <3> QED
      BY <2>2, <3>1, <3>2
  <2> QED
    BY <2>3, <2>4
<1>3. g = [i \in n .. JournalLen + 1 |-> g[i]]
  OBVIOUS
<1> HIDE DEF g
<1>4. g = [i \in n .. JournalLen + 1 |-> ReadOne(j, g, i)]
  BY <1>2, <1>3
<1> QED
  BY <1>4 DEF ReadAll

LEMMA ReadsExist == ASSUME NEW j PROVE \E f : ReadAll(j, f, 1)
<1> USE PagerAssumption
<1> DEFINE S == {k \in Nat : k <= JournalLen => \E f : ReadAll(j, f, JournalLen + 1 - k)}
<1>1. 0 \in S
  <2>1. JournalLen + 1 \in 1 .. JournalLen + 1 /\ ~(JournalLen + 1 <= JournalLen) /\ (JournalLen + 1) - 0 = JournalLen + 1
    OBVIOUS
  <2>2. \E f : ReadAll(j, f, JournalLen + 1)
    BY <2>1, ReadBack
  <2> QED
    BY <2>1, <2>2
<1>2. ASSUME NEW k \in Nat, k \in S PROVE k + 1 \in S
  <2>1. SUFFICES ASSUME k + 1 <= JournalLen
                 PROVE  \E f : ReadAll(j, f, JournalLen + 1 - (k + 1))
    OBVIOUS
  <2> DEFINE n == JournalLen - k
  <2>2. n \in 1 .. JournalLen + 1 /\ JournalLen + 1 - (k + 1) = n /\ JournalLen + 1 - k = n + 1
    BY <2>1
  <2>3. \E f : ReadAll(j, f, n + 1)
    BY <1>2, <2>1, <2>2
  <2> HIDE DEF n
  <2> QED
    BY <2>2, <2>3, ReadBack
<1>3. JournalLen \in S
  <2> HIDE DEF S
  <2> QED BY <1>1, <1>2, Counts
<1>4. JournalLen + 1 - JournalLen = 1
  OBVIOUS
<1> QED
  BY <1>3, <1>4

(* Playback is computed by some such f.                                    *)
LEMMA PlaybackUnfolds ==
    ASSUME NEW j, IsFile(j)
    PROVE  \E f : Playback(j) = f[1][0] /\ \A i \in 1 .. JournalLen + 1 : f[i] = ReadOne(j, f, i)
<1> USE PagerAssumption
<1>1. Len(j) = JournalLen
  <2>1. j \in [1 .. JournalLen -> {j[i] : i \in 1 .. JournalLen}]
    BY DEF IsFile
  <2>2. j \in Seq({j[i] : i \in 1 .. JournalLen})
    BY <2>1
  <2> QED
    BY <2>1, <2>2
<1> DEFINE f == CHOOSE f : ReadAll(j, f, 1)
<1>2. ReadAll(j, f, 1)
  BY ReadsExist, Zenon
<1>3. Playback(j) = f[1][0]
  BY <1>1 DEF Playback, ReadAll, ReadOne
<1> HIDE DEF f
<1>4. \A i \in 1 .. JournalLen + 1 : f[i] = ReadOne(j, f, i)
  BY <1>2 DEF ReadAll
<1> QED
  BY <1>3, <1>4

(* Journal j consists, up to n, of complete segments of transaction txn.   *)
Complete(j, n, txn) ==
    /\ \A i \in 1 .. n - 1 : \/ IsRecord(j[i], txn)
                             \/ IsHeader(j[i]) /\ j[i].nonce = txn /\ j[i].nRec \in Nat
    /\ IsHeader(j[1])
    /\ \A h \in 1 .. n - 1 : IsHeader(j[h]) =>
          /\ h + j[h].nRec < n
          /\ \A i \in h + 1 .. h + j[h].nRec : IsRecord(j[i], txn)
          /\ h + j[h].nRec + 1 < n => IsHeader(j[h + j[h].nRec + 1])
    /\ n <= JournalLen => ~IsHeader(j[n])

(* A playback reads the records of the complete segments, and no others.   *)
LEMMA PlaybackReads ==
    ASSUME NEW j, IsFile(j), NEW n \in 2 .. JournalLen + 1, NEW txn, Complete(j, n, txn)
    PROVE  Playback(j) = {i \in 1 .. n - 1 : IsRecord(j[i], txn)}
<1> USE PagerAssumption
<1>1. PICK f : Playback(j) = f[1][0] /\ \A i \in 1 .. JournalLen + 1 : f[i] = ReadOne(j, f, i)
  BY PlaybackUnfolds
<1>2. \A i : IsHeader(j[i]) => ~IsRecord(j[i], txn)
  BY DEF IsHeader, IsRecord
<1> DEFINE Reads(i) == {k \in i .. n - 1 : IsRecord(j[k], txn)}
           In(i, h) == \/ i = 1 /\ h = 0
                       \/ h \in 1 .. i - 1 /\ IsHeader(j[h]) /\ i <= h + j[h].nRec + 1
           S == {d \in Nat : d < n => \A h : In(n - d, h) => f[n - d][h] = Reads(n - d)}
<1>3. 0 \in S
  <2>1. SUFFICES ASSUME NEW h, In(n, h) PROVE f[n][h] = {}
    <3>1. n - 0 = n /\ Reads(n) = {}
      OBVIOUS
    <3> QED
      BY <2>1, <3>1
  <2>2. h \in 1 .. n - 1 /\ IsHeader(j[h]) /\ h \in 0 .. JournalLen
    BY <2>1
  <2>3. h + j[h].nRec < n /\ j[h].nRec \in Nat
    BY <1>2, <2>2 DEF Complete
  <2>4. n <= JournalLen => ~IsHeader(j[n])
    BY DEF Complete
  <2>5. f[n] = ReadOne(j, f, n)
    BY <1>1
  <2>6. /\ n > JournalLen => f[n][h] = {}
        /\ ~(n > JournalLen) /\ h # 0 /\ n <= h + j[h].nRec =>
              f[n][h] = IF IsRecord(j[n], j[h].nonce) THEN {n} \cup f[n + 1][h] ELSE {}
        /\ ~(n > JournalLen) /\ ~(h # 0 /\ n <= h + j[h].nRec) =>
              f[n][h] = IF IsHeader(j[n]) THEN f[n + 1][n] ELSE {}
    BY <2>2, <2>5, ReadOneIs
  <2>7. ~(n <= h + j[h].nRec)
    BY <2>2, <2>3
  <2>8. n > JournalLen \/ f[n][h] = {}
    BY <2>4, <2>6, <2>7
  <2> QED
    BY <2>6, <2>8
<1>4. ASSUME NEW d \in Nat, d \in S PROVE d + 1 \in S
  <2> DEFINE i == n - (d + 1)
  <2>1. SUFFICES ASSUME d + 1 < n, NEW h, In(i, h) PROVE f[i][h] = Reads(i)
    BY <1>4
  <2>2. i \in 1 .. n - 1 /\ i + 1 = n - d /\ i \in 1 .. JournalLen /\ d < n
    BY <2>1
  <2>3. \A g : In(i + 1, g) => f[i + 1][g] = Reads(i + 1)
    BY <1>4, <2>2
  <2>4. f[i] = ReadOne(j, f, i)
    BY <1>1, <2>2
  <2>5. h \in 0 .. JournalLen
    BY <2>1, <2>2
  <2> DEFINE r == Reads(i)
             q == Reads(i + 1)
  <2>6. IF IsRecord(j[i], txn) THEN r = {i} \cup q ELSE r = q
    BY <2>2
  <2>7. \/ IsRecord(j[i], txn)
        \/ IsHeader(j[i]) /\ j[i].nonce = txn /\ j[i].nRec \in Nat
    BY <2>2 DEF Complete
  <2>8. h # 0 => /\ h \in 1 .. n - 1 /\ IsHeader(j[h]) /\ i <= h + j[h].nRec + 1 /\ h < i
                 /\ j[h].nonce = txn /\ j[h].nRec \in Nat
                 /\ h + j[h].nRec < n
                 /\ \A k \in h + 1 .. h + j[h].nRec : IsRecord(j[k], txn)
                 /\ h + j[h].nRec + 1 < n => IsHeader(j[h + j[h].nRec + 1])
    BY <1>2, <2>1, <2>2 DEF Complete
  <2> HIDE DEF r, q
  <2>11.
        /\ i > JournalLen => f[i][h] = {}
        /\ ~(i > JournalLen) /\ h # 0 /\ i <= h + j[h].nRec =>
              f[i][h] = IF IsRecord(j[i], j[h].nonce) THEN {i} \cup f[i + 1][h] ELSE {}
        /\ ~(i > JournalLen) /\ ~(h # 0 /\ i <= h + j[h].nRec) =>
              f[i][h] = IF IsHeader(j[i]) THEN f[i + 1][i] ELSE {}
    <3> HIDE DEF i
    <3> QED
      BY <2>4, <2>5, ReadOneIs
  <2>12. ~(i > JournalLen)
    BY <2>2
  <2>9. CASE h # 0 /\ i <= h + j[h].nRec
    <3>1. IsRecord(j[i], txn)
      BY <2>2, <2>8, <2>9
    <3>2. In(i + 1, h)
      BY <2>2, <2>8, <2>9
    <3>3. f[i + 1][h] = q
      BY <2>3, <3>2 DEF q
    <3>4. f[i][h] = {i} \cup f[i + 1][h]
      <4>1. j[h].nonce = txn
        BY <2>8, <2>9
      <4> HIDE DEF i
      <4> QED
        BY <2>11, <2>12, <2>9, <3>1, <4>1
    <3> QED
      BY <2>6, <3>1, <3>3, <3>4 DEF r
  <2>10. CASE h = 0 \/ i > h + j[h].nRec
    <3>1. IsHeader(j[i])
      <4>1. CASE h = 0
        BY <2>1, <4>1 DEF Complete
      <4>2. CASE h # 0
        <5>1. i = h + j[h].nRec + 1
          BY <2>2, <2>8, <2>10, <4>2
        <5> QED
          BY <2>2, <2>8, <4>2, <5>1
      <4> QED
        BY <4>1, <4>2
    <3>2. ~IsRecord(j[i], txn) /\ j[i].nRec \in Nat
      BY <1>2, <2>7, <3>1
    <3>3. In(i + 1, i)
      BY <2>2, <3>1, <3>2
    <3>4. f[i + 1][i] = q
      BY <2>3, <3>3 DEF q
    <3>5. ~(h # 0 /\ i <= h + j[h].nRec)
      BY <2>2, <2>8, <2>10
    <3>6. f[i][h] = f[i + 1][i]
      <4> HIDE DEF i
      <4> QED
        BY <2>11, <2>12, <3>1, <3>5
    <3> QED
      BY <2>6, <3>2, <3>4, <3>6 DEF r
  <2> QED
    BY <2>8, <2>9, <2>10, <2>2
<1>5. n - 1 \in S
  <2> HIDE DEF S
  <2>1. n - 1 \in Nat
    OBVIOUS
  <2> QED BY <1>3, <1>4, <2>1, Counts
<1>6. n - (n - 1) = 1 /\ n - 1 < n /\ In(1, 0)
  OBVIOUS
<1>7. f[1][0] = Reads(1)
  BY <1>5, <1>6
<1> QED
  BY <1>1, <1>7

(* Without a header a playback reads nothing.                              *)
LEMMA PlaybackOfNone ==
    ASSUME NEW j, IsFile(j), ~IsHeader(j[1])
    PROVE  Playback(j) = {}
<1> USE PagerAssumption
<1>1. PICK f : Playback(j) = f[1][0] /\ \A i \in 1 .. JournalLen + 1 : f[i] = ReadOne(j, f, i)
  BY PlaybackUnfolds
<1>2. 1 \in 1 .. JournalLen + 1 /\ 0 \in 0 .. JournalLen /\ ~(1 > JournalLen)
  OBVIOUS
<1>3. f[1] = ReadOne(j, f, 1)
  BY <1>1, <1>2
<1>4. f[1][0] = {}
  <2> DEFINE i == 1
             h == 0
  <2>1. f[i] = ReadOne(j, f, i) /\ h \in 0 .. JournalLen
    BY <1>2, <1>3
  <2>3. ~(i > JournalLen) /\ h = 0 /\ i = 1
    BY <1>2
  <2> HIDE DEF i, h
  <2>2. ~(i > JournalLen) /\ ~(h # 0 /\ i <= h + j[h].nRec) =>
           f[i][h] = IF IsHeader(j[i]) THEN f[i + 1][i] ELSE {}
    BY <2>1, ReadOneIs
  <2> QED
    BY <2>2, <2>3
<1> QED
  BY <1>1, <1>4

(* What it reads are records of the journal.                               *)
LEMMA PlaybackInside ==
    ASSUME NEW j, IsFile(j)
    PROVE  \A i \in Playback(j) : i \in 1 .. JournalLen
<1> USE PagerAssumption
<1>1. PICK f : Playback(j) = f[1][0] /\ \A i \in 1 .. JournalLen + 1 : f[i] = ReadOne(j, f, i)
  BY PlaybackUnfolds
<1> DEFINE N == JournalLen
           S == {d \in Nat : d <= N => \A h \in 0 .. N : \A k \in f[N + 1 - d][h] : k \in 1 .. N}
<1>2. 0 \in S
  <2>1. SUFFICES ASSUME NEW h \in 0 .. N PROVE f[N + 1][h] = {}
    OBVIOUS
  <2>2. f[N + 1] = ReadOne(j, f, N + 1) /\ N + 1 > JournalLen
    BY <1>1
  <2> QED
    BY <2>2, ReadOneIs
<1>3. ASSUME NEW d \in Nat, d \in S PROVE d + 1 \in S
  <2> DEFINE i == N + 1 - (d + 1)
  <2>1. SUFFICES ASSUME d + 1 <= N, NEW h \in 0 .. N PROVE \A k \in f[i][h] : k \in 1 .. N
    BY <1>3
  <2>2. i \in 1 .. N /\ i + 1 = N + 1 - d /\ d <= N
    BY <2>1
  <2>3. \A g \in 0 .. N : \A k \in f[i + 1][g] : k \in 1 .. N
    BY <1>3, <2>2
  <2> HIDE DEF i
  <2>4. f[i] = ReadOne(j, f, i)
    BY <1>1, <2>2
  <2>5. f[i][h] = {i} \cup f[i + 1][h] \/ f[i][h] = {} \/ f[i][h] = f[i + 1][i]
    <3>1. h \in 0 .. JournalLen
      BY <2>1
    <3> HIDE DEF N
    <3>2. /\ i > JournalLen => f[i][h] = {}
          /\ ~(i > JournalLen) /\ h # 0 /\ i <= h + j[h].nRec =>
                f[i][h] = IF IsRecord(j[i], j[h].nonce) THEN {i} \cup f[i + 1][h] ELSE {}
          /\ ~(i > JournalLen) /\ ~(h # 0 /\ i <= h + j[h].nRec) =>
                f[i][h] = IF IsHeader(j[i]) THEN f[i + 1][i] ELSE {}
      BY <2>4, <3>1, ReadOneIs
    <3> QED
      BY <3>2
  <2> QED
    BY <2>1, <2>2, <2>3, <2>5
<1>4. N \in S
  <2> HIDE DEF S
  <2> QED BY <1>2, <1>3, Counts
<1>5. N + 1 - N = 1
  OBVIOUS
<1> QED
  BY <1>1, <1>4, <1>5

Clean(file, B) == \A p \in Pages : file[p].disk = {B[p]}

(* Rolling o back makes B of whatever is left of the file.                 *)
Valid(o, file, B) ==
    IF IsHeader(o[1])
      THEN /\ o[1].dbSize \in Pages
           /\ \A i \in Playback(o) : o[i].pgno \in Pages /\ o[i].data = B[o[i].pgno]
           /\ \A p \in Pages : p > o[1].dbSize => B[p] = Nothing
           /\ \A p \in Pages : \/ p > o[1].dbSize
                               \/ \E i \in Playback(o) : o[i].pgno = p
                               \/ file[p].disk = {B[p]}
      ELSE Clean(file, B)

Over(r, image) == [p \in Pages |-> IF p \in DOMAIN r THEN r[p] ELSE image[p]]

LEMMA ValidRestores ==
    ASSUME NEW o, NEW file, NEW B, B = [p \in Pages |-> B[p]], Valid(o, file, B),
           NEW image, image = [p \in Pages |-> image[p]],
           \A p \in Pages : image[p] \in file[p].disk
    PROVE  Over(Restores(o), image) = B
<1>1. CASE ~IsHeader(o[1])
  <2>1. \A p \in Pages : image[p] = B[p]
    BY <1>1 DEF Valid, Clean
  <2>2. image = B
    BY <2>1
  <2>3. Restores(o) = <<>>
    BY <1>1 DEF Restores
  <2>4. DOMAIN <<>> = {}
    OBVIOUS
  <2>5. Over(<<>>, image) = [p \in Pages |-> image[p]]
    BY <2>4 DEF Over
  <2> QED
    BY <2>2, <2>3, <2>5
<1>2. CASE IsHeader(o[1])
  <2> DEFINE records == {o[i] : i \in Playback(o)}
             beyond  == {p \in Pages : p > o[1].dbSize}
             first(p) == CHOOSE r \in records : r.pgno = p
             R == [p \in beyond \cup {r.pgno : r \in records} |->
                      IF p \in beyond THEN Nothing ELSE first(p).data]
  <2>1. Restores(o) = R
    BY <1>2 DEF Restores
  <2>2. \A r \in records : r.pgno \in Pages /\ r.data = B[r.pgno]
    BY <1>2 DEF Valid
  <2>3. DOMAIN R \subseteq Pages /\ DOMAIN image = Pages /\ DOMAIN R = beyond \cup {r.pgno : r \in records}
    BY <2>2
  <2>4. ASSUME NEW p \in DOMAIN R PROVE R[p] = B[p]
    <3>1. CASE p \in beyond
      BY <1>2, <2>3, <3>1 DEF Valid
    <3>2. CASE p \notin beyond
      <4>1. \E r \in records : r.pgno = p
        BY <2>3, <2>4, <3>2
      <4>2. first(p) \in records /\ first(p).pgno = p
        BY <4>1, Zenon
      <4>3. R[p] = first(p).data
        BY <2>3, <2>4, <3>2
      <4> QED
        BY <2>2, <4>2, <4>3
    <3> QED
      BY <3>1, <3>2
  <2>5. ASSUME NEW p \in Pages, p \notin DOMAIN R PROVE image[p] = B[p]
    <3>1. ~(p > o[1].dbSize) /\ ~\E i \in Playback(o) : o[i].pgno = p
      BY <2>3, <2>5
    <3> QED
      BY <1>2, <2>5, <3>1 DEF Valid
  <2> HIDE DEF R
  <2>6. Over(R, image) = [p \in Pages |-> IF p \in DOMAIN R THEN R[p] ELSE image[p]]
    BY DEF Over
  <2>7. \A p \in Pages : (IF p \in DOMAIN R THEN R[p] ELSE image[p]) = B[p]
    BY <2>4, <2>5
  <2> QED
    BY <2>1, <2>6, <2>7
<1> QED
  BY <1>1, <1>2

LEMMA RecoveriesAre ==
    ASSUME NEW images, NEW journals, NEW B, \E i \in images : TRUE, \E o \in journals : TRUE,
           \A i \in images : \A o \in journals : Over(Restores(o), i) = B
    PROVE  Recoveries(images, journals) = {B}
<1> DEFINE restored == {Restores(j) : j \in journals}
           S == {Over(r, image) : r \in restored, image \in images}
<1>1. \A w : w \in S <=> \E r \in restored, image \in images : w = Over(r, image)
  OBVIOUS
<1>2. Recoveries(images, journals) = S
  BY DEF Recoveries, Over
<1>3. \A w : w \in S <=> \E o \in journals, image \in images : w = Over(Restores(o), image)
  OBVIOUS
<1> HIDE DEF S
<1>4. \A w : w \in S <=> w = B
  BY <1>3
<1> QED
  BY <1>2, <1>4
================================================================================
