--------------------------------- MODULE Pager ---------------------------------
(***************************************************************************)
(* The rollback journal of pager.c: how several connections to one         *)
(* database read and write it through their page caches so that a          *)
(* transaction is there as a whole or not at all, whatever calls fail,     *)
(* whichever process ends and whenever the power goes.                     *)
(*                                                                         *)
(* Connections live in processes of their own and lock the file through    *)
(* FileLocks.  Journals are in mode DELETE or PERSIST, synchronous=FULL.   *)
(* Not here: an empty database, savepoints, auto-vacuum, exclusive locking *)
(* mode, WAL, multi-file commits.                                          *)
(*                                                                         *)
(* A file is a sequence of cells, each with what the processes see in it   *)
(* and what a power loss may leave in it.  A page of the database is a     *)
(* cell; so is a header, and a record, of the journal.                     *)
(***************************************************************************)
EXTENDS LockLevels, Sequences, FiniteSets, TLC

CONSTANTS
    Conns,       \* connections
    Writers,     \* those that write
    Starts,      \* [mode, size]: their journal modes ("delete", "persist"), pages at first
    MaxPages,    \* bound: pages of the database
    JournalLen,  \* bound: headers and records of a journal
    Journals,    \* bound: journal files that a power loss can bring back
    MaxTxns,     \* bound: write transactions begun
    MaxFaults,   \* bound: calls that fail, processes that end, power losses
    MaxEvents,   \* bound: both together
    Writeback,   \* what a process that is gone has zeroed is on the disk
    Nothing,     \* beyond the end of the database; no journal; not in the cache
    Zeros,       \* a journal header that was overwritten; beyond its end
    Junk         \* what is left of a write that was torn

ASSUME PagerAssumption ==
    /\ \A s \in Starts : /\ s.mode \in [Conns -> {"delete", "persist"}]
                         /\ s.size \in 1..MaxPages
    /\ MaxPages \in Nat \ {0} /\ JournalLen \in Nat \ {0} /\ MaxTxns \in Nat
    /\ Nothing \notin Journals

(* No page is absent or torn, nothing that was logged zeroed or torn. *)
ASSUME ValuesAssumption ==
    /\ Zeros # Junk
    /\ \A v \in {Nothing, Junk} : v \notin [by : Nat, ctr : Nat]
    /\ \A v \in {Zeros, Junk} :
          /\ v \notin [kind : {"header"}, magic : BOOLEAN, nRec : Nat, nonce : Nat, dbSize : Nat]
          /\ v \notin [kind : {"record"}, pgno : Nat, data : [by : Nat, ctr : Nat], nonce : Nat]

VARIABLES
    held, reserved,   \* the locks of FileLocks
    db,      \* cells of the database file
    dir,     \* cell of the directory entry of the journal
    jrnl,    \* cells of each journal file
    pager,   \* the Pager of each connection
    txns, faults

locks == <<held, reserved>>
disk  == <<db, dir, jrnl>>
vars  == <<locks, disk, pager, txns, faults>>

FL == INSTANCE FileLocks WITH Handles <- Conns, Proc <- [c \in Conns |-> c]

Pages == 1..MaxPages

(* A page: the transaction that wrote it, and in page 1 the change counter. *)
Page(txn, counter) == [by |-> txn, ctr |-> counter]

------------------------------------------------------------------------------
(* Files *)

Synced(value)    == [now |-> value, disk |-> {value}]
Put(cell, value) == [now |-> value, disk |-> cell.disk \cup {value, Junk}]
(* A record is not worse off torn than not written: its checksum is wrong. *)
Log(cell, value) == [now |-> value, disk |-> cell.disk \cup {value}]
Now(cells)       == [i \in DOMAIN cells |-> cells[i].now]
Fsync(cells)     == [i \in DOMAIN cells |-> Synced(cells[i].now)]
Blank            == [i \in 1..JournalLen |-> Synced(Zeros)]

(* Everything a power loss can leave of a file. *)
Outcomes(cells) ==
    LET From[n \in 0..Len(cells)] ==
            IF n = 0 THEN {<<>>}
            ELSE {Append(s, v) : s \in From[n - 1], v \in cells[n].disk}
    IN  From[Len(cells)]

File == Now(db)

SizeOf(image) == CHOOSE n \in Pages : /\ image[n] # Nothing
                                      /\ \A p \in Pages : p > n => image[p] = Nothing

(* pager_truncate, on the database file; the file never has to grow here.  *)
Truncated(n) == [p \in Pages |-> IF p > n /\ db[p].now # Nothing
                                   THEN Put(db[p], Nothing) ELSE db[p]]

(* A journal header has the size of the database and a nonce that seeds    *)
(* the checksums of its records.  Its magic is missing, and nRec is 0,     *)
(* until syncJournal has synced the records.                               *)
Header(magic, n, nonce, size) ==
    [kind |-> "header", magic |-> magic, nRec |-> n, nonce |-> nonce, dbSize |-> size]
Record(p, value, nonce) ==
    [kind |-> "record", pgno |-> p, data |-> value, nonce |-> nonce]

IsHeader(e)        == e \notin {Zeros, Junk} /\ e.kind = "header" /\ e.magic
IsRecord(e, nonce) == e \notin {Zeros, Junk} /\ e.kind = "record" /\ e.nonce = nonce

(* Where the records are that a playback reads from journal j: segment     *)
(* after segment, up to the first record whose checksum is wrong.          *)
(* From[i][h] is what it reads from cell i on, in the segment of header h. *)
Playback(j) ==
    LET From[i \in 1 .. Len(j) + 1] == [h \in 0 .. Len(j) |->
            IF i > Len(j) THEN {}
            ELSE IF h # 0 /\ i <= h + j[h].nRec
              THEN IF IsRecord(j[i], j[h].nonce) THEN {i} \cup From[i + 1][h] ELSE {}
            ELSE IF IsHeader(j[i]) THEN From[i + 1][i] ELSE {}]
    IN  From[1][0]

(* The pages that a hot journal j restores, each from its only record.     *)
Restores(j) ==
    IF ~IsHeader(j[1]) THEN <<>>
    ELSE LET records == {j[i] : i \in Playback(j)}
             beyond  == {p \in Pages : p > j[1].dbSize}
         IN  [p \in beyond \cup {r.pgno : r \in records} |->
                 IF p \in beyond THEN Nothing ELSE (CHOOSE r \in records : r.pgno = p).data]

(* What rolling back makes of a database. *)
Recoveries(images, journals) ==
    LET restored == {Restores(j) : j \in journals}
    IN  {[p \in Pages |-> IF p \in DOMAIN r THEN r[p] ELSE image[p]] :
             r \in restored, image \in images}

------------------------------------------------------------------------------
(* The Pager object *)

(* "at" is how far a call has come, "job" what it does. *)
Fresh(mode) ==
    [mode |-> mode, eState |-> "OPEN", at |-> "idle", job |-> "none",
     cache |-> [p \in Pages |-> Nothing], vers |-> 0, size |-> 0,
     txn |-> 0, origSize |-> 0, dirty |-> {}, needSync |-> {}, inJournal |-> {},
     jfd |-> Nothing, dirSync |-> FALSE, hdr |-> 0, off |-> 0,
     spilled |-> 0, todo |-> {}]

Init ==
    /\ FL!Init
    /\ dir = Synced(Nothing)
    /\ jrnl = [id \in Journals |-> Blank]
    /\ \E s \in Starts :
          /\ pager = [c \in Conns |-> Fresh(s.mode[c])]
          /\ db = [p \in Pages |-> Synced(IF p <= s.size THEN Page(0, 0) ELSE Nothing)]
    /\ txns = 0
    /\ faults = 0

Set(c, new)  == pager' = [pager EXCEPT ![c] = new]
Goto(c, at)  == pager' = [pager EXCEPT ![c].at = at]
At(c, at)    == pager[c].at = at
Idle(c)      == pager[c].at = "idle"
Journal(c)   == jrnl[pager[c].jfd]
Writing(c)   == pager[c].eState \in {"WRITER_CACHEMOD", "WRITER_DBMOD"}
Counter(v)   == IF v = Junk THEN -1 ELSE v.ctr
By(v)        == IF v \in {Nothing, Junk} THEN -1 ELSE v.by

(* What connection c reads in page p. *)
Sees(c, p) == IF pager[c].cache[p] # Nothing THEN pager[c].cache[p] ELSE db[p].now

(* pager_reset: the whole cache goes. *)
Emptied(P) == [P EXCEPT !.cache = [p \in Pages |-> Nothing]]

(* pager_unlock keeps the cache and what it knows the database by. *)
Closed(P) == [Fresh(P.mode) EXCEPT !.cache = P.cache, !.vers = P.vers]

(* The error state, in which nothing of the cache is used any more. *)
Broken(P) == [Closed(Emptied(P)) EXCEPT !.eState = "ERROR"]

(* Mutant: the journal stays open in every mode. *)
EndedKeepsJournal(P) ==
    [Closed(P) EXCEPT
        !.eState = "READER", !.size = P.size,
        !.cache = [p \in Pages |-> IF p > P.size THEN Nothing ELSE P.cache[p]],
        !.jfd = P.jfd, !.dirSync = P.mode = "persist" /\ P.dirSync]

(* The end of pager_end_transaction; the journal stays open in mode PERSIST. *)
Ended(P) ==
    [Closed(P) EXCEPT
        !.eState = "READER", !.size = P.size,
        !.cache = [p \in Pages |-> IF p > P.size THEN Nothing ELSE P.cache[p]],
        !.jfd = IF P.mode = "persist" THEN P.jfd ELSE Nothing,
        !.dirSync = P.mode = "persist" /\ P.dirSync]

------------------------------------------------------------------------------
(* sqlite3PagerSharedLock: lock, roll a hot journal back, check the cache.  *)
(* While others hold locks, one may be refused: then the call is BUSY.      *)

Contended(c) == \E o \in Conns \ {c} : held[o] # NO_LOCK

Share(c) ==
    /\ Idle(c) /\ pager[c].eState = "OPEN"
    /\ FL!Share(c)
    /\ Goto(c, "journal")
    /\ UNCHANGED <<disk, txns, faults>>

(* hasHotJournal: is there a journal, and nobody who may be writing it? *)
LookForJournal(c) ==
    /\ At(c, "journal")
    /\ Goto(c, IF dir.now = Nothing THEN "validate" ELSE "reserved")
    /\ UNCHANGED <<locks, disk, txns, faults>>

CheckReservedLock(c) ==
    /\ At(c, "reserved")
    /\ Goto(c, IF reserved # {} THEN "validate" ELSE "peek")
    /\ UNCHANGED <<locks, disk, txns, faults>>

(* A journal that has gone meanwhile is taken for a hot one. *)
PeekAtJournal(c) ==
    /\ At(c, "peek")
    /\ LET first == IF dir.now = Nothing THEN Junk ELSE jrnl[dir.now][1].now
       IN  \/ (first = Junk \/ IsHeader(first)) /\ Goto(c, "lock")
           \/ ~IsHeader(first) /\ dir.now # Nothing /\ Goto(c, "validate")
    /\ UNCHANGED <<locks, disk, txns, faults>>

(* No RESERVED on the way to EXCLUSIVE. *)
LockForRollback(c) ==
    /\ At(c, "lock")
    /\ \/ FL!Pend(c) /\ UNCHANGED pager
       \/ FL!Exclude(c) /\ Goto(c, "open")
    /\ UNCHANGED <<disk, txns, faults>>

GiveUpRollback(c) ==
    /\ At(c, "lock") /\ Contended(c)
    /\ FL!Lose({c})
    /\ Set(c, Closed(pager[c]))
    /\ UNCHANGED <<disk, txns, faults>>

(* Mutant: a hot journal is used without being synced. *)
UseHotJournalAtOnce(c) ==
    /\ At(c, "open")
    /\ IF dir.now = Nothing
         THEN /\ FL!Downgrade(c)
              /\ Goto(c, "validate")
              /\ UNCHANGED disk
         ELSE LET j == Now(jrnl[dir.now])
                  P == [pager[c] EXCEPT !.jfd = dir.now, !.job = "hot", !.at = "play"]
                  some == j[1].nRec > 0 \/ Playback(j) # {}
              IN  /\ UNCHANGED jrnl
                  /\ IF IsHeader(j[1])
                       THEN /\ db' = Truncated(j[1].dbSize)
                            /\ Set(c, [IF some THEN Emptied(P) ELSE P EXCEPT
                                          !.off = 2, !.size = j[1].dbSize,
                                          !.todo = Playback(j)])
                       ELSE Set(c, P) /\ UNCHANGED db
                  /\ UNCHANGED <<locks, dir>>
    /\ UNCHANGED <<txns, faults>>

(* The journal is synced before it is used; its first header cuts the      *)
(* database back, its first record empties the cache.                      *)
OpenHotJournal(c) ==
    /\ At(c, "open")
    /\ IF dir.now = Nothing
         THEN /\ FL!Downgrade(c)
              /\ Goto(c, "validate")
              /\ UNCHANGED disk
         ELSE LET j == Now(jrnl[dir.now])
                  P == [pager[c] EXCEPT !.jfd = dir.now, !.job = "hot", !.at = "play"]
                  some == j[1].nRec > 0 \/ Playback(j) # {}
              IN  /\ jrnl' = [jrnl EXCEPT ![dir.now] = Fsync(@)]
                  /\ IF IsHeader(j[1])
                       THEN /\ db' = Truncated(j[1].dbSize)
                            /\ Set(c, [IF some THEN Emptied(P) ELSE P EXCEPT
                                          !.off = 2, !.size = j[1].dbSize,
                                          !.todo = Playback(j)])
                       ELSE Set(c, P) /\ UNCHANGED db
                  /\ UNCHANGED <<locks, dir>>
    /\ UNCHANGED <<txns, faults>>

(* The change counter tells whether the cache is still good; then          *)
(* lockBtree gets page 1.                                                  *)
Validate(c) ==
    /\ At(c, "validate")
    /\ LET P    == pager[c]
           same == P.vers = Counter(db[1].now)
           Q    == IF P.cache # Emptied(P).cache /\ ~same THEN Emptied(P) ELSE P
       IN  Set(c, [Q EXCEPT !.eState = "READER", !.at = "idle", !.size = SizeOf(File),
                            !.vers = IF Q.cache[1] = Nothing THEN Counter(db[1].now) ELSE @,
                            !.cache[1] = IF @ = Nothing THEN db[1].now ELSE @])
    /\ UNCHANGED <<locks, disk, txns, faults>>

ReadPage(c, p) ==
    /\ Idle(c) /\ pager[c].eState \notin {"OPEN", "ERROR"}
    /\ p <= pager[c].size /\ pager[c].cache[p] = Nothing
    /\ Set(c, [pager[c] EXCEPT !.cache[p] = db[p].now])
    /\ UNCHANGED <<locks, disk, txns, faults>>

(* The end of a read transaction, or of the error state. *)
Unlock(c) ==
    /\ Idle(c) /\ pager[c].eState \in {"READER", "ERROR"}
    /\ FL!Lose({c})
    /\ Set(c, Closed(pager[c]))
    /\ UNCHANGED <<disk, txns, faults>>

------------------------------------------------------------------------------
(* Writing: sqlite3PagerBegin, pager_write *)

Begin(c) ==
    /\ Idle(c) /\ pager[c].eState = "READER"
    /\ c \in Writers /\ txns < MaxTxns /\ txns + faults < MaxEvents
    /\ FL!Reserve(c)
    /\ txns' = txns + 1
    /\ Set(c, [pager[c] EXCEPT !.eState = "WRITER_LOCKED", !.txn = txns + 1,
                               !.origSize = pager[c].size, !.off = 0])
    /\ UNCHANGED <<disk, faults>>

(* The pager once page p is dirty and, if it had to be, in the journal id. *)
Dirtied(P, p, value, id, log, job, at) ==
    LET first    == P.eState = "WRITER_LOCKED"
        off      == IF first THEN 2 ELSE P.off
        appended == p > P.origSize /\ P.eState # "WRITER_DBMOD"
    IN  [P EXCEPT !.eState = IF first THEN "WRITER_CACHEMOD" ELSE @,
                  !.jfd = id, !.dirSync = @ \/ P.jfd = Nothing,
                  !.hdr = IF first THEN 1 ELSE @,
                  !.off = IF log THEN off + 1 ELSE off,
                  !.inJournal = IF log THEN @ \cup {p} ELSE @,
                  !.needSync = IF log \/ appended THEN @ \cup {p} ELSE @,
                  !.cache[p] = value, !.dirty = @ \cup {p},
                  !.size = IF p > @ THEN p ELSE @,
                  !.job = job, !.at = at]

(* Page p gets a new value, its old one goes to the journal first; the     *)
(* first page to be written opens the journal.  The pager is then at "at". *)
PutPage(c, p, value, job, at) ==
    LET P      == pager[c]
        opened == P.jfd # Nothing
        id     == IF opened THEN P.jfd
                  ELSE IF dir.now # Nothing THEN dir.now
                  ELSE CHOOSE new \in Journals : new \notin dir.disk
        cells  == IF opened \/ dir.now # Nothing THEN jrnl[id] ELSE Blank
        first  == P.eState = "WRITER_LOCKED"
        headed == IF first
                    THEN [cells EXCEPT ![1] = Put(@, Header(FALSE, 0, P.txn, P.origSize))]
                    ELSE cells
        off    == IF first THEN 2 ELSE P.off
        log    == p <= P.origSize /\ p \notin P.inJournal
    IN  /\ log => off <= JournalLen
        /\ ~opened /\ dir.now = Nothing => ~(Journals \subseteq dir.disk)
        /\ jrnl' = [jrnl EXCEPT ![id] =
                       IF log THEN [headed EXCEPT ![off] = Log(@, Record(p, P.cache[p], P.txn))]
                       ELSE headed]
        /\ dir' = IF opened \/ dir.now # Nothing THEN dir
                  ELSE [now |-> id, disk |-> dir.disk \cup {id}]
        /\ Set(c, Dirtied(P, p, value, id, log, job, at))

Write(c, p) ==
    /\ Idle(c) /\ (pager[c].eState = "WRITER_LOCKED" \/ Writing(c))
    /\ p \in 2 .. pager[c].size => /\ pager[c].cache[p] # Nothing
                                   /\ By(pager[c].cache[p]) # pager[c].txn
    /\ p \in Pages \ {1} /\ p <= pager[c].size + 1
    /\ PutPage(c, p, Page(pager[c].txn, IF p = 1 THEN pager[c].cache[1].ctr ELSE 0),
               "none", "idle")
    /\ UNCHANGED <<locks, db, txns, faults>>

------------------------------------------------------------------------------
(* sqlite3PagerCommitPhaseOne and PhaseTwo, pagerStress *)

(* A transaction that wrote nothing; also its rollback. *)
EndUnwritten(c) ==
    /\ Idle(c) /\ pager[c].eState = "WRITER_LOCKED"
    /\ FL!Downgrade(c)
    /\ Set(c, Ended(pager[c]))
    /\ UNCHANGED <<disk, txns, faults>>

ToExclusive(c) == IF held[c] = EXCLUSIVE_LOCK THEN "records" ELSE "exclusive"

(* pager_incr_changecounter: page 1 is written in every commit. *)
BeginCommit(c) ==
    /\ Idle(c) /\ Writing(c)
    /\ PutPage(c, 1, Page(pager[c].txn, pager[c].vers + 1), "commit", ToExclusive(c))
    /\ UNCHANGED <<locks, db, txns, faults>>

(* The cache is full: a dirty page goes to the file before the commit.     *)
(* Page 1 is in use throughout.                                            *)
Spill(c, p) ==
    /\ Idle(c) /\ Writing(c)
    /\ p \in pager[c].dirty \ {1}
    /\ Set(c, [pager[c] EXCEPT
                  !.job = "spill", !.spilled = p,
                  !.at = IF p \in pager[c].needSync \/ pager[c].eState = "WRITER_CACHEMOD"
                           THEN ToExclusive(c) ELSE "write"])
    /\ UNCHANGED <<locks, disk, txns, faults>>

(* Readers may go on until EXCLUSIVE is asked for; BUSY leaves the writer  *)
(* with the lock that it has got.                                          *)
ExclusiveLock(c) ==
    /\ At(c, "exclusive")
    /\ \/ FL!Pend(c) /\ UNCHANGED pager
       \/ FL!Exclude(c) /\ Goto(c, "records")
       \/ /\ Contended(c)
          /\ Set(c, [pager[c] EXCEPT !.at = "idle", !.job = "none"])
          /\ UNCHANGED locks
    /\ UNCHANGED <<disk, txns, faults>>

(* Mutant: what an older journal left behind the last record stays. *)
SyncRecordsOverStale(c) ==
    /\ At(c, "records")
    /\ LET P    == pager[c]
           full == Header(TRUE, P.off - P.hdr - 1, P.txn, P.origSize)
       IN  /\ jrnl' = [jrnl EXCEPT ![P.jfd] = [Fsync(Journal(c)) EXCEPT ![P.hdr] = Put(@, full)]]
           /\ dir' = IF P.dirSync THEN Synced(dir.now) ELSE dir
           /\ Set(c, [P EXCEPT !.at = "header", !.dirSync = FALSE])
    /\ UNCHANGED <<locks, db, txns, faults>>

(* syncJournal: a header that an older journal left behind the last record *)
(* is made void, the records are synced, then the header is completed.     *)
SyncRecords(c) ==
    /\ At(c, "records")
    /\ LET P    == pager[c]
           left == P.off <= JournalLen /\ IsHeader(Journal(c)[P.off].now)
           clean == IF left THEN [Journal(c) EXCEPT ![P.off] = Put(@, Zeros)] ELSE Journal(c)
           full == Header(TRUE, P.off - P.hdr - 1, P.txn, P.origSize)
       IN  /\ jrnl' = [jrnl EXCEPT ![P.jfd] = [Fsync(clean) EXCEPT ![P.hdr] = Put(@, full)]]
           /\ dir' = IF P.dirSync THEN Synced(dir.now) ELSE dir
           /\ Set(c, [P EXCEPT !.at = "header", !.dirSync = FALSE])
    /\ UNCHANGED <<locks, db, txns, faults>>

(* A transaction that goes on after a spill gets a new header. *)
SyncHeader(c) ==
    /\ At(c, "header")
    /\ LET P    == pager[c]
           next == P.job = "spill"
           done == Fsync(Journal(c))
           more == Put(done[P.off], Header(FALSE, 0, P.txn, P.origSize))
       IN  /\ next => P.off <= JournalLen
           /\ jrnl' = [jrnl EXCEPT ![P.jfd] = IF next THEN [done EXCEPT ![P.off] = more]
                                              ELSE done]
           /\ Set(c, [P EXCEPT !.at = "write", !.eState = "WRITER_DBMOD", !.needSync = {},
                               !.hdr = P.off, !.off = IF next THEN @ + 1 ELSE @])
    /\ UNCHANGED <<locks, db, dir, txns, faults>>

FirstDirty(P) == CHOOSE p \in P.dirty : \A q \in P.dirty : p <= q

(* pager_write_pagelist *)
WriteOut(c) ==
    /\ At(c, "write") /\ pager[c].job = "commit" /\ pager[c].dirty # {}
    /\ LET P == pager[c]
           p == FirstDirty(P)
       IN  /\ db' = [db EXCEPT ![p] = Put(@, P.cache[p])]
           /\ Set(c, [P EXCEPT !.dirty = @ \ {p},
                               !.vers = IF p = 1 THEN P.cache[1].ctr ELSE @])
    /\ UNCHANGED <<locks, dir, jrnl, txns, faults>>

SpillOut(c) ==
    /\ At(c, "write") /\ pager[c].job = "spill"
    /\ LET P == pager[c]
           p == P.spilled
       IN  /\ db' = [db EXCEPT ![p] = Put(@, P.cache[p])]
           /\ Set(c, [P EXCEPT !.dirty = @ \ {p}, !.cache[p] = Nothing,
                               !.at = "idle", !.job = "none", !.spilled = 0])
    /\ UNCHANGED <<locks, dir, jrnl, txns, faults>>

SyncDatabase(c) ==
    /\ \/ At(c, "write") /\ pager[c].job = "commit" /\ pager[c].dirty = {}
       \/ At(c, "play") /\ pager[c].todo = {}
    /\ db' = Fsync(db)
    /\ Set(c, [pager[c] EXCEPT !.at = "finalize",
                               !.eState = IF pager[c].job = "commit" THEN "WRITER_FINISHED" ELSE @])
    /\ UNCHANGED <<locks, dir, jrnl, txns, faults>>

(* pager_end_transaction returns to its caller. *)
Return(c) ==
    /\ FL!Downgrade(c)
    /\ Set(c, IF pager[c].job = "hot"
                THEN [Ended(pager[c]) EXCEPT !.eState = "OPEN", !.at = "validate"]
                ELSE Ended(pager[c]))

(* The journal is deleted, which is not synced, or its header is zeroed.   *)
FinalizeJournal(c) ==
    /\ At(c, "finalize")
    /\ LET P == pager[c] IN
       \/ /\ P.mode = "delete"
          /\ dir' = [now |-> Nothing, disk |-> dir.disk \cup {Nothing}]
          /\ Return(c)
          /\ UNCHANGED jrnl
       \/ /\ P.mode = "persist" /\ P.off # 0
          /\ jrnl' = [jrnl EXCEPT ![P.jfd][1] = Put(@, Zeros)]
          /\ Goto(c, "zeroed")
          /\ UNCHANGED <<locks, dir>>
       \/ /\ P.mode = "persist" /\ P.off = 0
          /\ Return(c)
          /\ UNCHANGED <<dir, jrnl>>
    /\ UNCHANGED <<db, txns, faults>>

SyncZeroedHeader(c) ==
    /\ At(c, "zeroed")
    /\ jrnl' = [jrnl EXCEPT ![pager[c].jfd] = Fsync(@)]
    /\ dir' = IF pager[c].dirSync THEN Synced(dir.now) ELSE dir
    /\ LET P == [pager[c] EXCEPT !.dirSync = FALSE]
       IN  Set(c, IF P.job = "hot" THEN [Ended(P) EXCEPT !.eState = "OPEN", !.at = "validate"]
                  ELSE Ended(P))
    /\ FL!Downgrade(c)
    /\ UNCHANGED <<db, txns, faults>>

------------------------------------------------------------------------------
(* sqlite3PagerRollback, pager_playback *)

(* Before the database was written to, only the cache is restored. *)
RollbackCache(c) ==
    /\ Idle(c) \/ At(c, "failed")
    /\ pager[c].eState = "WRITER_CACHEMOD"
    /\ LET P == pager[c]
           old(p) == CHOOSE e \in {Journal(c)[i].now : i \in 2 .. P.off - 1} :
                         IsRecord(e, P.txn) /\ e.pgno = p
           restored == [p \in Pages |-> IF p \in P.inJournal THEN old(p).data
                                        ELSE P.cache[p]]
       IN  Set(c, [P EXCEPT !.cache = restored, !.size = P.origSize,
                            !.job = "rollback", !.at = "finalize"])
    /\ UNCHANGED <<locks, disk, txns, faults>>

(* The transaction's own records.  They end where its last header counts   *)
(* to, or at the end of what was written after one that counts none yet.   *)
(* There is one exception, which the cells here leave out: the check of a  *)
(* next header's magic number is skipped at journalHdr (pager.c:1518), and *)
(* syncJournal sets that to the end of the last record (4159) when it has  *)
(* no header to write there.  A header an older journal left right there   *)
(* in mode PERSIST, though voided, would be followed.  Headers begin on a  *)
(* sector and a record is a page and 8 bytes, so that this takes a segment *)
(* of a multiple of SectorSize/8 records (of 512, with sectors of 4096     *)
(* bytes): segments are taken to be shorter.                               *)
RollbackDatabase(c) ==
    /\ Idle(c) \/ At(c, "failed")
    /\ pager[c].eState = "WRITER_DBMOD"
    /\ LET P == pager[c]
       IN  Set(c, [P EXCEPT !.todo = {i \in 1 .. P.off - 1 : IsRecord(Journal(c)[i].now, P.txn)},
                            !.size = P.origSize, !.job = "rollback", !.at = "play"])
    /\ db' = Truncated(pager[c].origSize)
    /\ UNCHANGED <<locks, dir, jrnl, txns, faults>>

(* Records are played in the order in which they were written. *)
NextRecord(P) == CHOOSE i \in P.todo : \A k \in P.todo : i <= k

(* A record that is not synced yet is of a page that was not written to    *)
(* the file.                                                               *)
ToFile(P, i) == P.job = "hot" \/ i < P.hdr

(* Mutant: a rollback leaves the cache as it is. *)
PlayRecordIntoFile(c) ==
    /\ At(c, "play") /\ pager[c].todo # {}
    /\ LET P == pager[c]
           i == NextRecord(P)
           r == Journal(c)[i].now
       IN  /\ db' = IF ToFile(P, i) THEN [db EXCEPT ![r.pgno] = Put(@, r.data)] ELSE db
           /\ Set(c, [P EXCEPT !.todo = @ \ {i},
                               !.vers = IF r.pgno = 1 /\ P.cache[1] # Nothing
                                          THEN r.data.ctr ELSE @])
    /\ UNCHANGED <<locks, dir, jrnl, txns, faults>>

(* pager_playback_one_page *)
PlayRecord(c) ==
    /\ At(c, "play") /\ pager[c].todo # {}
    /\ LET P == pager[c]
           i == NextRecord(P)
           r == Journal(c)[i].now
       IN  /\ db' = IF ToFile(P, i) THEN [db EXCEPT ![r.pgno] = Put(@, r.data)] ELSE db
           /\ Set(c, [P EXCEPT !.todo = @ \ {i},
                               !.cache[r.pgno] = IF @ = Nothing THEN @ ELSE r.data,
                               !.vers = IF r.pgno = 1 /\ P.cache[1] # Nothing
                                          THEN r.data.ctr ELSE @])
    /\ UNCHANGED <<locks, dir, jrnl, txns, faults>>

------------------------------------------------------------------------------
(* What goes wrong *)

GoesWrong ==
    /\ faults < MaxFaults /\ txns + faults < MaxEvents
    /\ faults' = faults + 1

(* The page that the next write of connection c goes to. *)
Target(c) ==
    LET P == pager[c] IN
    IF At(c, "write") /\ P.job = "spill" THEN {P.spilled}
    ELSE IF At(c, "write") /\ P.dirty # {} THEN {FirstDirty(P)}
    ELSE IF At(c, "play") /\ P.todo # {} /\ ToFile(P, NextRecord(P))
      THEN {Journal(c)[NextRecord(P)].now.pgno}
    ELSE {}

(* With Writeback, the header that connection c was about to sync gets to  *)
(* the disk before anybody else goes on.                                   *)
WrittenBack(c) ==
    IF Writeback /\ At(c, "zeroed") THEN [jrnl EXCEPT ![pager[c].jfd] = Fsync(@)] ELSE jrnl

(* A call of the operating system fails; a write may be torn.  A commit is *)
(* rolled back next; what fails in a spill, a rollback or a finalization   *)
(* breaks the pager; a hot journal is left to the next connection.         *)
Fail(c) ==
    /\ GoesWrong
    /\ pager[c].at \in {"records", "header", "write", "play", "finalize", "zeroed"}
    /\ \E torn \in SUBSET Target(c) :
          db' = [p \in Pages |-> IF p \in torn THEN Put(db[p], Junk) ELSE db[p]]
    /\ LET P == pager[c] IN
       IF P.job = "hot"
         THEN FL!Lose({c}) /\ Set(c, Closed(Emptied(P)))
       ELSE IF P.at \in {"finalize", "zeroed"}
         THEN FL!Downgrade(c) /\ Set(c, Broken(P))
       ELSE /\ IF P.job = "commit"
                 THEN Set(c, [P EXCEPT !.at = "failed", !.job = "none"])
                 ELSE Set(c, Broken(P))
            /\ UNCHANGED locks
    /\ jrnl' = WrittenBack(c)
    /\ UNCHANGED <<dir, txns>>

(* A process ends; what it wrote is in the files.  The end of one that     *)
(* only reads is like an Unlock.                                           *)
Crash(c) ==
    /\ held[c] > SHARED_LOCK
    /\ GoesWrong
    /\ jrnl' = WrittenBack(c)
    /\ FL!Lose({c})
    /\ Set(c, Fresh(pager[c].mode))
    /\ UNCHANGED <<db, dir, txns>>

(* A journal without a header is as good as an empty one, but for its      *)
(* first byte: the nonces of its records will not come again.              *)
Legible(j) ==
    IF \E i \in DOMAIN j : IsHeader(j[i]) THEN j
    ELSE [i \in DOMAIN j |-> IF i = 1 /\ j[1] = Junk THEN Junk ELSE Zeros]

PowerLoss ==
    /\ GoesWrong
    /\ \E d \in Outcomes(db), f \in dir.disk :
       \E j \in IF f = Nothing THEN {<<>>} ELSE {Legible(o) : o \in Outcomes(jrnl[f])} :
          /\ db' = [p \in Pages |-> Synced(d[p])]
          /\ dir' = Synced(f)
          /\ jrnl' = [id \in Journals |->
                         IF id = f THEN [i \in 1..JournalLen |-> Synced(j[i])] ELSE Blank]
    /\ FL!Lose(Conns)
    /\ pager' = [c \in Conns |-> Fresh(pager[c].mode)]
    /\ UNCHANGED txns

------------------------------------------------------------------------------

Next ==
    \/ \E c \in Conns :
          \/ Share(c) \/ LookForJournal(c) \/ CheckReservedLock(c) \/ PeekAtJournal(c)
          \/ LockForRollback(c) \/ GiveUpRollback(c) \/ OpenHotJournal(c) \/ Validate(c)
          \/ Unlock(c) \/ Begin(c) \/ EndUnwritten(c) \/ BeginCommit(c)
          \/ \E p \in Pages : ReadPage(c, p) \/ Write(c, p) \/ Spill(c, p)
          \/ ExclusiveLock(c) \/ SyncRecords(c) \/ SyncHeader(c) \/ WriteOut(c)
          \/ SpillOut(c) \/ SyncDatabase(c) \/ FinalizeJournal(c) \/ SyncZeroedHeader(c)
          \/ RollbackCache(c) \/ RollbackDatabase(c) \/ PlayRecord(c)
          \/ Fail(c) \/ Crash(c)
    \/ PowerLoss

Spec == Init /\ [][Next]_vars

------------------------------------------------------------------------------
(* The refinement: the database is what is left once a hot journal has     *)
(* been rolled back.                                                       *)

Image ==
    LET found == IF dir.now = Nothing THEN Blank ELSE jrnl[dir.now]
    IN  CHOOSE i \in Recoveries({File}, {Now(found)}) : TRUE

Risk ==
    LET Left(f) == IF f # Nothing /\ \E e \in jrnl[f][1].disk : IsHeader(e)
                     THEN Outcomes(jrnl[f]) ELSE {Now(Blank)}
    IN  Recoveries(Outcomes(db), UNION {Left(f) : f \in dir.disk})

(* A connection reads its own writes; for the rest, what it would read.    *)
Snapshot(c, image) ==
    LET P == pager[c] IN
    IF P.eState \in {"OPEN", "ERROR"} THEN Nothing
    ELSE [p \in Pages |-> IF p > P.size THEN Nothing
                          ELSE IF P.txn # 0 /\ By(Sees(c, p)) = P.txn THEN image[p]
                          ELSE Sees(c, p)]

PageValues == {Page(t, n) : t \in 0..MaxTxns, n \in 0..MaxTxns}

AS == INSTANCE AtomicStore WITH
         Images     <- [Pages -> PageValues \cup {Nothing}],
         NotReading <- Nothing,
         image      <- Image,
         risk       <- Risk,
         snapshot   <- LET image == Image IN [c \in Conns |-> Snapshot(c, image)]

------------------------------------------------------------------------------
(* Properties *)

(* Connections read and replace the database as a whole, whatever calls    *)
(* fail, whichever processes end and whatever a power loss leaves of the   *)
(* files.                                                                  *)
Implements == AS!Spec

(* (9) of the notes on the design of the pager: a cache whose change       *)
(* counter is that of the database holds pages of the database.            *)
CachesAreRecognized ==
    \A c \in Conns :
        pager[c].eState = "OPEN" /\ pager[c].vers = Counter(Image[1]) =>
            \A p \in Pages : pager[c].cache[p] \in {Nothing, Image[p]}

(* (7) of the notes: at any time, whatever of the unsynced changes to the  *)
(* journal is lost, rolling it back leaves the database that the           *)
(* transaction started from.                                               *)
AnyJournalRollsBack ==
    \A c \in Conns : Writing(c) =>
        Recoveries({File}, Outcomes(Journal(c))) = {Image}

(* Nobody "might delete the file out from under us" (pager_unlock): the    *)
(* journal that a transaction writes is the one that the next connection   *)
(* finds.                                                                  *)
JournalStaysLinked ==
    \A c \in Conns : Writing(c) => dir.now = pager[c].jfd
================================================================================
