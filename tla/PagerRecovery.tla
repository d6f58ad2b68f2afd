------------------------------ MODULE PagerRecovery ------------------------------
(* That the rollback journal of Pager does what it is for, for any number  *)
(* of connections, of pages and of faults: what a playback makes of the    *)
(* database, whatever is left of the files, is the image that the last     *)
(* transaction left, the caches that are trusted are of that image, and    *)
(* so the pagers implement AtomicStore.                                    *)
EXTENDS PagerProofs

USE DEF NO_LOCK, SHARED_LOCK, RESERVED_LOCK, PENDING_LOCK, EXCLUSIVE_LOCK

------------------------------------------------------------------------------
(* Recovery                                                                *)

(* The journal that the directory entry names, and the one in it.          *)
Of(f) == IF f = Nothing THEN Blank ELSE jrnl[f]
Found == Of(dir.now)

(* A page of one of the transactions up to t; one of t itself; an image,   *)
(* which is a database of such pages.                                      *)
IsPage(v, t)  == \E b, n \in 0 .. t : v = Page(b, n)
Own(v, t)     == \E n \in 0 .. t : v = Page(t, n)
SizeIs(B, n)  == n \in Pages /\ \A p \in Pages : B[p] = Nothing <=> p > n
IsImage(B, t) ==
    /\ B = [p \in Pages |-> B[p]]
    /\ \E n \in Pages : SizeIs(B, n)
    /\ \A p \in Pages : B[p] # Nothing => IsPage(B[p], t)

(* No power loss can leave a header of journal J; the directory entry is   *)
(* on the disk; a transaction is committed but for a sync.                 *)
NoHeader(J)  == \A v \in J[1].disk : ~IsHeader(v)
Settled      == dir.disk = {dir.now}
Committed    == \E c \in Conns : pager[c].at = "zeroed" /\ pager[c].job = "commit"

(* What is seen of a file is one of the things that a power loss may leave *)
(* of it.                                                                  *)
SeenIsLeft ==
    /\ dir.now \in dir.disk
    /\ \A p \in Pages : db[p].now \in db[p].disk
    /\ \A id \in Journals : \A i \in 1 .. JournalLen : jrnl[id][i].now \in jrnl[id][i].disk

(* Whatever a power loss leaves rolls back to an image.                    *)
LossRollsBack ==
    \A f \in dir.disk : \A o \in Outcomes(Of(f)) :
        LET B == Over(Restores(o), File) IN IsImage(B, txns) /\ Valid(o, db, B)

(* Only a header of a journal that the directory surely names can be left; *)
(* it is there unless it is being zeroed.  Whatever is left of that        *)
(* journal, rolling it back makes the image of whatever is left of the     *)
(* database.                                                               *)
FilesRecover ==
    /\ SeenIsLeft
    /\ ~NoHeader(Found) \/ Found[1].now = Junk => Settled
    /\ ~NoHeader(Found) /\ ~IsHeader(Found[1].now) => \E c \in Conns : pager[c].at = "zeroed"
    /\ LossRollsBack
    /\ IsImage(Image, txns)
    /\ IF Committed THEN Clean(db, Image) ELSE \A o \in Outcomes(Found) : Valid(o, db, Image)

(* What a cache kept from before, without a lock, may hold of database B:  *)
(* the counter tells.  What a reader, and who has RESERVED, knows of B.    *)
IsCache(P)     == P.cache = [p \in Pages |-> P.cache[p]]
EmptyCache(P)  == \A p \in Pages : P.cache[p] = Nothing
CacheOf(P, B)  == \A p \in Pages : P.cache[p] \in {Nothing, B[p]}
OpenOK(P, B)   == EmptyCache(P) \/ (P.vers <= B[1].ctr /\ (P.vers = B[1].ctr => CacheOf(P, B)))
ReadOK(P, B)   == P.vers = B[1].ctr /\ P.cache[1] = B[1] /\ CacheOf(P, B) /\ SizeIs(B, P.size)
LockedOK(P, B, t) == P.origSize = P.size /\ P.txn = t /\ t \in Nat \ {0} /\ IsImage(B, t - 1)
(* What a transaction that rolls back sees: B, or what it wrote itself.    *)
Seen(P, file, p)  == IF P.cache[p] # Nothing THEN P.cache[p] ELSE file[p].now
SeesOwn(P, file, B) ==
    \A p \in 1 .. P.size : Seen(P, file, p) = B[p] \/ Own(Seen(P, file, p), P.txn)

(* A transaction that has written, to its cache at least: B is the image   *)
(* that it started from.                                                   *)
ModOK(P, file, B, t) ==
    /\ P.jfd # Nothing
    /\ P.txn = t /\ t \in Nat \ {0} /\ IsImage(B, t - 1) /\ SizeIs(B, P.origSize)
    /\ P.size \in Pages /\ P.origSize <= P.size
    /\ P.job = "rollback" => SeesOwn(P, file, B)
    /\ P.cache[1] # Nothing
    /\ P.eState = "WRITER_CACHEMOD" => Clean(file, B)
    /\ P.off \in Nat \ {0, 1}

(* No header begins at cell i, whatever is left of the journal.            *)
Stops(J, i) == i <= JournalLen => \A v \in J[i].disk : ~IsHeader(v)

(* Its journal has the values that the pages have in B.                    *)
LogsOld(P, J, B) ==
    \A i \in 1 .. P.off - 1 : J[i].now.kind = "record" =>
        /\ J[i].now.pgno \in P.inJournal /\ J[i].now.pgno \in 1 .. P.origSize
        /\ J[i].now.data = B[J[i].now.pgno]

(* The header of the last segment counts its records, once they are synced. *)
HeadOK(P, J) ==
    IF P.at \in {"header", "failed"}
      THEN P.hdr <= JournalLen => \A v \in J[P.hdr].disk : IsHeader(v) =>
              /\ v = Header(TRUE, P.off - P.hdr - 1, P.txn, P.origSize)
              /\ P.hdr < P.off
              /\ \A i \in P.hdr + 1 .. P.off - 1 : OnDisk(J[i]) /\ IsLog(J[i].now, P.txn)
              /\ Stops(J, P.off)
      ELSE Stops(J, P.hdr)

(* The pages that a playback of the completed segments restores.           *)
LogsPage(J, end, p) == \E i \in 1 .. end - 1 : J[i].now.kind = "record" /\ J[i].now.pgno = p

(* What no completed segment restores has not been written to.             *)
Untouched(P, J, file, B) ==
    \A p \in 1 .. P.origSize : LogsPage(J, P.hdr, p) \/ file[p].disk = {B[p]}

(* What is dirty is of this transaction; the rest is what the file has.    *)
PagesOK(P, file, t) ==
    /\ P.dirty \subseteq 1 .. P.size
    /\ \A p \in P.dirty : Own(P.cache[p], t)
    /\ \A p \in Pages \ P.dirty :
          /\ P.cache[p] \in {Nothing, file[p].now}
          /\ IF p > P.size THEN file[p].now = Nothing ELSE IsPage(file[p].now, t)
          /\ p \in P.inJournal \/ p \in P.origSize + 1 .. P.size => Own(file[p].now, t)

(* The counter by which the cache will be known, which a commit raises.    *)
VersOK(P, B, t) ==
    /\ P.at \notin {"write", "failed"} => P.vers = B[1].ctr
    /\ P.at = "failed" => P.vers = B[1].ctr \/ (1 \in P.inJournal /\ P.eState = "WRITER_DBMOD")
    /\ P.job = "commit" => /\ P.cache[1] = Page(t, B[1].ctr + 1) /\ 1 \in P.inJournal
                           /\ P.vers = IF 1 \in P.dirty THEN B[1].ctr ELSE B[1].ctr + 1
    /\ P.job = "spill" => P.vers = B[1].ctr /\ P.spilled # 1

LogMore(P, J, file, B, t) ==
    /\ LogsOld(P, J, B)
    /\ P.hdr = 1 <=> P.eState = "WRITER_CACHEMOD"
    /\ P.hdr = 1 => J[1].now.kind = "header"
    /\ HeadOK(P, J)
    /\ Untouched(P, J, file, B)
    /\ PagesOK(P, file, t)
    /\ VersOK(P, B, t)

(* Whatever is left of journal J restores page p.                          *)
Covers(J, p) == \A o \in Outcomes(J) : IsHeader(o[1]) /\ \E k \in Playback(o) : o[k].pgno = p

(* A playback: the file is B but for the records still to play, each of    *)
(* which may be written, and so torn, because the journal has it.          *)
PlayOK(P, J, file, B) ==
    /\ P.jfd # Nothing
    /\ P.todo \subseteq 1 .. JournalLen
    /\ \A i \in P.todo :
          /\ J[i].now.pgno \in Pages /\ J[i].now.data = B[J[i].now.pgno]
          /\ ToFile(P, i) => Covers(J, J[i].now.pgno)
    /\ \A p \in Pages : file[p].now = B[p] \/ \E i \in P.todo : ToFile(P, i) /\ J[i].now.pgno = p
    /\ IF P.job = "hot" THEN P.todo # {} => EmptyCache(P)
       ELSE /\ P.size = P.origSize
            /\ \A p \in 1 .. P.size : P.cache[p] \in {Nothing, B[p]} \/ \E i \in P.todo : J[i].now.pgno = p
            /\ P.vers = B[1].ctr \/ \E i \in P.todo : J[i].now.pgno = 1
    /\ P.job = "hot" /\ P.off = 0 => NoHeader(J)

(* A rollback whose database is synced; a commit whose database, D, is.    *)
FinalOK(P, J, file, B) ==
    /\ P.jfd # Nothing
    /\ Clean(file, B)
    /\ P.job = "rollback" => /\ P.size = P.origSize /\ P.vers = B[1].ctr
                             /\ \A p \in 1 .. P.size : P.cache[p] \in {Nothing, B[p]}
    /\ P.job = "hot" /\ P.off = 0 => NoHeader(J)

FinishedOK(P, file, B, D, t, settled) ==
    /\ P.jfd # Nothing /\ P.off # 0
    /\ P.txn = t /\ IsImage(D, t) /\ SizeIs(D, P.size) /\ Clean(file, D)
    /\ CacheOf(P, D) /\ P.cache[1] = D[1] /\ P.vers = D[1].ctr
    /\ P.at = "finalize" =>
          /\ t \in Nat \ {0} /\ IsImage(B, t - 1) /\ D[1].ctr = B[1].ctr + 1
          /\ SeesOwn(P, file, B) /\ SizeIs(B, P.origSize) /\ P.origSize <= P.size /\ settled
    /\ P.at = "zeroed" => B = D

(* All this by the state of the pager and the stage of its call.           *)
ConnOK(P, J, file, B, t, settled) ==
    /\ P.vers \in Nat /\ IsCache(P)
    /\ P.eState = "OPEN" => OpenOK(P, B)
    /\ P.eState = "OPEN" /\ P.at # "play" => P.todo = {}
    /\ P.at = "zeroed" => J[1].now = Zeros
    /\ P.eState = "ERROR" => EmptyCache(P)
    /\ P.eState \in {"READER", "WRITER_LOCKED"} => ReadOK(P, B)
    /\ P.eState \in {"OPEN", "READER"} => P.txn = 0
    /\ P.eState = "WRITER_LOCKED" => LockedOK(P, B, t)
    /\ P.eState \in {"WRITER_CACHEMOD", "WRITER_DBMOD"} => ModOK(P, file, B, t)
    /\ Logging(P) => LogMore(P, J, file, B, t)
    /\ P.at = "play" => PlayOK(P, J, file, B)
    /\ P.at \in {"finalize", "zeroed"} /\ P.job \in {"hot", "rollback"} => FinalOK(P, J, file, B)
    /\ P.eState = "WRITER_FINISHED" => FinishedOK(P, file, B, Now(file), t, settled)

(* What a connection knows of the journal that the directory names, by its *)
(* state and its lock.                                                     *)
KnowsJournal(P, level, res, J, now, settled) ==
    /\ P.at \in {"journal", "reserved", "peek", "validate"} => level = SHARED_LOCK
    /\ P.eState \in {"READER", "WRITER_LOCKED"} \/ P.at = "validate" => NoHeader(J)
    /\ IsWriter(P) /\ ~NoHeader(J) => level = EXCLUSIVE_LOCK
    /\ res => IsWriter(P) \/ level = EXCLUSIVE_LOCK
    /\ P.jfd # Nothing /\ ~P.dirSync /\ (P.mode = "persist" \/ IsWriter(P)) => settled
    /\ P.mode = "persist" /\ P.at \in {"reserved", "peek"} => now # Nothing
    /\ P.mode = "persist" /\ P.at \in {"lock", "open"} => settled /\ now # Nothing

Recovers(P, level, res, J, now, settled, file, B, t) ==
    /\ ConnOK(P, J, file, B, t, settled)
    /\ KnowsJournal(P, level, res, J, now, settled)

(* The files recover, and each connection knows what it relies on.         *)
RecInv ==
    /\ txns \in Nat
    /\ FilesRecover
    /\ \A c \in Conns : Recovers(pager[c], held[c], c \in reserved, Found, dir.now, Settled,
                                 db, Image, txns)

------------------------------------------------------------------------------
(* What may be left of the files                                           *)

LEMMA OfIsFile ==
    ASSUME FilesOK, SeenIsLeft, NEW f \in Journals \cup {Nothing}
    PROVE  IsFile(Of(f)) /\ \A i \in 1 .. JournalLen : Of(f)[i].now \in Of(f)[i].disk
  BY PagerAssumption DEF FilesOK, SeenIsLeft, Of, IsFile, Blank, Synced

LEMMA FileIs ==
    ASSUME FilesOK
    PROVE  File = [p \in Pages |-> db[p].now]
  BY DEF FilesOK, File, Now

LEMMA LeftOf ==
    ASSUME NEW J, IsFile(J), NEW o, o \in Outcomes(J)
    PROVE  IsFile(o) /\ \A i \in 1 .. JournalLen : o[i] \in J[i].disk
  BY OutcomesAre, PagerAssumption DEF IsFile

LEMMA IsLeft ==
    ASSUME NEW J, IsFile(J), NEW o, IsFile(o), \A i \in 1 .. JournalLen : o[i] \in J[i].disk
    PROVE  o \in Outcomes(J)
  BY OutcomesAre, PagerAssumption DEF IsFile

LEMMA NowIsLeft ==
    ASSUME NEW J, IsFile(J), \A i \in 1 .. JournalLen : J[i].now \in J[i].disk
    PROVE  /\ IsFile(Now(J)) /\ Now(J) \in Outcomes(J)
           /\ \A i \in 1 .. JournalLen : Now(J)[i] = J[i].now
<1>1. Now(J) = [i \in 1 .. JournalLen |-> J[i].now]
  BY DEF Now, IsFile
<1>2. IsFile(Now(J)) /\ \A i \in 1 .. JournalLen : Now(J)[i] = J[i].now
  BY <1>1 DEF IsFile
<1> QED
  BY <1>2, IsLeft

(* The image is what a playback of what is seen restores.                  *)
ImageFrom(image, J) == CHOOSE i \in Recoveries({image}, {Now(J)}) : TRUE

LEMMA OneRecovery ==
    ASSUME NEW image, NEW o
    PROVE  Recoveries({image}, {o}) = {Over(Restores(o), image)}
<1> DEFINE images == {image}
           journals == {o}
           B == Over(Restores(o), image)
<1>1. /\ \E i \in images : TRUE
      /\ \E j \in journals : TRUE
      /\ \A i \in images : \A j \in journals : Over(Restores(j), i) = B
  OBVIOUS
<1> HIDE DEF images, journals, B
<1>2. Recoveries(images, journals) = {B}
  BY <1>1, RecoveriesAre
<1> QED
  BY <1>2 DEF images, journals, B

LEMMA ImageFromIs ==
    ASSUME NEW file, NEW image, image = [p \in Pages |-> image[p]],
           \A p \in Pages : image[p] \in file[p].disk,
           NEW J, NEW B, B = [p \in Pages |-> B[p]], Valid(Now(J), file, B)
    PROVE  ImageFrom(image, J) = B
<1>1. Over(Restores(Now(J)), image) = B
  BY ValidRestores
<1>2. Recoveries({image}, {Now(J)}) = {B}
  BY <1>1, OneRecovery
<1> QED
  BY <1>2 DEF ImageFrom

LEMMA LossIs ==
    ASSUME FilesOK, SeenIsLeft, NEW o, NEW B, IsImage(B, txns), Valid(o, db, B)
    PROVE  Over(Restores(o), File) = B
<1>1. File = [p \in Pages |-> File[p]] /\ \A p \in Pages : File[p] \in db[p].disk
  BY FileIs DEF SeenIsLeft
<1>2. B = [p \in Pages |-> B[p]]
  BY DEF IsImage
<1> QED
  BY <1>1, <1>2, ValidRestores

LEMMA ImageGrows ==
    ASSUME NEW B, NEW t \in Nat, IsImage(B, t)
    PROVE  IsImage(B, t + 1)
<1>1. \A p \in Pages : B[p] # Nothing => IsPage(B[p], t + 1)
  <2>1. SUFFICES ASSUME NEW p \in Pages, B[p] # Nothing PROVE IsPage(B[p], t + 1)
    OBVIOUS
  <2>2. PICK b \in 0 .. t, n \in 0 .. t : B[p] = Page(b, n)
    BY <2>1 DEF IsImage, IsPage
  <2>3. b \in 0 .. t + 1 /\ n \in 0 .. t + 1
    OBVIOUS
  <2> QED
    BY <2>2, <2>3 DEF IsPage
<1> QED
  BY <1>1 DEF IsImage

LEMMA ImageOf == 
    ASSUME NEW B, NEW t \in Nat, IsImage(B, t)
    PROVE  /\ B[1] \in [by : Nat, ctr : Nat] /\ B[1] # Nothing /\ B[1].ctr \in 0 .. t /\ B[1].by \in 0 .. t
           /\ \A p \in Pages : B[p] # Nothing => B[p] \in [by : Nat, ctr : Nat] /\ B[p].by \in 0 .. t /\ B[p].ctr \in 0 .. t
<1>1. \A p \in Pages : B[p] # Nothing => B[p] \in [by : Nat, ctr : Nat] /\ B[p].by \in 0 .. t /\ B[p].ctr \in 0 .. t
  BY DEF IsImage, IsPage, Page
<1>2. 1 \in Pages /\ B[1] # Nothing
  BY PagerAssumption DEF IsImage, SizeIs, Pages
<1> QED
  BY <1>1, <1>2

(* The files after a step that does not write to them.                     *)
LEMMA QuietFiles ==
    ASSUME PagerInv, RecInv, NEW c \in Conns, NEW Q, pager' = [pager EXCEPT ![c] = Q],
           UNCHANGED disk, txns' \in {txns, txns + 1},
           pager[c].at # "zeroed", Q.at # "zeroed"
    PROVE  FilesRecover' /\ Image' = Image /\ Found' = Found /\ Settled' = Settled
<1>1. db' = db /\ dir' = dir /\ jrnl' = jrnl
  BY DEF disk
<1>2. Image' = Image /\ Found' = Found /\ Settled' = Settled /\ File' = File /\ \A f : Of(f)' = Of(f)
  BY <1>1 DEF Image, Found, Of, Settled, File
<1>3. \A a \in Conns : (pager'[a].at = "zeroed" <=> pager[a].at = "zeroed")
                       /\ (pager'[a].at = "zeroed" => pager'[a].job = pager[a].job)
  BY DEF PagerInv
<1>4. Committed' <=> Committed
  BY <1>3 DEF Committed
<1>5. \A B : IsImage(B, txns) => IsImage(B, txns')
  BY ImageGrows DEF RecInv
<1>6. SeenIsLeft'
  BY <1>1 DEF SeenIsLeft, RecInv, FilesRecover
<1>7. LossRollsBack'
  <2>1. LossRollsBack
    BY DEF RecInv, FilesRecover
  <2> QED
    BY <1>1, <1>2, <1>5, <2>1 DEF LossRollsBack
<1>8. IsImage(Image, txns')
  BY <1>5 DEF RecInv, FilesRecover
<1>9. IF Committed' THEN Clean(db, Image) ELSE \A o \in Outcomes(Found) : Valid(o, db, Image)
  BY <1>4 DEF RecInv, FilesRecover
<1>10. /\ ~NoHeader(Found) \/ Found[1].now = Junk => Settled
       /\ ~NoHeader(Found) /\ ~IsHeader(Found[1].now) => \E a \in Conns : pager'[a].at = "zeroed"
  BY <1>3 DEF RecInv, FilesRecover
<1> QED
  BY <1>1, <1>2, <1>6, <1>7, <1>8, <1>9, <1>10 DEF FilesRecover

(* What a power loss leaves rolls back to, as the invariant has it: every  *)
(* way of losing writes to the database gives the same image.              *)
AtRisk(B) == \E f \in dir.disk : \E o \in Outcomes(Of(f)) : B = Over(Restores(o), File)

(* A step that keeps the image, and puts no other at risk.                 *)
Keeps == RecInv' /\ Image' = Image /\ Risk' \subseteq Risk

LEMMA RecoveriesMeans ==
    ASSUME NEW images, NEW journals, NEW w
    PROVE  w \in Recoveries(images, journals) <=>
               \E o \in journals, i \in images : w = Over(Restores(o), i)
<1> DEFINE restored == {Restores(j) : j \in journals}
           S == {Over(r, image) : r \in restored, image \in images}
<1>1. w \in S <=> \E r \in restored, image \in images : w = Over(r, image)
  OBVIOUS
<1>2. Recoveries(images, journals) = S
  BY DEF Recoveries, Over
<1>3. w \in S <=> \E o \in journals, image \in images : w = Over(Restores(o), image)
  BY <1>1
<1> QED
  BY <1>2, <1>3

LEMMA FileIsLeft ==
    ASSUME FilesOK, SeenIsLeft
    PROVE  /\ File = [p \in Pages |-> File[p]] /\ File \in Outcomes(db)
           /\ \A p \in Pages : File[p] \in db[p].disk
           /\ \A i \in Outcomes(db) : i = [p \in Pages |-> i[p]] /\ \A p \in Pages : i[p] \in db[p].disk
<1>1. File = [p \in Pages |-> File[p]] /\ \A p \in Pages : File[p] \in db[p].disk
  BY FileIs DEF SeenIsLeft
<1>2. \A o : o \in Outcomes(db) <=>
                /\ o = [p \in Pages |-> o[p]]
                /\ \A p \in Pages : o[p] \in db[p].disk
  BY OutcomesAre, PagerAssumption DEF FilesOK, Pages
<1> QED
  BY <1>1, <1>2

LEMMA NoneRestores ==
    ASSUME NEW o, ~IsHeader(o[1]), NEW i, i = [p \in Pages |-> i[p]]
    PROVE  Over(Restores(o), i) = i
<1>1. Restores(o) = <<>>
  BY DEF Restores
<1>2. \A p \in Pages : p \notin DOMAIN Restores(o)
  BY <1>1
<1> HIDE DEF Restores
<1>3. Over(Restores(o), i) = [p \in Pages |-> i[p]]
  BY <1>2 DEF Over
<1> QED
  BY <1>3

(* What may be left of the journal that entry f names.                     *)
MayBe(f) == IF f # Nothing /\ \E e \in jrnl[f][1].disk : IsHeader(e)
              THEN Outcomes(jrnl[f]) ELSE {Now(Blank)}

LEMMA RiskMeans ==
    ASSUME NEW B
    PROVE  B \in Risk <=> \E f \in dir.disk : \E o \in MayBe(f), i \in Outcomes(db) :
                              B = Over(Restores(o), i)
<1> DEFINE J == UNION {MayBe(f) : f \in dir.disk}
           I == Outcomes(db)
<1>1. Risk = Recoveries(I, J)
  BY DEF Risk, MayBe
<1>2. \A o : o \in J <=> \E f \in dir.disk : o \in MayBe(f)
  OBVIOUS
<1> HIDE DEF J, I
<1>3. B \in Risk <=> \E o \in J, i \in I : B = Over(Restores(o), i)
  BY <1>1, RecoveriesMeans
<1> QED
  BY <1>2, <1>3 DEF I

LEMMA BlankStarts == ~IsHeader(Now(Blank)[1]) /\ \A v \in Blank[1].disk : ~IsHeader(v)
  BY PagerAssumption DEF Blank, Now, Synced, IsHeader

LEMMA RiskAre ==
    ASSUME FilesOK, SeenIsLeft, LossRollsBack, NEW B
    PROVE  B \in Risk <=> AtRisk(B)
<1>1. ASSUME NEW f \in dir.disk, NEW o \in Outcomes(Of(f)), B = Over(Restores(o), File)
      PROVE  \E oo \in MayBe(f), i \in Outcomes(db) : B = Over(Restores(oo), i)
  <2>1. CASE f # Nothing /\ \E e \in jrnl[f][1].disk : IsHeader(e)
    <3>1. o \in MayBe(f)
      BY <1>1, <2>1 DEF MayBe, Of
    <3> QED
      BY <1>1, <3>1, FileIsLeft
  <2>2. CASE ~(f # Nothing /\ \E e \in jrnl[f][1].disk : IsHeader(e))
    <3>1. MayBe(f) = {Now(Blank)}
      BY <2>2 DEF MayBe
    <3>2. ~IsHeader(o[1])
      <4>1. IsFile(Of(f))
        BY <1>1, OfIsFile DEF FilesOK
      <4>2. o[1] \in Of(f)[1].disk
        BY <1>1, <4>1, LeftOf, PagerAssumption
      <4> QED
        BY <2>2, <4>2, BlankStarts DEF Of
    <3>3. Over(Restores(o), File) = File /\ Over(Restores(Now(Blank)), File) = File
      BY <3>2, FileIsLeft, NoneRestores, BlankStarts
    <3> QED
      BY <1>1, <3>1, <3>3, FileIsLeft
  <2> QED
    BY <2>1, <2>2
<1>2. ASSUME NEW f \in dir.disk, NEW o \in MayBe(f), NEW i \in Outcomes(db), B = Over(Restores(o), i)
      PROVE  \E oo \in Outcomes(Of(f)) : B = Over(Restores(oo), File)
  <2>1. IsFile(Of(f)) /\ \A k \in 1 .. JournalLen : Of(f)[k].now \in Of(f)[k].disk
    BY OfIsFile DEF FilesOK
  <2>2. \A oo \in Outcomes(Of(f)) : LET C == Over(Restores(oo), File)
                                    IN  C = [p \in Pages |-> C[p]] /\ Valid(oo, db, C)
    BY DEF LossRollsBack, IsImage
  <2>3. i = [p \in Pages |-> i[p]] /\ \A p \in Pages : i[p] \in db[p].disk
    BY FileIsLeft
  <2>4. CASE f # Nothing /\ \E e \in jrnl[f][1].disk : IsHeader(e)
    <3>1. o \in Outcomes(Of(f))
      BY <2>4 DEF MayBe, Of
    <3> DEFINE C == Over(Restores(o), File)
    <3>2. C = [p \in Pages |-> C[p]] /\ Valid(o, db, C)
      BY <2>2, <3>1
    <3> HIDE DEF C
    <3>3. Over(Restores(o), i) = C
      BY <2>3, <3>2, ValidRestores
    <3> QED
      BY <1>2, <3>1, <3>3 DEF C
  <2>5. CASE ~(f # Nothing /\ \E e \in jrnl[f][1].disk : IsHeader(e))
    <3> DEFINE oo == Now(Of(f))
    <3>1. oo \in Outcomes(Of(f)) /\ oo[1] = Of(f)[1].now /\ Of(f)[1].now \in Of(f)[1].disk
      BY <2>1, NowIsLeft, PagerAssumption
    <3>2. ~IsHeader(oo[1])
      BY <2>5, <3>1, BlankStarts DEF Of
    <3>3. o = Now(Blank)
      BY <2>5 DEF MayBe
    <3> DEFINE C == Over(Restores(oo), File)
    <3>4. C = [p \in Pages |-> C[p]] /\ Valid(oo, db, C)
      BY <2>2, <3>1
    <3>5. C = File
      BY <3>2, FileIsLeft, NoneRestores
    <3> HIDE DEF C, oo
    <3>6. \A p \in Pages : db[p].disk = {C[p]}
      BY <3>2, <3>4 DEF Valid, Clean
    <3>7. i = C
      BY <2>3, <3>4, <3>6
    <3>8. B = i
      BY <1>2, <2>3, <3>3, NoneRestores, BlankStarts
    <3> QED
      BY <3>1, <3>7, <3>8 DEF C, oo
  <2> QED
    BY <2>4, <2>5
<1> QED
  BY <1>1, <1>2, RiskMeans DEF AtRisk

RiskKnown == FilesOK /\ SeenIsLeft /\ LossRollsBack => \A B : B \in Risk <=> AtRisk(B)

LEMMA RiskIs == RiskKnown /\ RiskKnown'
<1>1. RiskKnown
  BY RiskAre DEF RiskKnown
<1> QED
  BY <1>1, PTL

LEMMA ImageAtRisk ==
    ASSUME FilesOK, FilesRecover
    PROVE  Image \in Risk
<1>1. IsFile(Found) /\ \A i \in 1 .. JournalLen : Found[i].now \in Found[i].disk
  BY OfIsFile DEF FilesOK, FilesRecover, Found
<1>2. Now(Found) \in Outcomes(Found)
  BY <1>1, NowIsLeft
<1>3. Recoveries({File}, {Now(Found)}) = {Over(Restores(Now(Found)), File)}
  BY OneRecovery
<1>4. Image = Over(Restores(Now(Found)), File)
  BY <1>3 DEF Image, Found, Of
<1>5. AtRisk(Image)
  BY <1>2, <1>4 DEF AtRisk, Found, FilesRecover, SeenIsLeft
<1> QED
  BY <1>5, RiskAre DEF FilesRecover

(* Once the entry of the journal is settled, and no commit is on its way,  *)
(* nothing else is at risk.                                                *)
LEMMA NothingElseAtRisk ==
    ASSUME FilesOK, FilesRecover, Settled, ~Committed
    PROVE  Risk = {Image}
<1>1. ASSUME NEW B \in Risk PROVE B = Image
  <2>1. PICK o \in Outcomes(Found) : B = Over(Restores(o), File)
    BY RiskAre DEF AtRisk, Settled, Found, FilesRecover
  <2>2. Valid(o, db, Image) /\ IsImage(Image, txns)
    BY DEF FilesRecover
  <2> QED
    BY <2>1, <2>2, LossIs DEF FilesRecover
<1> QED
  BY <1>1, ImageAtRisk

(* Both of them again, of the state that a step leads to.                  *)
AlwaysAtRisk == FilesOK /\ FilesRecover => Image \in Risk
OnlyAtRisk == FilesOK /\ FilesRecover /\ Settled /\ ~Committed => Risk = {Image}

LEMMA RiskOf == AlwaysAtRisk /\ AlwaysAtRisk' /\ OnlyAtRisk /\ OnlyAtRisk'
<1>1. AlwaysAtRisk /\ OnlyAtRisk
  BY ImageAtRisk, NothingElseAtRisk DEF AlwaysAtRisk, OnlyAtRisk
<1> QED
  BY <1>1, PTL

(* The files after a step of the one connection that may write to them.    *)
LEMMA WrittenFiles ==
    ASSUME FLP!LocksInv, PagerInv, RecInv, NEW c \in Conns, NEW Q, pager' = [pager EXCEPT ![c] = Q],
           Owner(c), txns' = txns, Q.at = "zeroed" => Q.job # "commit",
           FilesOK', SeenIsLeft',
           \A o \in Outcomes(Found') : Valid(o, db', Image),
           NoHeader(Found') \/ IsHeader(Found'[1].now) \/ Q.at = "zeroed",
           \/ Settled'
           \/ /\ NoHeader(Found') /\ Found'[1].now # Junk
              /\ db' = db \/ \A o, C : Valid(o, db, C) => Valid(o, db', C)
              /\ \A f \in dir'.disk \ {dir'.now} : f \in dir.disk /\ Of(f)' = Of(f)
    PROVE  FilesRecover' /\ Image' = Image /\ Risk' \subseteq Risk
<1> DEFINE B == Image
<1>1. IsImage(B, txns) /\ txns \in Nat
  BY DEF RecInv, FilesRecover
<1>2. \A a \in Conns : pager'[a].at = "zeroed" => a = c /\ pager'[c] = Q
  <2>1. \A a \in Conns \ {c} : pager'[a] = pager[a]
    BY DEF PagerInv
  <2>2. \A a \in Conns \ {c} : ~Owner(a)
    BY OneOwner
  <2>3. \A a \in Conns : pager[a].at \in {"finalize", "zeroed"} => Owner(a)
    BY FinalizerOwns
  <2>4. pager'[c] = Q
    BY DEF PagerInv
  <2> QED
    BY <2>1, <2>2, <2>3, <2>4
<1>3. ~Committed'
  BY <1>2 DEF Committed
<1>4. IsFile(Found') /\ \A i \in 1 .. JournalLen : Found'[i].now \in Found'[i].disk
  BY PagerAssumption DEF FilesOK, SeenIsLeft, Found, Of, IsFile, Blank, Synced
<1>5. Now(Found') \in Outcomes(Found')
  BY <1>4, NowIsLeft
<1>6. Image' = B
  <2>1. Valid(Now(Found'), db', B) /\ B = [p \in Pages |-> B[p]]
    BY <1>1, <1>5 DEF IsImage
  <2>2. File' = [p \in Pages |-> File'[p]] /\ \A p \in Pages : File'[p] \in db'[p].disk
    BY DEF FilesOK, File, Now, SeenIsLeft
  <2>3. Image' = ImageFrom(File', Found')
    BY DEF Image, ImageFrom, Found, Of
  <2> HIDE DEF B
  <2> QED
    BY <2>1, <2>2, <2>3, ImageFromIs
<1>7. LossRollsBack'
  <2>1. SUFFICES ASSUME NEW f \in dir'.disk, NEW o, o \in Outcomes(Of(f)')
                 PROVE  \E C : IsImage(C, txns) /\ Valid(o, db', C)
    <3> SUFFICES ASSUME NEW f \in dir'.disk, NEW o \in Outcomes(Of(f)')
                 PROVE  LET C == Over(Restores(o), File') IN IsImage(C, txns') /\ Valid(o, db', C)
      BY DEF LossRollsBack
    <3>1. PICK C : IsImage(C, txns) /\ Valid(o, db', C)
      BY <2>1
    <3>2. Over(Restores(o), File') = C
      <4>1. File' = [p \in Pages |-> File'[p]] /\ \A p \in Pages : File'[p] \in db'[p].disk
        BY DEF FilesOK, File, Now, SeenIsLeft
      <4>2. C = [p \in Pages |-> C[p]]
        BY <3>1 DEF IsImage
      <4> QED
        BY <3>1, <4>1, <4>2, ValidRestores
    <3> QED
      BY <3>1, <3>2
  <2>2. CASE f = dir'.now
    BY <1>1, <2>1, <2>2 DEF Found
  <2>3. CASE f # dir'.now
    <3>1. /\ f \in dir.disk /\ Of(f)' = Of(f)
          /\ db' = db \/ \A C : Valid(o, db, C) => Valid(o, db', C)
      BY <2>1, <2>3 DEF Settled
    <3>2. \E C : IsImage(C, txns) /\ Valid(o, db, C)
      BY <2>1, <3>1 DEF RecInv, FilesRecover, LossRollsBack
    <3> QED
      BY <3>1, <3>2
  <2> QED
    BY <2>2, <2>3
<1>8. Q.at = "zeroed" => \E a \in Conns : pager'[a].at = "zeroed"
  BY DEF PagerInv
<1>9. ASSUME NEW C, C \in Risk' PROVE C \in Risk
  <2>0. PICK f \in dir'.disk : \E o \in Outcomes(Of(f)') : C = Over(Restores(o), File')
    <3>1. RiskKnown'
      BY RiskIs
    <3>2. \A D : D \in Risk' <=> AtRisk(D)'
      BY <1>7, <3>1 DEF RiskKnown
    <3>3. AtRisk(C)'
      BY <1>9, <3>2
    <3> QED
      BY <3>3 DEF AtRisk
  <2>1. PICK o \in Outcomes(Of(f)') : C = Over(Restores(o), File')
    BY <2>0
  <2>2. File' = [p \in Pages |-> File'[p]] /\ \A p \in Pages : File'[p] \in db'[p].disk
    BY DEF FilesOK, File, Now, SeenIsLeft
  <2>3. FilesOK /\ FilesRecover
    BY DEF PagerInv, RecInv
  <2>4. CASE f = dir'.now
    <3>1. Valid(o, db', B) /\ B = [p \in Pages |-> B[p]]
      BY <1>1, <2>1, <2>4 DEF Found, IsImage
    <3> HIDE DEF B
    <3>2. C = B
      BY <2>1, <2>2, <3>1, ValidRestores
    <3> QED
      BY <2>3, <3>2, ImageAtRisk DEF B
  <2>5. CASE f # dir'.now
    <3>1. /\ f \in dir.disk /\ Of(f)' = Of(f)
          /\ db' = db \/ \A D : Valid(o, db, D) => Valid(o, db', D)
      BY <2>1, <2>5 DEF Settled
    <3> DEFINE D == Over(Restores(o), File)
    <3>2. D = [p \in Pages |-> D[p]] /\ Valid(o, db, D)
      BY <2>1, <2>3, <3>1 DEF FilesRecover, LossRollsBack, IsImage
    <3>3. Valid(o, db', D)
      BY <3>1, <3>2
    <3> HIDE DEF D
    <3>4. C = D
      BY <2>1, <2>2, <3>2, <3>3, ValidRestores
    <3>5. AtRisk(C)
      BY <2>1, <3>1, <3>4 DEF AtRisk, D
    <3> QED
      BY <2>3, <3>5, RiskIs DEF RiskKnown, FilesRecover
  <2> QED
    BY <2>4, <2>5
<1> QED
  BY <1>1, <1>3, <1>6, <1>7, <1>8, <1>9 DEF FilesRecover

(* What the others rely on.                                                *)
LEMMA OthersRecover ==
    ASSUME NEW o \in Conns, PagerInv, RecInv, ~Owner(o), pager'[o] = pager[o], held'[o] = held[o],
           o \in reserved' <=> o \in reserved,
           held[o] < SHARED_LOCK \/ NoHeader(Found'),
           pager[o].mode = "persist" /\ dir.now # Nothing =>
               dir'.now # Nothing /\ (Settled => Settled'),
           pager[o].jfd # Nothing => pager[o].mode = "persist" /\ dir.now # Nothing,
           held[o] \in 0 .. 4,
           \/ Image' = Image
           \/ held[o] = NO_LOCK /\ Image[1].ctr \in Nat /\ Image'[1].ctr = Image[1].ctr + 1
    PROVE  Recovers(pager[o], held[o], o \in reserved, Found, dir.now, Settled, db, Image, txns)'
<1> DEFINE P == pager[o]
<1>1. Recovers(P, held[o], o \in reserved, Found, dir.now, Settled, db, Image, txns)
  BY DEF RecInv
<1>2. Fits(P, held[o], o \in reserved) /\ ~IsWriter(P) /\ held[o] # EXCLUSIVE_LOCK
  BY DEF PagerInv, Good, Owner
<1>3. ~Logging(P) /\ P.at # "play" /\ P.at \notin {"finalize", "zeroed"}
      /\ P.eState \in {"OPEN", "READER", "ERROR"}
  BY <1>2 DEF Fits, IsWriter, Logging
<1>4. P.eState = "READER" \/ P.at = "validate" => held[o] >= SHARED_LOCK
  BY <1>2 DEF Fits
<1>5. KnowsJournal(P, held[o], o \in reserved', Found', dir'.now, Settled')
  <2>1. KnowsJournal(P, held[o], o \in reserved, Found, dir.now, Settled)
    BY <1>1 DEF Recovers
  <2>2. P.eState \in {"READER", "WRITER_LOCKED"} \/ P.at = "validate" => NoHeader(Found')
    BY <1>3, <1>4
  <2>3. o \in reserved' => IsWriter(P) \/ held[o] = EXCLUSIVE_LOCK
    BY <2>1 DEF KnowsJournal
  <2>4. P.jfd # Nothing /\ ~P.dirSync /\ (P.mode = "persist" \/ IsWriter(P)) => Settled'
    BY <2>1 DEF KnowsJournal
  <2>5. /\ P.mode = "persist" /\ P.at \in {"reserved", "peek"} => dir'.now # Nothing
        /\ P.mode = "persist" /\ P.at \in {"lock", "open"} => Settled' /\ dir'.now # Nothing
    BY <2>1 DEF KnowsJournal
  <2>6. P.at \in {"journal", "reserved", "peek", "validate"} => held[o] = SHARED_LOCK
    BY <2>1 DEF KnowsJournal
  <2> QED
    BY <1>2, <2>2, <2>3, <2>4, <2>5, <2>6 DEF KnowsJournal
<1>6. ConnOK(P, Found', db', Image', txns', Settled')
  <2>1. ConnOK(P, Found, db, Image, txns, Settled)
    BY <1>1 DEF Recovers
  <2>2. P.eState = "OPEN" => OpenOK(P, Image')
    <3>1. P.eState = "OPEN" => OpenOK(P, Image) /\ P.vers \in Nat
      BY <2>1 DEF ConnOK
    <3> QED
      BY <3>1 DEF OpenOK
  <2>3. P.eState = "READER" => ReadOK(P, Image')
    <3>1. P.eState = "READER" => held[o] >= SHARED_LOCK /\ ReadOK(P, Image)
      BY <1>4, <2>1 DEF ConnOK
    <3>2. P.eState = "READER" => Image' = Image
      BY <3>1
    <3> QED
      BY <3>1, <3>2
  <2> QED
    BY <1>3, <2>1, <2>2, <2>3 DEF ConnOK, IsWriter
<1> QED
  BY <1>5, <1>6 DEF Recovers

LEMMA LinkOf ==
    ASSUME PagerInv, LinkInv, NEW o \in Conns, ~Owner(o), pager[o].jfd # Nothing
    PROVE  pager[o].mode = "persist" /\ dir.now # Nothing
  BY DEF PagerInv, Good, PagerOK, LinkInv, Links

(* A step that leaves the files alone.                                     *)
LEMMA QuietRecovers ==
    ASSUME FLP!LocksInv, PagerInv, LinkInv, RecInv, NEW c \in Conns, NEW Q,
           pager' = [pager EXCEPT ![c] = Q], OthersKeepLocks(c), UNCHANGED disk,
           \/ txns' = txns
           \/ txns' = txns + 1 /\ NoHeader(Found) /\ \A o \in Conns \ {c} : ~Owner(o),
           pager[c].at # "zeroed", Q.at # "zeroed",
           Recovers(Q, held'[c], c \in reserved', Found, dir.now, Settled, db, Image, txns')
    PROVE  Keeps
<1>1. /\ FilesRecover' /\ Image' = Image /\ Found' = Found /\ Settled' = Settled
      /\ db' = db /\ dir' = dir
  BY QuietFiles DEF disk
<1>2. txns' \in Nat
  BY DEF RecInv
<1>3. pager'[c] = Q
  BY DEF PagerInv
<1>4. ASSUME NEW o \in Conns \ {c}
      PROVE  Recovers(pager[o], held[o], o \in reserved, Found, dir.now, Settled, db, Image, txns)'
  <2>1. pager'[o] = pager[o] /\ held'[o] = held[o] /\ (o \in reserved' <=> o \in reserved)
    BY DEF PagerInv, OthersKeepLocks
  <2>2. Recovers(pager[o], held[o], o \in reserved, Found, dir.now, Settled, db, Image, txns)
    BY DEF RecInv
  <2>3. CASE txns' = txns
    BY <1>1, <2>1, <2>2, <2>3 DEF Recovers, KnowsJournal
  <2>4. CASE txns' # txns
    <3>1. ~Owner(o) /\ NoHeader(Found')
      BY <1>1, <2>4
    <3>2. held[o] \in 0 .. 4
      BY LockMoves
    <3> QED
      BY <1>1, <2>1, <3>1, <3>2, OthersRecover, LinkOf
  <2> QED
    BY <2>3, <2>4
<1>5. Recovers(pager[c], held[c], c \in reserved, Found, dir.now, Settled, db, Image, txns)'
  BY <1>1, <1>3
<1>6. Risk' = Risk
  BY DEF disk, Risk
<1> QED
  BY <1>1, <1>2, <1>4, <1>5, <1>6 DEF RecInv, Keeps

(* A step of the one connection that may write to the files.               *)
LEMMA OwnerRecovers ==
    ASSUME FLP!LocksInv, PagerInv, LinkInv, RecInv, NEW c \in Conns, NEW Q,
           pager' = [pager EXCEPT ![c] = Q], OthersKeepLocks(c), Owner(c), txns' = txns,
           held[c] = EXCLUSIVE_LOCK \/ NoHeader(Found'),
           pager[c].mode = "persist" /\ dir.now # Nothing =>
               dir'.now # Nothing /\ (Settled => Settled'),
           \/ Image' = Image
           \/ held[c] = EXCLUSIVE_LOCK /\ Image'[1].ctr = Image[1].ctr + 1,
           FilesRecover',
           Recovers(Q, held'[c], c \in reserved', Found', dir'.now, Settled', db', Image', txns')
    PROVE  RecInv'
<1>1. txns' \in Nat /\ Image[1].ctr \in Nat
  BY ImageOf DEF RecInv, FilesRecover
<1>2. pager'[c] = Q
  BY DEF PagerInv
<1>3. ASSUME NEW o \in Conns \ {c}
      PROVE  Recovers(pager[o], held[o], o \in reserved, Found, dir.now, Settled, db, Image, txns)'
  <2>1. pager'[o] = pager[o] /\ held'[o] = held[o] /\ (o \in reserved' <=> o \in reserved)
    BY DEF PagerInv, OthersKeepLocks
  <2>2. ~Owner(o)
    BY OneOwner
  <2>3. held[o] \in 0 .. 4
    BY LockMoves
  <2>4. held[c] = EXCLUSIVE_LOCK => held[o] = NO_LOCK
    BY DEF FLP!LocksInv, FLP!ExclusiveMeansAlone, FLP!EXCLUSIVE_LOCK, FLP!NO_LOCK
  <2>5. held[o] < SHARED_LOCK \/ NoHeader(Found')
    BY <2>4
  <2>6. pager[o].mode = pager[c].mode
    BY DEF LinkInv
  <2>7. pager[o].mode = "persist" /\ dir.now # Nothing => dir'.now # Nothing /\ (Settled => Settled')
    BY <2>6
  <2>8. \/ Image' = Image
        \/ held[o] = NO_LOCK /\ Image[1].ctr \in Nat /\ Image'[1].ctr = Image[1].ctr + 1
    BY <1>1, <2>4
  <2>9. pager[o].jfd # Nothing => pager[o].mode = "persist" /\ dir.now # Nothing
    BY <2>2, LinkOf
  <2> QED
    BY <2>1, <2>2, <2>3, <2>5, <2>7, <2>8, <2>9, OthersRecover
<1> QED
  BY <1>1, <1>2, <1>3 DEF RecInv

------------------------------------------------------------------------------
(* Rolling back the journal of a transaction                               *)

PageData == [by : Nat, ctr : Nat]

LEMMA LogIsRecord ==
    ASSUME NEW e, NEW txn \in Nat, IsLog(e, txn), e.pgno \in Nat, e.data \in PageData
    PROVE  IsRecord(e, txn) /\ ~IsHeader(e)
<1>1. /\ e \in [kind : {"record"}, pgno : Nat, data : PageData, nonce : Nat]
      /\ e.kind = "record" /\ e.nonce = txn
  BY DEF IsLog, Record
<1>2. e \notin {Zeros, Junk}
  BY <1>1, ValuesAssumption DEF PageData
<1> QED
  BY <1>1, <1>2 DEF IsRecord, IsHeader

LEMMA HeadIsHeader ==
    ASSUME NEW e, NEW txn \in Nat, NEW size \in Nat, IsHead(e, txn, size)
    PROVE  /\ IsHeader(e) /\ ~IsRecord(e, txn)
           /\ e.nonce = txn /\ e.nRec \in Nat /\ e.dbSize = size
<1>1. /\ e \in [kind : {"header"}, magic : BOOLEAN, nRec : Nat, nonce : Nat, dbSize : Nat]
      /\ e.kind = "header" /\ e.nonce = txn /\ e.nRec \in Nat /\ e.dbSize = size /\ e.magic
  <2>1. PICK n : n = e.nRec /\ n \in Nat /\ e = Header(TRUE, n, txn, size)
    BY DEF IsHead
  <2>2. e = [kind |-> "header", magic |-> TRUE, nRec |-> n, nonce |-> txn, dbSize |-> size]
    BY <2>1 DEF Header
  <2>3. e.kind = "header" /\ e.magic = TRUE /\ e.nRec = n /\ e.nonce = txn /\ e.dbSize = size
    BY <2>2
  <2> QED
    BY <2>1, <2>2, <2>3
<1>2. e \notin {Zeros, Junk}
  BY <1>1, ValuesAssumption
<1> QED
  BY <1>1, <1>2 DEF IsRecord, IsHeader

(* What is written of a transaction's records.                             *)
DataOK(J, end) ==
    \A i \in 1 .. end - 1 : J[i].now.kind = "record" => J[i].now.pgno \in Nat /\ J[i].now.data \in PageData

LEMMA SegmentsAreComplete ==
    ASSUME NEW J, NEW end \in 2 .. JournalLen + 1, NEW txn \in Nat, NEW size \in Nat,
           Segments(J, end, txn, size), DataOK(J, end),
           NEW o, \A i \in 1 .. end - 1 : o[i] = J[i].now,
           end <= JournalLen => ~IsHeader(o[end])
    PROVE  /\ Complete(o, end, txn) /\ IsHeader(o[1]) /\ o[1].dbSize = size
           /\ \A i \in 1 .. end - 1 : IsRecord(o[i], txn) <=> J[i].now.kind = "record"
<1> USE PagerAssumption
<1>1. \A i \in 1 .. end - 1 : IsLog(J[i].now, txn) => IsRecord(o[i], txn) /\ ~IsHeader(o[i])
  BY LogIsRecord DEF DataOK, IsLog
<1>2. \A i \in 1 .. end - 1 : IsHead(J[i].now, txn, size) =>
          /\ IsHeader(o[i]) /\ ~IsRecord(o[i], txn) /\ o[i].nonce = txn /\ o[i].nRec \in Nat /\ o[i].dbSize = size
          /\ o[i].nRec = J[i].now.nRec
  BY HeadIsHeader
<1>3. \A i \in 1 .. end - 1 : IsLog(J[i].now, txn) \/ IsHead(J[i].now, txn, size)
  BY DEF Segments
<1>4. 1 \in 1 .. end - 1 /\ IsHead(J[1].now, txn, size)
  BY DEF Segments
<1>5. ASSUME NEW h \in 1 .. end - 1, IsHeader(o[h])
      PROVE  /\ h + o[h].nRec < end
             /\ \A i \in h + 1 .. h + o[h].nRec : IsRecord(o[i], txn)
             /\ h + o[h].nRec + 1 < end => IsHeader(o[h + o[h].nRec + 1])
  <2>1. IsHead(J[h].now, txn, size)
    BY <1>1, <1>3, <1>5
  <2> DEFINE n == J[h].now.nRec
  <2>2. o[h].nRec = n /\ n \in Nat
    BY <1>2, <2>1
  <2>3. /\ h + n < end
        /\ \A i \in h + 1 .. h + n : IsLog(J[i].now, txn)
        /\ h + n + 1 < end => IsHead(J[h + n + 1].now, txn, size)
    BY <2>1 DEF Segments
  <2> HIDE DEF n
  <2>4. \A i \in h + 1 .. h + n : i \in 1 .. end - 1
    BY <2>2, <2>3
  <2>5. h + n + 1 < end => h + n + 1 \in 1 .. end - 1
    BY <2>2
  <2>6. \A i \in h + 1 .. h + n : IsRecord(o[i], txn)
    BY <1>1, <2>3, <2>4
  <2>7. h + n + 1 < end => IsHeader(o[h + n + 1])
    BY <1>2, <2>3, <2>5
  <2> QED
    BY <2>2, <2>3, <2>6, <2>7
<1>6. \A i \in 1 .. end - 1 : \/ IsRecord(o[i], txn)
                              \/ IsHeader(o[i]) /\ o[i].nonce = txn /\ o[i].nRec \in Nat
  BY <1>1, <1>2, <1>3
<1>7. Complete(o, end, txn)
  BY <1>2, <1>4, <1>5, <1>6 DEF Complete
<1>8. \A i \in 1 .. end - 1 : IsRecord(o[i], txn) <=> J[i].now.kind = "record"
  <2>1. \A i \in 1 .. end - 1 : IsRecord(o[i], txn) => J[i].now.kind = "record"
    BY DEF IsRecord
  <2>2. \A i \in 1 .. end - 1 : IsHead(J[i].now, txn, size) => J[i].now.kind # "record"
    BY DEF IsHead
  <2> QED
    BY <1>1, <1>3, <2>1, <2>2
<1> QED
  BY <1>2, <1>4, <1>7, <1>8

(* Rolling back what is left of the journal of a transaction plays the     *)
(* records of its completed segments, and of the last one if its header is *)
(* there.                                                                  *)
LEMMA LogOutcome ==
    ASSUME NEW P, NEW J, IsFile(J), LogOK(P, J), HeadOK(P, J), DataOK(J, P.off),
           P.txn \in Nat, P.origSize \in Nat,
           NEW o, o \in Outcomes(J)
    PROVE  /\ P.hdr > 1 => IsHeader(o[1])
           /\ IsHeader(o[1]) =>
                 /\ o[1].dbSize = P.origSize
                 /\ \A i \in Playback(o) : i \in 1 .. P.off - 1 /\ o[i] = J[i].now /\ J[i].now.kind = "record"
                 /\ \A i \in 1 .. P.hdr - 1 : J[i].now.kind = "record" => i \in Playback(o) /\ o[i] = J[i].now
<1> USE PagerAssumption
<1>1. IsFile(o) /\ \A i \in 1 .. JournalLen : o[i] \in J[i].disk
  BY LeftOf
<1>2. /\ P.hdr \in 1 .. JournalLen + 1 /\ P.off \in P.hdr .. JournalLen + 1
      /\ Segments(J, P.hdr, P.txn, P.origSize)
  BY DEF LogOK
<1>3. \A i \in 1 .. P.hdr - 1 : OnDisk(J[i]) /\ o[i] = J[i].now
  BY <1>1, <1>2 DEF Segments, OnDisk
<1>4. CASE P.hdr <= JournalLen => ~IsHeader(o[P.hdr])
  <2>1. CASE P.hdr = 1
    BY <1>1, <1>2, <1>4, <2>1
  <2>2. CASE P.hdr # 1
    <3>1. P.hdr \in 2 .. JournalLen + 1 /\ DataOK(J, P.hdr)
      BY <1>2, <2>2 DEF DataOK
    <3>2. /\ Complete(o, P.hdr, P.txn) /\ IsHeader(o[1]) /\ o[1].dbSize = P.origSize
          /\ \A i \in 1 .. P.hdr - 1 : IsRecord(o[i], P.txn) <=> J[i].now.kind = "record"
      BY <1>2, <1>3, <1>4, <3>1, SegmentsAreComplete
    <3>3. Playback(o) = {i \in 1 .. P.hdr - 1 : IsRecord(o[i], P.txn)}
      BY <1>1, <3>1, <3>2, PlaybackReads
    <3>4. \A i \in 1 .. P.hdr - 1 : i \in 1 .. P.off - 1
      BY <1>2
    <3> QED
      BY <1>3, <3>2, <3>3, <3>4
  <2> QED
    BY <2>1, <2>2
<1>5. CASE P.hdr <= JournalLen /\ IsHeader(o[P.hdr])
  <2>1. o[P.hdr] \in J[P.hdr].disk /\ P.hdr \in 1 .. JournalLen
    BY <1>1, <1>2, <1>5
  <2>2. P.at \in {"header", "failed"}
    BY <1>5, <2>1 DEF HeadOK, Stops
  <2>3. /\ o[P.hdr] = Header(TRUE, P.off - P.hdr - 1, P.txn, P.origSize)
        /\ P.hdr < P.off
        /\ \A i \in P.hdr + 1 .. P.off - 1 : OnDisk(J[i]) /\ IsLog(J[i].now, P.txn)
        /\ Stops(J, P.off)
    BY <1>5, <2>1, <2>2 DEF HeadOK
  <2> DEFINE K == [J EXCEPT ![P.hdr] = Synced(o[P.hdr])]
  <2>4. K[P.hdr] = Synced(o[P.hdr]) /\ \A i \in 1 .. JournalLen : i # P.hdr => K[i] = J[i]
    BY <2>1 DEF IsFile
  <2>5. \A i \in 1 .. P.off - 1 : i \in 1 .. JournalLen
    BY <1>2
  <2> HIDE DEF K
  <2>6. \A i \in 1 .. P.hdr - 1 : K[i].now = J[i].now /\ OnDisk(K[i])
    BY <1>2, <1>3, <2>4, <2>5
  <2>7. Segments(K, P.hdr, P.txn, P.origSize)
    BY <1>2, <2>6, SegmentsSame
  <2>8. K[P.hdr].now = Header(TRUE, P.off - P.hdr - 1, P.txn, P.origSize) /\ OnDisk(K[P.hdr])
    BY <2>3, <2>4 DEF Synced, OnDisk
  <2>9. \A i \in P.hdr + 1 .. P.off - 1 : K[i] = J[i]
    BY <1>2, <2>4, <2>5
  <2>10. \A i \in 1 .. P.off - 1 : OnDisk(K[i])
    <3>1. \A i \in 1 .. P.off - 1 : i \in 1 .. P.hdr - 1 \/ i = P.hdr \/ i \in P.hdr + 1 .. P.off - 1
      BY <1>2
    <3> QED
      BY <2>3, <2>6, <2>8, <2>9, <3>1
  <2>11. P.off \in P.hdr + 1 .. JournalLen + 1
    BY <1>2, <2>3
  <2>12. \A i \in P.hdr + 1 .. P.off - 1 : IsLog(K[i].now, P.txn)
    BY <2>3, <2>9
  <2>13. Segments(K, P.off, P.txn, P.origSize)
    BY <2>1, <2>7, <2>8, <2>10, <2>11, <2>12, SegmentCompleted
  <2>14. \A i \in 1 .. P.off - 1 : o[i] = K[i].now
    <3>1. \A i \in 1 .. P.off - 1 : i \in 1 .. JournalLen /\ (i # P.hdr => o[i] \in J[i].disk /\ OnDisk(J[i]) /\ K[i] = J[i])
      BY <1>1, <2>4, <2>5, <2>10
    <3> QED
      BY <2>4, <3>1 DEF OnDisk, Synced
  <2>15. DataOK(K, P.off)
    BY <2>4, <2>5, <2>8 DEF DataOK, Header
  <2>16. P.off <= JournalLen => ~IsHeader(o[P.off])
    BY <1>1, <1>2, <2>3 DEF Stops
  <2>17. P.off \in 2 .. JournalLen + 1
    BY <2>1, <2>11
  <2>18. /\ Complete(o, P.off, P.txn) /\ IsHeader(o[1]) /\ o[1].dbSize = P.origSize
         /\ \A i \in 1 .. P.off - 1 : IsRecord(o[i], P.txn) <=> K[i].now.kind = "record"
    BY <2>13, <2>14, <2>15, <2>16, <2>17, SegmentsAreComplete
  <2>19. Playback(o) = {i \in 1 .. P.off - 1 : IsRecord(o[i], P.txn)}
    BY <1>1, <2>17, <2>18, PlaybackReads
  <2>20. \A i \in 1 .. P.off - 1 : K[i].now.kind = "record" => K[i] = J[i]
    BY <2>4, <2>5, <2>8 DEF Header
  <2>21. \A i \in 1 .. P.hdr - 1 : i \in 1 .. P.off - 1 /\ K[i].now = J[i].now
    BY <1>2, <2>6
  <2> QED
    BY <2>14, <2>18, <2>19, <2>20, <2>21
<1> QED
  BY <1>4, <1>5

LEMMA SizeOfImage ==
    ASSUME NEW B, NEW t \in Nat, IsImage(B, t), NEW n, SizeIs(B, n)
    PROVE  /\ n \in Nat \ {0} /\ n \in Pages /\ 1 .. n \subseteq Pages
           /\ \A p \in 1 .. n : B[p] # Nothing /\ B[p] \in PageData
           /\ \A p \in Pages : p > n => B[p] = Nothing
  BY PagerAssumption, ImageOf DEF SizeIs, Pages, PageData

(* Whatever is left of the journal of a transaction, rolling it back leads *)
(* to the image that it started from.                                      *)
LEMMA LogIsValid ==
    ASSUME NEW P, NEW J, IsFile(J), LogOK(P, J), HeadOK(P, J), P.txn \in Nat,
           NEW B, NEW t \in Nat, IsImage(B, t), SizeIs(B, P.origSize), LogsOld(P, J, B),
           NEW file, Untouched(P, J, file, B), P.hdr = 1 => Clean(file, B)
    PROVE  /\ \A o \in Outcomes(J) : Valid(o, file, B)
           /\ \A p : LogsPage(J, P.hdr, p) => Covers(J, p)
           /\ P.hdr = 1 \/ \A o \in Outcomes(J) : IsHeader(o[1])
<1>1. /\ P.origSize \in Nat /\ P.origSize \in Pages /\ 1 .. P.origSize \subseteq Pages
      /\ \A p \in 1 .. P.origSize : B[p] # Nothing /\ B[p] \in PageData
      /\ \A p \in Pages : p > P.origSize => B[p] = Nothing
  BY SizeOfImage
<1>2. DataOK(J, P.off)
  BY <1>1 DEF DataOK, LogsOld
<1>3. ASSUME NEW o \in Outcomes(J)
      PROVE  /\ P.hdr > 1 => IsHeader(o[1])
             /\ IsHeader(o[1]) =>
                 /\ o[1].dbSize = P.origSize
                 /\ \A i \in Playback(o) : i \in 1 .. P.off - 1 /\ o[i] = J[i].now /\ J[i].now.kind = "record"
                 /\ \A i \in 1 .. P.hdr - 1 : J[i].now.kind = "record" => i \in Playback(o) /\ o[i] = J[i].now
  BY <1>1, <1>2, LogOutcome
<1>4. P.hdr \in Nat \ {0}
  BY PagerAssumption DEF LogOK
<1>5. ASSUME NEW o \in Outcomes(J) PROVE Valid(o, file, B)
  <2>1. CASE ~IsHeader(o[1])
    BY <1>3, <1>4, <2>1 DEF Valid
  <2>2. CASE IsHeader(o[1])
    <3>1. \A i \in Playback(o) : o[i].pgno \in Pages /\ o[i].data = B[o[i].pgno]
      BY <1>1, <1>3, <2>2 DEF LogsOld
    <3>2. ASSUME NEW p \in Pages
          PROVE  \/ p > P.origSize \/ \E i \in Playback(o) : o[i].pgno = p
                 \/ file[p].disk = {B[p]}
      <4>1. p > P.origSize \/ p \in 1 .. P.origSize
        BY <1>1, PagerAssumption DEF Pages
      <4>2. LogsPage(J, P.hdr, p) => \E i \in Playback(o) : o[i].pgno = p
        BY <1>3, <2>2 DEF LogsPage
      <4> QED
        BY <4>1, <4>2 DEF Untouched
    <3> QED
      BY <1>1, <1>3, <2>2, <3>1, <3>2 DEF Valid
  <2> QED
    BY <2>1, <2>2
<1>6. ASSUME NEW p, LogsPage(J, P.hdr, p) PROVE Covers(J, p)
  <2>1. P.hdr > 1
    BY <1>4, <1>6 DEF LogsPage
  <2> QED
    BY <1>3, <1>6, <2>1 DEF LogsPage, Covers
<1> QED
  BY <1>3, <1>4, <1>5, <1>6

(* What is known of a connection whose transaction is logging.             *)
LEMMA LoggingFacts ==
    ASSUME FLP!LocksInv, PagerInv, LinkInv, RecInv, NEW c \in Conns, Logging(pager[c])
    PROVE  LET P == pager[c] IN
           /\ P.jfd \in Journals /\ dir.now = P.jfd /\ P.jfd # Nothing /\ Found = jrnl[P.jfd] /\ Journal(c) = jrnl[P.jfd]
           /\ IsFile(Found) /\ \A i \in 1 .. JournalLen : Found[i].now \in Found[i].disk
           /\ LogOK(P, Found) /\ LogMore(P, Found, db, Image, txns) /\ ModOK(P, db, Image, txns)
           /\ P.txn = txns /\ txns \in Nat \ {0} /\ txns - 1 \in Nat
           /\ IsImage(Image, txns - 1) /\ SizeIs(Image, P.origSize)
           /\ P.hdr = 1 => Clean(db, Image)
           /\ Owner(c)
<1> DEFINE P == pager[c]
<1>1. /\ PagerOK(P) /\ JournalOK(P, jrnl) /\ FilesOK
  BY DEF PagerInv, Good
<1>2. P.jfd \in Journals /\ LogOK(P, jrnl[P.jfd])
  BY <1>1 DEF JournalOK
<1>3. P.jfd # Nothing /\ dir.now = P.jfd
  BY <1>2, PagerAssumption DEF LinkInv, Links
<1>4. Found = jrnl[P.jfd]
  BY <1>3 DEF Found, Of
<1>5. IsFile(Found) /\ \A i \in 1 .. JournalLen : Found[i].now \in Found[i].disk
  BY <1>1, <1>2, <1>3, OfIsFile DEF Found, RecInv, FilesRecover
<1>6. ConnOK(P, Found, db, Image, txns, Settled)
  BY DEF RecInv, Recovers
<1>7. P.eState \in {"WRITER_CACHEMOD", "WRITER_DBMOD"}
  BY DEF Logging
<1>8. LogMore(P, Found, db, Image, txns) /\ ModOK(P, db, Image, txns)
  BY <1>6, <1>7 DEF ConnOK
<1>9. P.hdr = 1 => Clean(db, Image)
  BY <1>8 DEF LogMore, ModOK
<1>10. Owner(c)
  BY <1>7 DEF Owner, IsWriter
<1>11. P.txn = txns /\ txns \in Nat \ {0} /\ IsImage(Image, txns - 1) /\ SizeIs(Image, P.origSize)
  BY <1>8 DEF ModOK
<1> QED
  BY <1>2, <1>3, <1>4, <1>5, <1>8, <1>9, <1>10, <1>11 DEF Journal

------------------------------------------------------------------------------
(* Readers                                                                 *)

(* Where no header is left, the database is what rolling back makes of it. *)
LEMMA CleanIfNone ==
    ASSUME PagerInv, RecInv, NoHeader(Found)
    PROVE  Clean(db, Image) /\ File = Image
<1>1. FilesOK /\ SeenIsLeft /\ IsImage(Image, txns)
  BY DEF PagerInv, RecInv, FilesRecover
<1>2. Clean(db, Image)
  <2>1. CASE Committed
    BY <2>1 DEF RecInv, FilesRecover
  <2>2. CASE ~Committed
    <3>1. IsFile(Found) /\ \A i \in 1 .. JournalLen : Found[i].now \in Found[i].disk
      BY <1>1, OfIsFile DEF Found, FilesOK
    <3>2. Now(Found) \in Outcomes(Found) /\ \A i \in 1 .. JournalLen : Now(Found)[i] = Found[i].now
      BY <3>1, NowIsLeft
    <3>3. Valid(Now(Found), db, Image)
      BY <2>2, <3>2 DEF RecInv, FilesRecover
    <3>4. ~IsHeader(Now(Found)[1])
      BY <3>1, <3>2, PagerAssumption DEF NoHeader
    <3> QED
      BY <3>3, <3>4 DEF Valid
  <2> QED
    BY <2>1, <2>2
<1>3. \A p \in Pages : db[p].now = Image[p]
  BY <1>1, <1>2 DEF SeenIsLeft, Clean
<1>4. File = Image
  BY <1>1, <1>3, FileIs DEF IsImage
<1> QED
  BY <1>2, <1>4

(* A header goes with an EXCLUSIVE lock, or is hot.                        *)
LEMMA WriterSeen ==
    ASSUME FLP!LocksInv, RecInv, NEW c \in Conns, NEW o \in Conns \ {c}, IsWriter(pager[o]),
           held[c] # NO_LOCK
    PROVE  NoHeader(Found)
<1>1. held[o] = EXCLUSIVE_LOCK => held[c] = NO_LOCK
  BY DEF FLP!LocksInv, FLP!ExclusiveMeansAlone, FLP!EXCLUSIVE_LOCK, FLP!NO_LOCK
<1>2. KnowsJournal(pager[o], held[o], o \in reserved, Found, dir.now, Settled)
  BY DEF RecInv, Recovers
<1> QED
  BY <1>1, <1>2 DEF KnowsJournal

LEMMA ZeroedSeen ==
    ASSUME FLP!LocksInv, PagerInv, RecInv, NEW c \in Conns, ~Owner(c), held[c] # NO_LOCK,
           NEW o \in Conns, pager[o].at = "zeroed"
    PROVE  NoHeader(Found)
<1>1. Owner(o) /\ o # c
  BY FinalizerOwns
<1>2. held[o] # EXCLUSIVE_LOCK
  BY <1>1 DEF FLP!LocksInv, FLP!ExclusiveMeansAlone, FLP!EXCLUSIVE_LOCK, FLP!NO_LOCK
<1> QED
  BY <1>1, <1>2, WriterSeen DEF Owner

(* A pager in the OPEN state without a hot journal.                        *)
LEMMA OpenConn ==
    ASSUME NEW Q, Q.eState = "OPEN", Q.at \notin {"play", "finalize", "zeroed"},
           Q.vers \in Nat, Q.txn = 0, Q.todo = {}, IsCache(Q), NEW J, NEW file, NEW B, NEW t, NEW settled, OpenOK(Q, B)
    PROVE  ConnOK(Q, J, file, B, t, settled)
  BY DEF ConnOK, Logging

LEMMA SharedLockRecovers ==
    ASSUME FLP!LocksInv, PagerInv, LinkInv, RecInv, NEW c \in Conns,
           Share(c) \/ LookForJournal(c) \/ CheckReservedLock(c) \/ PeekAtJournal(c)
           \/ LockForRollback(c)
    PROVE  Keeps
<1> DEFINE P == pager[c]
<1>1. PagerOK(P) /\ Fits(P, held[c], c \in reserved)
  BY DEF PagerInv, Good
<1>2. P.eState = "OPEN" /\ P.at \in {"idle", "journal", "reserved", "peek", "lock"}
      /\ ~IsWriter(P)
  BY <1>1 DEF Share, LookForJournal, CheckReservedLock, PeekAtJournal, LockForRollback,
            At, Idle, Fits, IsWriter
<1>3. UNCHANGED disk /\ OthersKeepLocks(c) /\ txns' = txns
  BY LockMoves DEF Share, LookForJournal, CheckReservedLock, PeekAtJournal, LockForRollback
<1>4. /\ ConnOK(P, Found, db, Image, txns, Settled)
      /\ KnowsJournal(P, held[c], c \in reserved, Found, dir.now, Settled)
  BY DEF RecInv, Recovers
<1>5. P.vers \in Nat /\ P.txn = 0 /\ P.todo = {} /\ IsCache(P) /\ OpenOK(P, Image)
  BY <1>2, <1>4 DEF ConnOK
<1>6. held[c] \in 0 .. 4
  BY LockMoves
<1>7. ASSUME NEW at \in {"journal", "validate", "reserved", "peek", "lock", "open"},
             pager' = [pager EXCEPT ![c] = [P EXCEPT !.at = at]],
             at \in {"journal", "reserved", "peek", "validate"} => held'[c] = SHARED_LOCK,
             at = "validate" => NoHeader(Found),
             c \in reserved' => held'[c] = EXCLUSIVE_LOCK,
             P.mode = "persist" /\ at \in {"reserved", "peek"} => dir.now # Nothing,
             P.mode = "persist" /\ at \in {"lock", "open"} => Settled /\ dir.now # Nothing
      PROVE  Keeps
  <2> DEFINE Q == [P EXCEPT !.at = at]
  <2>1. Differs(P, Q, {"at"}) /\ Q.at = at
    BY <1>1 DEF PagerOK, IsPager, Fields, Differs
  <2>2. pager' = [pager EXCEPT ![c] = Q]
    BY <1>7
  <2> HIDE DEF Q
  <2>3. /\ Q.eState = P.eState /\ Q.vers = P.vers /\ Q.txn = P.txn /\ Q.todo = P.todo /\ Q.cache = P.cache
        /\ Q.mode = P.mode /\ Q.jfd = P.jfd /\ Q.dirSync = P.dirSync
    BY <2>1 DEF Differs, Fields
  <2>4. OpenOK(Q, Image) /\ IsCache(Q)
    BY <1>5, <2>3 DEF IsCache, OpenOK, EmptyCache, CacheOf
  <2>5. ConnOK(Q, Found, db, Image, txns', Settled)
    BY <1>2, <1>5, <1>7, <2>1, <2>3, <2>4, OpenConn
  <2>6. KnowsJournal(Q, held'[c], c \in reserved', Found, dir.now, Settled)
    BY <1>2, <1>4, <1>7, <2>1, <2>3 DEF KnowsJournal, IsWriter
  <2>7. pager[c].at # "zeroed" /\ Q.at # "zeroed"
    BY <1>2, <1>7, <2>1
  <2> QED
    BY <1>3, <2>2, <2>5, <2>6, <2>7, QuietRecovers DEF Recovers
<1>8. c \notin reserved \/ held[c] = EXCLUSIVE_LOCK
  BY <1>2, <1>4 DEF KnowsJournal
<1>9. CASE Share(c)
  <2>1. FL!Share(c) /\ held'[c] = SHARED_LOCK /\ held[c] = NO_LOCK /\ reserved' = reserved
    BY <1>9, LockMoves DEF Share, FL!Share, FL!NO_LOCK
  <2>2. pager' = [pager EXCEPT ![c] = [P EXCEPT !.at = "journal"]]
    BY <1>9, GotoSets DEF Share
  <2> QED
    BY <1>8, <2>1, <2>2, <1>7
<1>10. CASE LookForJournal(c)
  <2> DEFINE at == IF dir.now = Nothing THEN "validate" ELSE "reserved"
  <2>1. UNCHANGED locks /\ P.at = "journal"
    BY <1>10 DEF LookForJournal, At
  <2>2. pager' = [pager EXCEPT ![c] = [P EXCEPT !.at = at]]
    BY <1>10, GotoSets DEF LookForJournal
  <2>3. held'[c] = SHARED_LOCK /\ reserved' = reserved /\ c \notin reserved
    BY <1>4, <1>8, <2>1 DEF KnowsJournal, locks
  <2>4. dir.now = Nothing => NoHeader(Found)
    BY PagerAssumption DEF NoHeader, Found, Of, Blank, Synced, IsHeader
  <2>5. at \in {"validate", "reserved"} /\ (at = "validate" <=> dir.now = Nothing)
    OBVIOUS
  <2> HIDE DEF at
  <2> QED
    BY <2>2, <2>3, <2>4, <2>5, <1>7
<1>11. CASE CheckReservedLock(c)
  <2> DEFINE at == IF reserved # {} THEN "validate" ELSE "peek"
  <2>1. UNCHANGED locks /\ P.at = "reserved"
    BY <1>11 DEF CheckReservedLock, At
  <2>2. pager' = [pager EXCEPT ![c] = [P EXCEPT !.at = at]]
    BY <1>11, GotoSets DEF CheckReservedLock
  <2>3. held[c] = SHARED_LOCK /\ held'[c] = SHARED_LOCK /\ reserved' = reserved /\ c \notin reserved
    BY <1>4, <1>8, <2>1 DEF KnowsJournal, locks
  <2>4. reserved # {} => NoHeader(Found)
    <3>1. SUFFICES ASSUME NEW o \in reserved PROVE NoHeader(Found)
      OBVIOUS
    <3>2. o \in Conns \ {c}
      BY <2>3 DEF FLP!LocksInv, FLP!TypeOK
    <3>3. held[o] # EXCLUSIVE_LOCK
      BY <2>3, <3>2 DEF FLP!LocksInv, FLP!ExclusiveMeansAlone, FLP!EXCLUSIVE_LOCK, FLP!NO_LOCK
    <3>4. KnowsJournal(pager[o], held[o], o \in reserved, Found, dir.now, Settled)
      BY <3>2 DEF RecInv, Recovers
    <3>5. IsWriter(pager[o])
      BY <3>3, <3>4 DEF KnowsJournal
    <3> QED
      BY <2>3, <3>2, <3>5, WriterSeen
  <2>5. at \in {"validate", "peek"} /\ (at = "validate" <=> reserved # {})
    OBVIOUS
  <2>6. P.mode = "persist" => dir.now # Nothing
    BY <1>4, <2>1 DEF KnowsJournal
  <2> HIDE DEF at
  <2> QED
    BY <2>2, <2>3, <2>4, <2>5, <2>6, <1>7
<1>12. CASE PeekAtJournal(c)
  <2> DEFINE first == IF dir.now = Nothing THEN Junk ELSE jrnl[dir.now][1].now
  <2>1. UNCHANGED locks /\ P.at = "peek"
    BY <1>12 DEF PeekAtJournal, At
  <2>2. held[c] = SHARED_LOCK /\ held'[c] = SHARED_LOCK /\ reserved' = reserved /\ c \notin reserved
    BY <1>4, <1>8, <2>1 DEF KnowsJournal, locks
  <2>3. dir.now # Nothing => first = Found[1].now
    BY DEF Found, Of
  <2>4. P.mode = "persist" => dir.now # Nothing
    BY <1>4, <2>1 DEF KnowsJournal
  <2>5. \/ (first = Junk \/ IsHeader(first)) /\ Goto(c, "lock")
        \/ ~IsHeader(first) /\ dir.now # Nothing /\ Goto(c, "validate")
    BY <1>12 DEF PeekAtJournal
  <2> HIDE DEF first
  <2>6. CASE (first = Junk \/ IsHeader(first)) /\ Goto(c, "lock")
    <3>1. P.mode = "persist" => Settled
      <4>1. SUFFICES ASSUME P.mode = "persist" PROVE Settled
        OBVIOUS
      <4>2. Found[1].now = Junk \/ IsHeader(Found[1].now)
        BY <2>3, <2>4, <2>6, <4>1
      <4>3. Found[1].now \in Found[1].disk
        <5>1. 1 \in 1 .. JournalLen
          BY PagerAssumption
        <5>2. FilesOK /\ SeenIsLeft
          BY DEF PagerInv, RecInv, FilesRecover
        <5> QED
          BY <5>1, <5>2, OfIsFile DEF Found, FilesOK
      <4>4. Found[1].now = Junk \/ ~NoHeader(Found)
        BY <4>2, <4>3 DEF NoHeader
      <4> QED
        BY <4>4 DEF RecInv, FilesRecover
    <3>2. pager' = [pager EXCEPT ![c] = [P EXCEPT !.at = "lock"]]
      BY <2>6, GotoSets
    <3> QED
      BY <2>2, <2>4, <3>1, <3>2, <1>7
  <2>7. CASE ~IsHeader(first) /\ dir.now # Nothing /\ Goto(c, "validate")
    <3>1. NoHeader(Found)
      <4>1. ~IsHeader(Found[1].now)
        BY <2>3, <2>7
      <4>2. NoHeader(Found) \/ \E o \in Conns : pager[o].at = "zeroed"
        BY <4>1 DEF RecInv, FilesRecover
      <4>3. ~Owner(c) /\ held[c] # NO_LOCK
        BY <1>2, <2>2 DEF Owner
      <4> QED
        BY <4>2, <4>3, ZeroedSeen
    <3>2. pager' = [pager EXCEPT ![c] = [P EXCEPT !.at = "validate"]]
      BY <2>7, GotoSets
    <3> QED
      BY <2>2, <2>4, <3>1, <3>2, <1>7
  <2> QED
    BY <2>5, <2>6, <2>7
<1>13. CASE LockForRollback(c)
  <2>1. P.at = "lock"
    BY <1>13 DEF LockForRollback, At
  <2>2. P.mode = "persist" => Settled /\ dir.now # Nothing
    BY <1>4, <2>1 DEF KnowsJournal
  <2>3. CASE FL!Pend(c) /\ UNCHANGED pager
    <3>1. pager' = [pager EXCEPT ![c] = P]
      BY <2>3 DEF PagerInv
    <3>2. [P EXCEPT !.at = "lock"] = P
      BY <1>1, <2>1 DEF PagerOK, IsPager, Fields
    <3>6. reserved' = reserved /\ held[c] \in {1, 2}
      BY <2>3, LockMoves
    <3>3. reserved' = reserved /\ held[c] # EXCLUSIVE_LOCK
      BY <3>6
    <3>4. c \notin reserved'
      BY <1>8, <3>3
    <3>5. pager' = [pager EXCEPT ![c] = [P EXCEPT !.at = "lock"]]
      BY <3>1, <3>2
    <3> QED
      BY <2>2, <3>4, <3>5, <1>7
  <2>4. CASE FL!Exclude(c) /\ Goto(c, "open")
    <3>1. held'[c] = EXCLUSIVE_LOCK
      BY <2>4, LockMoves
    <3>2. pager' = [pager EXCEPT ![c] = [P EXCEPT !.at = "open"]]
      BY <2>4, GotoSets
    <3> QED
      BY <2>2, <3>1, <3>2, <1>7
  <2> QED
    BY <1>13, <2>3, <2>4 DEF LockForRollback
<1> QED
  BY <1>9, <1>10, <1>11, <1>12, <1>13

(* The fields of a pager that goes back to its first states.               *)
LEMMA FreshFields ==
    ASSUME NEW m, NEW Q, Q = Fresh(m)
    PROVE  Q.vers = 0 /\ Q.txn = 0 /\ Q.todo = {} /\ Q.dirSync = FALSE /\ EmptyCache(Q) /\ IsCache(Q)
  BY DEF Fresh, EmptyCache, IsCache

LEMMA ClosedFields ==
    ASSUME NEW P, NEW Q, Q = Closed(P)
    PROVE  Q.vers = P.vers /\ Q.txn = 0 /\ Q.todo = {} /\ Q.cache = P.cache
  BY DEF Fresh, Closed

LEMMA EmptiedFields ==
    ASSUME NEW P, PagerOK(P), NEW Q, Q = Emptied(P)
    PROVE  Differs(P, Q, {"cache"}) /\ EmptyCache(Q) /\ IsCache(Q)
  BY DEF IsCache, PagerOK, IsPager, Fields, Differs, EmptyCache, Emptied

LEMMA BrokenFields ==
    ASSUME NEW P, PagerOK(P), NEW Q, Q = Broken(P)
    PROVE  Q.vers = P.vers /\ Q.txn = 0 /\ EmptyCache(Q) /\ IsCache(Q)
<1> DEFINE E == Emptied(P)
           C == Closed(E)
<1>1. Differs(P, E, {"cache"}) /\ EmptyCache(E) /\ IsCache(E)
  BY EmptiedFields
<1>2. C.vers = E.vers /\ C.txn = 0 /\ C.cache = E.cache
  BY ClosedFields
<1>3. E.vers = P.vers
  BY <1>1 DEF Differs, Fields
<1>4. Q = [C EXCEPT !.eState = "ERROR"]
  BY DEF Broken
<1>5. C = [Fresh(E.mode) EXCEPT !.cache = E.cache, !.vers = E.vers]
  BY DEF Closed
<1>6. Q.vers = C.vers /\ Q.txn = C.txn /\ Q.cache = C.cache
  <2> HIDE DEF E
  <2> QED
    BY <1>4, <1>5 DEF Fresh
<1> QED
  BY <1>1, <1>2, <1>3, <1>6 DEF EmptyCache, IsCache

LEMMA EndedFields ==
    ASSUME NEW P, PagerOK(P), NEW Q, Q = Ended(P)
    PROVE  /\ Q.vers = P.vers /\ Q.txn = 0 /\ Q.todo = {} /\ Q.size = P.size
           /\ Q.dirSync = (P.mode = "persist" /\ P.dirSync) /\ IsCache(Q)
           /\ \A p \in Pages : Q.cache[p] = IF p > P.size THEN Nothing ELSE P.cache[p]
<1> DEFINE C == Closed(P)
           cache == [p \in Pages |-> IF p > P.size THEN Nothing ELSE P.cache[p]]
           jfd   == IF P.mode = "persist" THEN P.jfd ELSE Nothing
           sync  == P.mode = "persist" /\ P.dirSync
           size  == P.size
<1>1. PagerOK(C) /\ C.vers = P.vers /\ C.txn = 0 /\ C.todo = {}
  BY ClosedIsOpen, ClosedFields
<1>2. Q = [C EXCEPT !.eState = "READER", !.size = size, !.cache = cache, !.jfd = jfd, !.dirSync = sync]
  BY DEF Ended
<1>3. \A p \in Pages : cache[p] = IF p > P.size THEN Nothing ELSE P.cache[p]
  OBVIOUS
<1>5. cache = [p \in Pages |-> cache[p]]
  OBVIOUS
<1> HIDE DEF C, cache, jfd, sync, size
<1>4. /\ Q.vers = C.vers /\ Q.txn = C.txn /\ Q.todo = C.todo /\ Q.size = size /\ Q.cache = cache /\ Q.dirSync = sync
  <2>1. IsPager(C)
    BY <1>1 DEF PagerOK
  <2> QED
    BY <1>2, <2>1, SMTT(30) DEF IsPager, Fields
<1> QED
  BY <1>1, <1>3, <1>4, <1>5 DEF sync, size, IsCache

(* A cache that was good is good later on.                                 *)
LEMMA ReadIsOpen ==
    ASSUME NEW P, NEW B, NEW t \in Nat, IsImage(B, t), ReadOK(P, B)
    PROVE  OpenOK(P, B) /\ P.vers \in Nat
<1>1. B[1].ctr \in 0 .. t
  BY ImageOf
<1> QED
  BY <1>1 DEF ReadOK, OpenOK

LEMMA ClosedRecovers ==
    ASSUME NEW Q, Q.eState = "OPEN", Q.at = "idle", Q.job = "none", Q.jfd = Nothing,
           Q.vers \in Nat, Q.txn = 0, Q.todo = {}, IsCache(Q), NEW B, OpenOK(Q, B),
           NEW level, NEW res, ~res,
           NEW J, NEW now, NEW settled, NEW file, NEW t
    PROVE  Recovers(Q, level, res, J, now, settled, file, B, t)
<1>1. ConnOK(Q, J, file, B, t, settled)
  BY OpenConn
<1>2. KnowsJournal(Q, level, res, J, now, settled)
  BY DEF KnowsJournal, IsWriter
<1> QED
  BY <1>1, <1>2 DEF Recovers

LEMMA LostIsFree ==
    ASSUME NEW c \in Conns, FL!Lose({c}) PROVE c \notin reserved'
  BY DEF FL!Lose

LEMMA GiveUpRecovers ==
    ASSUME FLP!LocksInv, PagerInv, LinkInv, RecInv, NEW c \in Conns, GiveUpRollback(c) \/ Unlock(c)
    PROVE  Keeps
<1> DEFINE P == pager[c]
           Q == Closed(P)
<1>1. PagerOK(P) /\ Fits(P, held[c], c \in reserved)
  BY DEF PagerInv, Good
<1>2. pager' = [pager EXCEPT ![c] = Q] /\ UNCHANGED disk /\ txns' = txns
  BY DEF GiveUpRollback, Unlock, Set
<1>3. OthersKeepLocks(c) /\ held'[c] = NO_LOCK /\ FL!Lose({c})
  BY LockMoves DEF GiveUpRollback, Unlock
<1>4. Q.eState = "OPEN" /\ Q.at = "idle" /\ Q.job = "none" /\ Q.jfd = Nothing
      /\ Q.vers = P.vers /\ Q.txn = 0 /\ Q.todo = {} /\ Q.cache = P.cache
  BY <1>1, ClosedIsOpen, ClosedFields
<1> HIDE DEF Q
<1>5. P.eState \in {"OPEN", "READER", "ERROR"} /\ P.at # "zeroed"
  BY <1>1 DEF GiveUpRollback, Unlock, At, Idle, Fits
<1>6. P.vers \in Nat /\ OpenOK(P, Image) /\ IsCache(P)
  <2>1. ConnOK(P, Found, db, Image, txns, Settled) /\ IsImage(Image, txns) /\ txns \in Nat
    BY DEF RecInv, FilesRecover, Recovers
  <2>2. P.vers \in Nat /\ IsCache(P) /\ (OpenOK(P, Image) \/ EmptyCache(P) \/ ReadOK(P, Image))
    BY <1>5, <2>1 DEF ConnOK
  <2>3. EmptyCache(P) => OpenOK(P, Image)
    BY DEF OpenOK
  <2> QED
    BY <2>1, <2>2, <2>3, ReadIsOpen
<1>7. OpenOK(Q, Image) /\ IsCache(Q)
  BY <1>4, <1>6 DEF IsCache, OpenOK, EmptyCache, CacheOf
<1>8. c \notin reserved'
  BY <1>3, LostIsFree
<1>9. Recovers(Q, held'[c], c \in reserved', Found, dir.now, Settled, db, Image, txns')
  BY <1>4, <1>6, <1>7, <1>8, ClosedRecovers
<1> QED
  BY <1>2, <1>3, <1>4, <1>5, <1>9, QuietRecovers

LEMMA SizeIsOne ==
    ASSUME NEW B, NEW t \in Nat, IsImage(B, t)
    PROVE  SizeIs(B, SizeOf(B))
<1>1. PICK n \in Pages : SizeIs(B, n)
  BY DEF IsImage
<1>2. B[n] # Nothing /\ \A p \in Pages : p > n => B[p] = Nothing
  BY <1>1, PagerAssumption DEF SizeIs, Pages
<1>3. \A m \in Pages : B[m] # Nothing /\ (\A p \in Pages : p > m => B[p] = Nothing) => m = n
  <2>1. SUFFICES ASSUME NEW m \in Pages, B[m] # Nothing, \A p \in Pages : p > m => B[p] = Nothing
                 PROVE m = n
    OBVIOUS
  <2>2. ~(m > n) /\ ~(n > m)
    BY <1>2, <2>1
  <2> QED
    BY <2>2, PagerAssumption DEF Pages
<1>4. SizeOf(B) = n
  BY <1>2, <1>3 DEF SizeOf
<1> QED
  BY <1>1, <1>4

LEMMA ValidateRecovers ==
    ASSUME FLP!LocksInv, PagerInv, LinkInv, RecInv, NEW c \in Conns, Validate(c)
    PROVE  Keeps
<1> DEFINE P == pager[c]
           B == Image
<1>1. PagerOK(P) /\ Fits(P, held[c], c \in reserved) /\ P.at = "validate"
  BY DEF PagerInv, Good, Validate, At
<1>2. UNCHANGED <<locks, disk>> /\ OthersKeepLocks(c) /\ held'[c] = held[c] /\ reserved' = reserved /\ txns' = txns
  BY LockMoves DEF Validate
<1>3. /\ ConnOK(P, Found, db, B, txns, Settled)
      /\ KnowsJournal(P, held[c], c \in reserved, Found, dir.now, Settled)
      /\ IsImage(B, txns) /\ txns \in Nat
  BY DEF RecInv, FilesRecover, Recovers
<1>4. P.eState = "OPEN"
  BY <1>1 DEF Fits
<1>5. P.vers \in Nat /\ P.txn = 0 /\ IsCache(P) /\ OpenOK(P, B)
  BY <1>3, <1>4 DEF ConnOK
<1>6. NoHeader(Found) /\ File = B
  BY <1>1, <1>3, CleanIfNone DEF KnowsJournal
<1>7. 1 \in Pages /\ db[1].now = B[1]
  BY <1>6, FileIs, PagerAssumption DEF PagerInv, Pages
<1>8. Counter(db[1].now) = B[1].ctr /\ B[1].ctr \in Nat /\ B[1] # Nothing
  <2>1. B[1] \in [by : Nat, ctr : Nat] /\ B[1] # Nothing
    BY <1>3, ImageOf
  <2>2. B[1] # Junk
    BY <2>1, ValuesAssumption
  <2> QED
    BY <1>7, <2>1, <2>2 DEF Counter
<1> DEFINE same == P.vers = Counter(db[1].now)
           R == IF P.cache # Emptied(P).cache /\ ~same THEN Emptied(P) ELSE P
           vers  == IF R.cache[1] = Nothing THEN Counter(db[1].now) ELSE R.vers
           cache == [R.cache EXCEPT ![1] = IF @ = Nothing THEN db[1].now ELSE @]
           size  == SizeOf(File)
           Q == [R EXCEPT !.eState = "READER", !.at = "idle", !.size = size,
                          !.vers = vers, !.cache = cache]
<1>9. Differs(P, R, {"cache"}) /\ IsCache(R)
      /\ (EmptyCache(R) \/ (R.vers = B[1].ctr /\ CacheOf(R, B)))
  <2>1. CASE P.cache # Emptied(P).cache /\ ~same
    BY <1>1, <2>1, EmptiedFields
  <2>2. CASE P.cache = Emptied(P).cache
    <3>1. EmptyCache(P)
      BY <1>1, <2>2, EmptiedFields DEF EmptyCache
    <3>2. R = P
      BY <2>2
    <3> QED
      BY <1>1, <1>5, <3>1, <3>2 DEF Differs, PagerOK
  <2>3. CASE same
    <3>1. R = P
      BY <2>3
    <3>2. EmptyCache(P) \/ CacheOf(P, B)
      BY <1>5, <1>8, <2>3 DEF OpenOK
    <3>3. P.vers = B[1].ctr
      BY <1>8, <2>3
    <3> HIDE DEF R, same, B
    <3> QED
      BY <1>1, <1>5, <3>1, <3>2, <3>3 DEF Differs, PagerOK
  <2> QED
    BY <2>1, <2>2, <2>3
<1>10. pager' = [pager EXCEPT ![c] = Q]
  BY <1>1, <1>9 DEF Validate, Set, Differs, IsPager, Fields
<1> DEFINE v == Counter(db[1].now)
<1>11. SizeIs(B, size)
  BY <1>3, <1>6, SizeIsOne
<1>12. /\ vers = B[1].ctr
       /\ cache = [p \in Pages |-> cache[p]]
       /\ cache[1] = B[1] /\ \A p \in Pages : cache[p] \in {Nothing, B[p]}
  <2>1. \A p \in Pages : p # 1 => cache[p] = R.cache[p]
    BY <1>9 DEF IsCache
  <2>2. cache[1] = IF R.cache[1] = Nothing THEN B[1] ELSE R.cache[1]
    BY <1>7, <1>9 DEF IsCache
  <2>3. cache = [p \in Pages |-> cache[p]]
    BY <1>9 DEF IsCache
  <2>4. \A p \in Pages : R.cache[p] \in {Nothing, B[p]}
    BY <1>9 DEF EmptyCache, CacheOf
  <2>5. vers = B[1].ctr
    BY <1>7, <1>8, <1>9 DEF EmptyCache
  <2> HIDE DEF cache, vers, R, B
  <2> QED
    BY <1>7, <2>1, <2>2, <2>3, <2>4, <2>5
<1> HIDE DEF R, vers, cache, size
<1>13. /\ IsPager(Q) /\ Q.eState = "READER" /\ Q.at = "idle" /\ Q.size = size /\ Q.vers = vers /\ Q.cache = cache
       /\ Q.txn = R.txn /\ Q.mode = R.mode /\ Q.jfd = R.jfd /\ Q.dirSync = R.dirSync
  <2>1. IsPager(R)
    BY <1>9 DEF Differs
  <2> QED
    BY <2>1 DEF IsPager, Fields
<1>14. Q.txn = 0 /\ Q.mode = P.mode /\ Q.jfd = P.jfd /\ Q.dirSync = P.dirSync
  BY <1>5, <1>9, <1>13 DEF Differs, Fields
<1> HIDE DEF Q
<1>15. ReadOK(Q, B) /\ IsCache(Q) /\ Q.vers \in Nat
  BY <1>8, <1>11, <1>12, <1>13 DEF ReadOK, CacheOf, IsCache
<1>16. ConnOK(Q, Found, db, B, txns', Settled)
  BY <1>13, <1>14, <1>15 DEF ConnOK, Logging
<1>17. KnowsJournal(Q, held'[c], c \in reserved', Found, dir.now, Settled)
  BY <1>2, <1>3, <1>4, <1>6, <1>13, <1>14 DEF KnowsJournal, IsWriter
<1>18. UNCHANGED disk /\ P.at # "zeroed" /\ Q.at # "zeroed"
  BY <1>1, <1>2, <1>13
<1> QED
  BY <1>2, <1>10, <1>16, <1>17, <1>18, QuietRecovers DEF Recovers

------------------------------------------------------------------------------
(* Transactions, up to the first write to the database                     *)

LEMMA BeginRecovers ==
    ASSUME FLP!LocksInv, PagerInv, LinkInv, RecInv, NEW c \in Conns, Begin(c)
    PROVE  Keeps
<1> DEFINE P == pager[c]
           B == Image
           Q == [P EXCEPT !.eState = "WRITER_LOCKED", !.txn = txns + 1,
                          !.origSize = P.size, !.off = 0]
<1>1. PagerOK(P) /\ Fits(P, held[c], c \in reserved) /\ P.eState = "READER" /\ P.at = "idle"
  BY DEF PagerInv, Good, Begin, Idle
<1>2. pager' = [pager EXCEPT ![c] = Q] /\ UNCHANGED disk /\ txns' = txns + 1
  BY DEF Begin, Set
<1>3. OthersKeepLocks(c) /\ held'[c] = RESERVED_LOCK /\ c \in reserved'
  BY LockMoves DEF Begin
<1>4. held[c] = SHARED_LOCK /\ reserved = {}
  BY DEF Begin, FL!Reserve, FL!SHARED_LOCK
<1>5. \A o \in Conns \ {c} : ~Owner(o)
  <2>1. \A o \in Conns \ {c} : held[o] # EXCLUSIVE_LOCK
    BY <1>4 DEF FLP!LocksInv, FLP!ExclusiveMeansAlone, FLP!EXCLUSIVE_LOCK, FLP!NO_LOCK
  <2>2. \A o \in Conns : ~IsWriter(pager[o])
    BY <1>4 DEF PagerInv, Good, Fits
  <2> QED
    BY <2>1, <2>2 DEF Owner
<1>6. /\ ConnOK(P, Found, db, B, txns, Settled)
      /\ KnowsJournal(P, held[c], c \in reserved, Found, dir.now, Settled)
      /\ IsImage(B, txns) /\ txns \in Nat
  BY DEF RecInv, FilesRecover, Recovers
<1>7. /\ ReadOK(P, B) /\ P.vers \in Nat /\ IsCache(P) /\ NoHeader(Found)
  BY <1>1, <1>6 DEF ConnOK, KnowsJournal
<1>8. Differs(P, Q, {"eState", "txn", "origSize", "off"})
      /\ Q.eState = "WRITER_LOCKED" /\ Q.txn = txns + 1 /\ Q.origSize = P.size
  BY <1>1 DEF PagerOK, IsPager, Fields, Differs
<1> HIDE DEF Q
<1>9. /\ Q.vers = P.vers /\ Q.size = P.size /\ Q.cache = P.cache /\ Q.at = "idle"
      /\ Q.mode = P.mode /\ Q.jfd = P.jfd /\ Q.dirSync = P.dirSync
  BY <1>1, <1>8 DEF Differs, Fields
<1>10. ReadOK(Q, B) /\ IsCache(Q)
  BY <1>7, <1>9 DEF ReadOK, IsCache, CacheOf
<1>11. LockedOK(Q, B, txns')
  BY <1>2, <1>6, <1>8, <1>9 DEF LockedOK
<1>12. ConnOK(Q, Found, db, B, txns', Settled)
  BY <1>7, <1>8, <1>9, <1>10, <1>11 DEF ConnOK, Logging
<1>13. P.jfd # Nothing => P.mode = "persist"
  <2>1. ~Owner(c)
    BY <1>1, <1>4 DEF Owner, IsWriter
  <2> QED
    BY <2>1, LinkOf
<1>14. KnowsJournal(Q, held'[c], c \in reserved', Found, dir.now, Settled)
  BY <1>6, <1>7, <1>8, <1>9, <1>13 DEF KnowsJournal, IsWriter
<1> QED
  BY <1>1, <1>2, <1>3, <1>5, <1>7, <1>9, <1>12, <1>14, QuietRecovers DEF Recovers

(* A pager of an ended transaction.                                        *)
LEMMA ReaderAgain ==
    ASSUME NEW P, NEW Q, PagerOK(P), Q = Ended(P),
           NEW B, \A p \in 1 .. P.size : P.cache[p] \in {Nothing, B[p]}, P.cache[1] = B[1],
           P.vers = B[1].ctr, SizeIs(B, P.size),
           B[1].ctr \in Nat, NEW file, NEW t, NEW settled,
           P.mode = "persist" /\ P.jfd # Nothing /\ ~P.dirSync => settled,
           NEW J, NoHeader(J), NEW level, NEW res, ~res, NEW now
    PROVE  Recovers(Q, level, res, J, now, settled, file, B, t)
<1>1. /\ PagerOK(Q) /\ Q.mode = P.mode
      /\ Q.jfd = (IF P.mode = "persist" THEN P.jfd ELSE Nothing)
      /\ Q.eState = "READER" /\ Q.at = "idle" /\ Q.job = "none"
  BY EndedIsReader
<1>2. /\ Q.vers = P.vers /\ Q.txn = 0 /\ Q.size = P.size
      /\ Q.dirSync = (P.mode = "persist" /\ P.dirSync) /\ IsCache(Q)
      /\ \A p \in Pages : Q.cache[p] = IF p > P.size THEN Nothing ELSE P.cache[p]
  BY EndedFields
<1>3. ReadOK(Q, B)
  <2>1. P.size \in Pages /\ 1 \in Pages /\ ~(1 > P.size)
    BY PagerAssumption DEF SizeIs, Pages
  <2>2. \A p \in Pages : ~(p > P.size) => p \in 1 .. P.size
    BY <2>1 DEF Pages
  <2>3. CacheOf(Q, B)
    BY <1>2, <2>2 DEF CacheOf
  <2> QED
    BY <1>2, <2>1, <2>3 DEF ReadOK
<1>4. ConnOK(Q, J, file, B, t, settled)
  BY <1>1, <1>2, <1>3 DEF ConnOK, Logging
<1>5. KnowsJournal(Q, level, res, J, now, settled)
  BY <1>1, <1>2 DEF KnowsJournal, IsWriter
<1> QED
  BY <1>4, <1>5 DEF Recovers

LEMMA DownIsFree ==
    ASSUME NEW c \in Conns, FL!Downgrade(c) PROVE c \notin reserved'
  BY DEF FL!Downgrade

LEMMA EndUnwrittenRecovers ==
    ASSUME FLP!LocksInv, PagerInv, LinkInv, RecInv, NEW c \in Conns, EndUnwritten(c)
    PROVE  Keeps
<1> DEFINE P == pager[c]
           B == Image
           Q == Ended(P)
<1>1. PagerOK(P) /\ Fits(P, held[c], c \in reserved) /\ P.eState = "WRITER_LOCKED" /\ P.at = "idle"
  BY DEF PagerInv, Good, EndUnwritten, Idle
<1>2. pager' = [pager EXCEPT ![c] = Q] /\ UNCHANGED disk /\ txns' = txns
  BY DEF EndUnwritten, Set
<1>3. OthersKeepLocks(c) /\ held'[c] = SHARED_LOCK /\ c \notin reserved'
  BY LockMoves, DownIsFree DEF EndUnwritten
<1>4. /\ ConnOK(P, Found, db, B, txns, Settled)
      /\ KnowsJournal(P, held[c], c \in reserved, Found, dir.now, Settled)
      /\ IsImage(B, txns) /\ txns \in Nat
  BY DEF RecInv, FilesRecover, Recovers
<1>5. /\ ReadOK(P, B) /\ NoHeader(Found)
      /\ P.mode = "persist" /\ P.jfd # Nothing /\ ~P.dirSync => Settled
  BY <1>1, <1>4 DEF ConnOK, KnowsJournal
<1>6. B[1].ctr \in Nat
  BY <1>4, ImageOf
<1>7. Recovers(Q, held'[c], c \in reserved', Found, dir.now, Settled, db, B, txns')
  <2> HIDE DEF Q
  <2>1. Q = Ended(P)
    BY DEF Q
  <2>2. /\ P.cache[1] = B[1] /\ P.vers = B[1].ctr /\ SizeIs(B, P.size)
        /\ \A p \in 1 .. P.size : P.cache[p] \in {Nothing, B[p]}
    <3>1. \A p \in 1 .. P.size : p \in Pages
      <4>1. P.size \in Pages
        BY <1>5 DEF ReadOK, SizeIs
      <4> QED
        BY <4>1, PagerAssumption DEF Pages
    <3> QED
      BY <1>5, <3>1 DEF ReadOK, CacheOf
  <2> QED
    BY <1>1, <1>3, <1>5, <1>6, <2>1, <2>2, ReaderAgain
<1>8. P.at # "zeroed" /\ Q.at # "zeroed"
  BY <1>1, EndedIsReader
<1> HIDE DEF Q
<1> QED
  BY <1>2, <1>3, <1>7, <1>8, QuietRecovers

(* A transaction that comes a step nearer to a write.                      *)
LEMMA LogGoesOn ==
    ASSUME NEW P, NEW Q, Differs(P, Q, {"at", "job", "spilled"}), Logging(P),
           P.at \in {"idle", "exclusive"}, Q.at \in {"idle", "exclusive", "records", "write"},
           Q.at = "write" => Q.job = "spill", Q.job \in {"none", "spill"} \/ Q.job = P.job,
           Q.job = "spill" => Q.spilled # 1,
           NEW J, NEW file, NEW B, NEW t, NEW settled, ConnOK(P, J, file, B, t, settled)
    PROVE  ConnOK(Q, J, file, B, t, settled)
<1>1. /\ Q.eState = P.eState /\ Q.cache = P.cache /\ Q.vers = P.vers /\ Q.size = P.size
      /\ Q.txn = P.txn /\ Q.origSize = P.origSize /\ Q.dirty = P.dirty /\ Q.inJournal = P.inJournal
      /\ Q.jfd = P.jfd /\ Q.hdr = P.hdr /\ Q.off = P.off
  BY DEF Differs, Fields
<1>2. P.eState \in {"WRITER_CACHEMOD", "WRITER_DBMOD"} /\ P.job # "rollback" /\ Q.job # "rollback"
  BY DEF Logging
<1>3. ModOK(P, file, B, t) /\ LogMore(P, J, file, B, t) /\ P.vers \in Nat /\ IsCache(P)
  BY <1>2 DEF ConnOK
<1>4. ModOK(Q, file, B, t)
  BY <1>1, <1>2, <1>3 DEF ModOK
<1>5. LogMore(Q, J, file, B, t)
  <2>1. LogsOld(Q, J, B) /\ (Q.hdr = 1 <=> Q.eState = "WRITER_CACHEMOD")
        /\ (Q.hdr = 1 => J[1].now.kind = "header") /\ Untouched(Q, J, file, B) /\ PagesOK(Q, file, t)
    BY <1>1, <1>3 DEF LogMore, LogsOld, Untouched, PagesOK
  <2>2. HeadOK(Q, J)
    BY <1>1, <1>3 DEF LogMore, HeadOK
  <2>3. VersOK(Q, B, t)
    BY <1>1, <1>3 DEF LogMore, VersOK
  <2> QED
    BY <2>1, <2>2, <2>3 DEF LogMore
<1>6. IsCache(Q)
  BY <1>1, <1>3 DEF IsCache
<1> QED
  BY <1>1, <1>2, <1>3, <1>4, <1>5, <1>6 DEF ConnOK

(* What is known of the journal depends on the state, not on the stage.    *)
LEMMA WriterKnows ==
    ASSUME NEW P, NEW Q, IsWriter(P), IsWriter(Q), Q.eState = "WRITER_LOCKED" => P.eState = "WRITER_LOCKED",
           Q.at \notin {"journal", "reserved", "peek", "validate", "lock", "open"},
           Q.mode = P.mode, Q.jfd = P.jfd, Q.dirSync = P.dirSync,
           NEW level, NEW lev, NEW res, NEW now, NEW settled, NEW J, KnowsJournal(P, level, res, J, now, settled),
           level = EXCLUSIVE_LOCK => lev = EXCLUSIVE_LOCK, NEW r, IsWriter(Q)
    PROVE  KnowsJournal(Q, lev, r, J, now, settled)
  BY DEF KnowsJournal, IsWriter

LEMMA LogGoesOnRecovers ==
    ASSUME FLP!LocksInv, PagerInv, LinkInv, RecInv, NEW c \in Conns, NEW Q,
           Logging(pager[c]), Differs(pager[c], Q, {"at", "job", "spilled"}),
           pager[c].at \in {"idle", "exclusive"}, Q.at \in {"idle", "exclusive", "records", "write"},
           Q.at = "write" => Q.job = "spill", Q.job \in {"none", "spill"} \/ Q.job = pager[c].job,
           Q.job = "spill" => Q.spilled # 1,
           pager' = [pager EXCEPT ![c] = Q], UNCHANGED disk, txns' = txns,
           OthersKeepLocks(c), held[c] = EXCLUSIVE_LOCK => held'[c] = EXCLUSIVE_LOCK
    PROVE  Keeps
<1> DEFINE P == pager[c]
<1>1. ConnOK(P, Found, db, Image, txns, Settled)
      /\ KnowsJournal(P, held[c], c \in reserved, Found, dir.now, Settled)
  BY DEF RecInv, Recovers
<1>2. ConnOK(Q, Found, db, Image, txns', Settled)
  BY <1>1, LogGoesOn
<1>3. Q.eState = P.eState /\ Q.mode = P.mode /\ Q.jfd = P.jfd /\ Q.dirSync = P.dirSync
  BY DEF Differs, Fields
<1>4. IsWriter(P) /\ IsWriter(Q) /\ P.eState # "WRITER_LOCKED"
  BY <1>3 DEF Logging, IsWriter
<1>5. KnowsJournal(Q, held'[c], c \in reserved', Found, dir.now, Settled)
  BY <1>1, <1>3, <1>4, WriterKnows
<1>6. P.at # "zeroed" /\ Q.at # "zeroed"
  OBVIOUS
<1> QED
  BY <1>2, <1>5, <1>6, QuietRecovers DEF Recovers

LEMMA SpillRecovers ==
    ASSUME FLP!LocksInv, PagerInv, LinkInv, RecInv, NEW c \in Conns, NEW p \in Pages, Spill(c, p)
    PROVE  Keeps
<1> DEFINE P == pager[c]
           at == IF p \in P.needSync \/ P.eState = "WRITER_CACHEMOD"
                   THEN ToExclusive(c) ELSE "write"
           Q == [P EXCEPT !.job = "spill", !.spilled = p, !.at = at]
<1>1. PagerOK(P) /\ Fits(P, held[c], c \in reserved) /\ P.at = "idle"
  BY DEF PagerInv, Good, Spill, Idle
<1>2. /\ pager' = [pager EXCEPT ![c] = Q] /\ UNCHANGED disk /\ UNCHANGED locks /\ txns' = txns
      /\ P.eState \in {"WRITER_CACHEMOD", "WRITER_DBMOD"} /\ p # 1
  BY DEF Spill, Set, Writing
<1>3. Differs(P, Q, {"at", "job", "spilled"}) /\ Q.job = "spill" /\ Q.spilled = p /\ Q.at = at
  BY <1>1 DEF PagerOK, IsPager, Fields, Differs
<1> HIDE DEF Q
<1>4. held'[c] = held[c] /\ OthersKeepLocks(c)
  BY <1>2, LockMoves
<1>5. at \in {"exclusive", "records", "write"}
  BY DEF ToExclusive
<1> HIDE DEF at
<1>6. Logging(P)
  BY <1>1, <1>2 DEF Fits, Logging
<1> QED
  BY <1>1, <1>2, <1>3, <1>4, <1>5, <1>6, LogGoesOnRecovers

LEMMA ExclusiveLockRecovers ==
    ASSUME FLP!LocksInv, PagerInv, LinkInv, RecInv, NEW c \in Conns, ExclusiveLock(c)
    PROVE  Keeps
<1> DEFINE P == pager[c]
<1>1. /\ PagerOK(P) /\ Fits(P, held[c], c \in reserved) /\ P.at = "exclusive"
      /\ UNCHANGED disk /\ txns' = txns
  BY DEF PagerInv, Good, ExclusiveLock, At
<1>2. Logging(P) /\ (P.job = "spill" => P.spilled # 1)
  <2>1. Logging(P)
    BY <1>1 DEF Fits, Logging
  <2>2. LogMore(P, Found, db, Image, txns)
    BY <2>1, LoggingFacts
  <2> QED
    BY <2>1, <2>2 DEF LogMore, VersOK
<1>3. CASE FL!Pend(c) /\ UNCHANGED pager
  <2>1. pager' = [pager EXCEPT ![c] = P]
    BY <1>3 DEF PagerInv
  <2>2. held[c] \in {1, 2} /\ OthersKeepLocks(c)
    BY <1>3, LockMoves
  <2>3. held[c] # EXCLUSIVE_LOCK
    BY <2>2
  <2>4. Differs(P, P, {"at", "job", "spilled"})
    BY <1>1 DEF Differs, PagerOK
  <2> QED
    BY <1>1, <1>2, <2>1, <2>2, <2>3, <2>4, LogGoesOnRecovers
<1>4. CASE FL!Exclude(c) /\ Goto(c, "records")
  <2> DEFINE Q == [P EXCEPT !.at = "records"]
  <2>1. pager' = [pager EXCEPT ![c] = Q]
    BY <1>4, GotoSets
  <2>2. held'[c] = EXCLUSIVE_LOCK /\ OthersKeepLocks(c)
    BY <1>4, LockMoves
  <2>3. Differs(P, Q, {"at", "job", "spilled"}) /\ Q.at = "records" /\ Q.job = P.job /\ Q.spilled = P.spilled
    BY <1>1 DEF PagerOK, IsPager, Fields, Differs
  <2> HIDE DEF Q
  <2> QED
    BY <1>1, <1>2, <2>1, <2>2, <2>3, LogGoesOnRecovers
<1>5. CASE UNCHANGED locks /\ Set(c, [P EXCEPT !.at = "idle", !.job = "none"])
  <2> DEFINE Q == [P EXCEPT !.at = "idle", !.job = "none"]
  <2>1. pager' = [pager EXCEPT ![c] = Q]
    BY <1>5 DEF Set
  <2>2. held'[c] = held[c] /\ OthersKeepLocks(c)
    BY <1>5, LockMoves
  <2>3. Differs(P, Q, {"at", "job", "spilled"}) /\ Q.at = "idle" /\ Q.job = "none"
    BY <1>1 DEF PagerOK, IsPager, Fields, Differs
  <2> HIDE DEF Q
  <2> QED
    BY <1>1, <1>2, <2>1, <2>2, <2>3, LogGoesOnRecovers
<1> QED
  BY <1>3, <1>4, <1>5 DEF ExclusiveLock

(* A page that is read is a page of the database, or one that the          *)
(* transaction has already spilled.                                        *)
LEMMA ReadPageRecovers ==
    ASSUME FLP!LocksInv, PagerInv, LinkInv, RecInv, NEW c \in Conns, NEW p \in Pages, ReadPage(c, p)
    PROVE  Keeps
<1> DEFINE P == pager[c]
           B == Image
           Q == [P EXCEPT !.cache[p] = db[p].now]
<1>1. /\ PagerOK(P) /\ Fits(P, held[c], c \in reserved) /\ P.at = "idle"
      /\ P.eState \notin {"OPEN", "ERROR"} /\ P.cache[p] = Nothing
  BY DEF PagerInv, Good, ReadPage, Idle
<1>2. pager' = [pager EXCEPT ![c] = Q] /\ UNCHANGED disk /\ UNCHANGED locks /\ txns' = txns
  BY DEF ReadPage, Set
<1>3. OthersKeepLocks(c) /\ held'[c] = held[c] /\ reserved' = reserved
  BY <1>2, LockMoves
<1>4. /\ ConnOK(P, Found, db, B, txns, Settled)
      /\ KnowsJournal(P, held[c], c \in reserved, Found, dir.now, Settled)
      /\ IsImage(B, txns) /\ txns \in Nat
  BY DEF RecInv, FilesRecover, Recovers
<1>5. IsCache(P) /\ P.vers \in Nat
  BY <1>4 DEF ConnOK
<1>6. Differs(P, Q, {"cache"})
  BY <1>1 DEF PagerOK, IsPager, Fields, Differs
<1>7. /\ Q.cache[p] = db[p].now /\ \A q \in Pages : q # p => Q.cache[q] = P.cache[q]
      /\ IsCache(Q)
  <2> DEFINE cache == [P.cache EXCEPT ![p] = db[p].now]
  <2>1. Q.cache = cache
    BY <1>1 DEF PagerOK, IsPager, Fields
  <2>2. cache[p] = db[p].now /\ (\A q \in Pages : q # p => cache[q] = P.cache[q])
        /\ cache = [q \in Pages |-> cache[q]]
    BY <1>5 DEF IsCache
  <2> HIDE DEF cache, Q
  <2> QED
    BY <2>1, <2>2 DEF IsCache
<1> HIDE DEF Q
<1>8. /\ Q.eState = P.eState /\ Q.at = P.at /\ Q.job = P.job /\ Q.vers = P.vers /\ Q.size = P.size
      /\ Q.txn = P.txn /\ Q.origSize = P.origSize /\ Q.dirty = P.dirty /\ Q.inJournal = P.inJournal
      /\ Q.jfd = P.jfd /\ Q.hdr = P.hdr /\ Q.off = P.off /\ Q.mode = P.mode /\ Q.dirSync = P.dirSync
      /\ Q.spilled = P.spilled
  BY <1>6 DEF Differs, Fields
<1>9. KnowsJournal(Q, held'[c], c \in reserved', Found, dir.now, Settled)
  BY <1>3, <1>4, <1>8 DEF KnowsJournal, IsWriter
<1>10. P.eState \in {"READER", "WRITER_LOCKED", "WRITER_CACHEMOD", "WRITER_DBMOD"} /\ P.job # "rollback"
  BY <1>1 DEF Fits
<1>11. CASE P.eState \in {"READER", "WRITER_LOCKED"}
  <2>1. NoHeader(Found) /\ ReadOK(P, B)
    BY <1>4, <1>11 DEF ConnOK, KnowsJournal
  <2>2. db[p].now = B[p]
    BY <2>1, CleanIfNone, FileIs DEF PagerInv
  <2>3. p # 1
    BY <1>1, <1>4, <2>1, ImageOf DEF ReadOK
  <2>4. 1 \in Pages
    BY PagerAssumption DEF Pages
  <2>5. ReadOK(Q, B)
    BY <1>7, <1>8, <2>1, <2>2, <2>3, <2>4 DEF ReadOK, CacheOf
  <2>6. P.eState = "WRITER_LOCKED" => LockedOK(Q, B, txns)
    BY <1>4, <1>8 DEF ConnOK, LockedOK
  <2>7. P.eState = "READER" => P.txn = 0
    BY <1>4 DEF ConnOK
  <2>8. ConnOK(Q, Found, db, B, txns', Settled)
    BY <1>1, <1>2, <1>5, <1>7, <1>8, <1>11, <2>5, <2>6, <2>7 DEF ConnOK, Logging
  <2> QED
    BY <1>1, <1>2, <1>3, <1>8, <1>9, <2>8, QuietRecovers DEF Recovers
<1>12. CASE P.eState \in {"WRITER_CACHEMOD", "WRITER_DBMOD"}
  <2>1. Logging(P) /\ ModOK(P, db, B, txns) /\ LogMore(P, Found, db, B, txns)
    BY <1>4, <1>10, <1>12 DEF ConnOK, Logging
  <2>2. p # 1 /\ 1 \in Pages
    BY <1>1, <2>1, PagerAssumption DEF ModOK, Pages
  <2>3. ModOK(Q, db, B, txns)
    BY <1>7, <1>8, <1>10, <2>1, <2>2 DEF ModOK
  <2>4. p \notin P.dirty
    <3>1. ~Own(P.cache[p], txns)
      BY <1>1, <2>1, ValuesAssumption DEF Own, Page, ModOK
    <3> QED
      BY <2>1, <3>1 DEF LogMore, PagesOK
  <2>5. LogMore(Q, Found, db, B, txns)
    <3>1. LogsOld(Q, Found, B) /\ (Q.hdr = 1 <=> Q.eState = "WRITER_CACHEMOD")
          /\ (Q.hdr = 1 => Found[1].now.kind = "header") /\ Untouched(Q, Found, db, B)
      BY <1>8, <2>1 DEF LogMore, LogsOld, Untouched
    <3>2. HeadOK(Q, Found)
      BY <1>8, <2>1 DEF LogMore, HeadOK
    <3>3. VersOK(Q, B, txns)
      BY <1>7, <1>8, <2>1, <2>2 DEF LogMore, VersOK
    <3>4. PagesOK(Q, db, txns)
      <4>1. PagesOK(P, db, txns)
        BY <2>1 DEF LogMore
      <4>2. P.dirty \subseteq Pages
        BY <2>1, <4>1, PagerAssumption DEF PagesOK, ModOK, Pages
      <4>3. \A q \in P.dirty : Q.cache[q] = P.cache[q]
        BY <1>7, <2>4, <4>2
      <4>4. \A q \in Pages \ P.dirty : Q.cache[q] \in {Nothing, db[q].now}
        BY <1>7, <4>1 DEF PagesOK
      <4> QED
        BY <1>8, <4>1, <4>3, <4>4 DEF PagesOK
    <3> QED
      BY <3>1, <3>2, <3>3, <3>4 DEF LogMore
  <2>6. ConnOK(Q, Found, db, B, txns', Settled)
    BY <1>1, <1>2, <1>5, <1>7, <1>8, <1>12, <2>3, <2>5 DEF ConnOK
  <2> QED
    BY <1>1, <1>2, <1>3, <1>8, <1>9, <2>6, QuietRecovers DEF Recovers
<1> QED
  BY <1>10, <1>11, <1>12

(* What the journal holds of a page that is in it.                         *)
LEMMA LoggedData ==
    ASSUME NEW P, NEW J, NEW B, NEW t \in Nat, IsImage(B, t), SizeIs(B, P.origSize),
           P.txn \in Nat, LogsOld(P, J, B), NEW p, Logged(J, p, P.off, P.txn)
    PROVE  /\ p \in 1 .. P.origSize
           /\ \E i \in 1 .. P.off - 1 : /\ IsRecord(J[i].now, P.txn) /\ J[i].now.pgno = p
                                        /\ J[i].now.kind = "record" /\ J[i].now.data = B[p]
<1>1. PICK i \in 1 .. P.off - 1 : IsLogOf(J[i].now, p, P.txn)
  BY DEF Logged
<1> DEFINE e == J[i].now
<1>2. e.kind = "record" /\ e.pgno = p /\ IsLog(e, P.txn)
  BY <1>1 DEF IsLogOf, IsLog, Record
<1>3. p \in 1 .. P.origSize /\ e.data = B[p]
  BY <1>1, <1>2 DEF LogsOld
<1>4. B[p] \in PageData /\ p \in Nat
  BY <1>3, SizeOfImage
<1> HIDE DEF e
<1>5. IsRecord(e, P.txn)
  BY <1>2, <1>3, <1>4, LogIsRecord
<1> QED
  BY <1>1, <1>2, <1>3, <1>5 DEF e

LEMMA RollbackCacheRecovers ==
    ASSUME FLP!LocksInv, PagerInv, LinkInv, RecInv, NEW c \in Conns, RollbackCache(c)
    PROVE  Keeps
<1> DEFINE P == pager[c]
           B == Image
           J == Found
           old(p) == CHOOSE e \in {Journal(c)[i].now : i \in 2 .. P.off - 1} :
                         IsRecord(e, P.txn) /\ e.pgno = p
           restored == [p \in Pages |-> IF p \in P.inJournal THEN old(p).data ELSE P.cache[p]]
           Q == [P EXCEPT !.cache = restored, !.size = P.origSize,
                          !.job = "rollback", !.at = "finalize"]
<1>1. /\ PagerOK(P) /\ Fits(P, held[c], c \in reserved) /\ P.at \in {"idle", "failed"}
      /\ P.eState = "WRITER_CACHEMOD"
  BY DEF PagerInv, Good, RollbackCache, Idle, At
<1>2. pager' = [pager EXCEPT ![c] = Q] /\ UNCHANGED disk /\ UNCHANGED locks /\ txns' = txns
  BY DEF RollbackCache, Set
<1>3. OthersKeepLocks(c) /\ held'[c] = held[c] /\ reserved' = reserved
  BY <1>2, LockMoves
<1>4. /\ ConnOK(P, J, db, B, txns, Settled)
      /\ KnowsJournal(P, held[c], c \in reserved, J, dir.now, Settled)
      /\ IsImage(B, txns) /\ txns \in Nat
  BY DEF RecInv, FilesRecover, Recovers
<1>5. Logging(P)
  BY <1>1 DEF Fits, Logging
<1>6. /\ Journal(c) = J /\ LogOK(P, J) /\ LogMore(P, J, db, B, txns) /\ ModOK(P, db, B, txns)
      /\ P.txn \in Nat /\ txns - 1 \in Nat /\ IsImage(B, txns - 1) /\ SizeIs(B, P.origSize) /\ P.jfd # Nothing
  BY <1>5, LoggingFacts
<1>7. /\ P.hdr = 1 /\ J[1].now.kind = "header" /\ Clean(db, B) /\ P.vers = B[1].ctr
      /\ LogsOld(P, J, B) /\ PagesOK(P, db, txns)
  BY <1>1, <1>6 DEF LogMore, ModOK, VersOK
<1>8. SeenIsLeft /\ P.origSize \in Pages /\ B[1] # Nothing /\ 1 \in Pages
  <2>1. SeenIsLeft
    BY DEF RecInv, FilesRecover
  <2>2. B[1] # Nothing
    BY <1>4, ImageOf
  <2>3. P.origSize \in Pages /\ 1 \in Pages
    BY <1>6, PagerAssumption DEF SizeIs, Pages
  <2> QED
    BY <2>1, <2>2, <2>3
<1>9. \A p \in Pages : db[p].now = B[p]
  BY <1>7, <1>8 DEF Clean, SeenIsLeft
<1>10. ASSUME NEW p \in P.inJournal PROVE p \in 1 .. P.origSize /\ old(p).data = B[p]
  <2>1. Logged(J, p, P.off, P.txn)
    BY <1>6 DEF LogOK
  <2>2. PICK i \in 1 .. P.off - 1 : /\ IsRecord(J[i].now, P.txn) /\ J[i].now.pgno = p
                                    /\ J[i].now.kind = "record" /\ J[i].now.data = B[p]
    BY <1>6, <1>7, <2>1, LoggedData
  <2>3. p \in 1 .. P.origSize
    BY <1>6, <1>7, <2>1, LoggedData
  <2>4. i \in 2 .. P.off - 1
    BY <1>7, <2>2
  <2> DEFINE S == {J[k].now : k \in 2 .. P.off - 1}
  <2>5. \E e \in S : IsRecord(e, P.txn) /\ e.pgno = p
    BY <2>2, <2>4
  <2>6. old(p) \in S /\ IsRecord(old(p), P.txn) /\ old(p).pgno = p
    BY <1>6, <2>5
  <2>7. PICK k \in 2 .. P.off - 1 : old(p) = J[k].now
    BY <2>6
  <2>8. k \in 1 .. P.off - 1
    OBVIOUS
  <2>9. old(p).data = B[p]
    BY <1>7, <2>6, <2>7, <2>8 DEF LogsOld, IsRecord
  <2> QED
    BY <2>3, <2>9
<1>11. \A p \in 1 .. P.origSize : p \in Pages /\ restored[p] \in {Nothing, B[p]} /\ (P.cache[p] # Nothing => restored[p] # Nothing)
  <2>1. SUFFICES ASSUME NEW p \in 1 .. P.origSize
                 PROVE  p \in Pages /\ restored[p] \in {Nothing, B[p]} /\ (P.cache[p] # Nothing => restored[p] # Nothing)
    OBVIOUS
  <2>2. p \in Pages /\ B[p] # Nothing
    BY <1>6, SizeOfImage
  <2>3. CASE p \in P.inJournal
    <3>1. restored[p] = old(p).data
      BY <2>2, <2>3
    <3>2. old(p).data = B[p]
      BY <1>10, <2>3
    <3> QED
      BY <2>2, <3>1, <3>2
  <2>4. CASE p \notin P.inJournal
    <3>1. p \notin P.dirty
      BY <1>6, <2>1, <2>4 DEF LogOK
    <3>2. P.cache[p] \in {Nothing, B[p]}
      BY <1>7, <1>9, <2>2, <3>1 DEF PagesOK
    <3> QED
      BY <2>2, <2>4, <3>2
  <2> QED
    BY <2>3, <2>4
<1>12. restored = [p \in Pages |-> restored[p]]
  OBVIOUS
<1> HIDE DEF restored
<1>13. Differs(P, Q, {"cache", "size", "job", "at"}) /\ Q.cache = restored
       /\ Q.size = P.origSize /\ Q.job = "rollback" /\ Q.at = "finalize"
  BY <1>1 DEF PagerOK, IsPager, Fields, Differs
<1> HIDE DEF Q
<1>14. /\ Q.eState = P.eState /\ Q.vers = P.vers /\ Q.txn = P.txn /\ Q.origSize = P.origSize
       /\ Q.jfd = P.jfd /\ Q.hdr = P.hdr /\ Q.off = P.off /\ Q.mode = P.mode /\ Q.dirSync = P.dirSync
  BY <1>13 DEF Differs, Fields
<1>15. 1 \in 1 .. P.origSize /\ P.origSize <= P.origSize
  BY <1>8, PagerAssumption DEF Pages
<1>16. SeesOwn(Q, db, B)
  BY <1>9, <1>11, <1>13 DEF SeesOwn, Seen
<1>17. ModOK(Q, db, B, txns)
  <2>1. Q.cache[1] # Nothing
    BY <1>6, <1>11, <1>13, <1>15 DEF ModOK
  <2> QED
    BY <1>6, <1>8, <1>13, <1>14, <1>15, <1>16, <2>1 DEF ModOK
<1>18. FinalOK(Q, J, db, B)
  BY <1>6, <1>7, <1>11, <1>13, <1>14 DEF FinalOK
<1>19. ConnOK(Q, J, db, B, txns', Settled)
  BY <1>1, <1>2, <1>4, <1>12, <1>13, <1>14, <1>17, <1>18 DEF ConnOK, Logging, IsCache
<1>20. KnowsJournal(Q, held'[c], c \in reserved', J, dir.now, Settled)
  BY <1>1, <1>3, <1>4, <1>13, <1>14 DEF KnowsJournal, IsWriter
<1>21. P.at # "zeroed" /\ Q.at # "zeroed"
  BY <1>1, <1>13
<1> QED
  BY <1>2, <1>3, <1>19, <1>20, <1>21, QuietRecovers DEF Recovers

------------------------------------------------------------------------------
(* Writing the journal and the database                                    *)

(* A step of a transaction that goes on logging.                           *)
LEMMA LogStepRecovers ==
    ASSUME FLP!LocksInv, PagerInv, LinkInv, RecInv, PagerInv', NEW c \in Conns, NEW Q, NEW K,
           pager' = [pager EXCEPT ![c] = Q], OthersKeepLocks(c), held'[c] = held[c], txns' = txns,
           Owner(c), Logging(Q), Q.at # "lock", Q.at # "open",
           jrnl' = [jrnl EXCEPT ![Q.jfd] = K], dir'.now = Q.jfd,
           \A i \in 1 .. JournalLen : K[i].now \in K[i].disk,
           \A p \in Pages : db'[p].now \in db'[p].disk,
           dir'.now \in dir'.disk,
           ModOK(Q, db', Image, txns), LogMore(Q, K, db', Image, txns), Q.vers \in Nat, IsCache(Q),
           ~Q.dirSync => Settled', Settled /\ dir.now # Nothing => Settled',
           held[c] = EXCLUSIVE_LOCK \/ NoHeader(K),
           Q.at = "failed" => K = Found /\ pager[c].at # "zeroed",
           \/ Settled'
           \/ /\ NoHeader(K) /\ K[1].now # Junk /\ db' = db
              /\ \A f \in dir'.disk \ {dir'.now} : f \in dir.disk /\ Of(f)' = Of(f)
    PROVE  Keeps
<1>1. /\ PagerOK(Q) /\ Fits(Q, held'[c], c \in reserved') /\ Q.jfd \in Journals /\ LogOK(Q, jrnl'[Q.jfd])
      /\ FilesOK' /\ pager'[c] = Q
  <2>1. pager'[c] = Q
    BY DEF PagerInv
  <2> QED
    BY <2>1 DEF PagerInv, Good, JournalOK
<1>2. /\ FilesOK /\ SeenIsLeft /\ IsImage(Image, txns) /\ txns \in Nat
  BY DEF PagerInv, RecInv, FilesRecover
<1>3. jrnl'[Q.jfd] = K /\ Found' = K /\ Q.jfd # Nothing /\ IsFile(K)
  <2>1. jrnl'[Q.jfd] = K
    BY <1>1, <1>2 DEF FilesOK
  <2>2. Q.jfd # Nothing
    BY <1>1, PagerAssumption
  <2> QED
    BY <1>1, <2>1, <2>2 DEF Found, Of, FilesOK
<1>4. SeenIsLeft'
  <2>1. \A id \in Journals : id # Q.jfd => jrnl'[id] = jrnl[id]
    BY <1>1, <1>2 DEF FilesOK
  <2> QED
    BY <1>2, <1>3, <2>1 DEF SeenIsLeft
<1>5. /\ Q.txn = txns /\ txns \in Nat \ {0} /\ IsImage(Image, txns - 1) /\ SizeIs(Image, Q.origSize)
      /\ txns - 1 \in Nat
  BY DEF ModOK
<1>6. /\ HeadOK(Q, K) /\ LogsOld(Q, K, Image) /\ Untouched(Q, K, db', Image)
      /\ (Q.hdr = 1 => Clean(db', Image))
  BY DEF LogMore, ModOK
<1>7. \A o \in Outcomes(Found') : Valid(o, db', Image)
  <2>1. LogOK(Q, K) /\ Q.txn \in Nat
    BY <1>1, <1>3, <1>5
  <2> QED
    BY <1>3, <1>5, <1>6, <2>1, LogIsValid
<1>8. NoHeader(Found') \/ IsHeader(Found'[1].now)
  <2>1. Q.hdr \in 1 .. JournalLen + 1 /\ Segments(K, Q.hdr, Q.txn, Q.origSize)
    BY <1>1, <1>3 DEF LogOK
  <2>2. Q.txn \in Nat /\ Q.origSize \in Nat
    BY <1>5, SizeOfImage
  <2>3. CASE Q.hdr > 1
    <3>1. IsHead(K[1].now, Q.txn, Q.origSize)
      BY <2>1, <2>3 DEF Segments
    <3> QED
      BY <1>3, <2>2, <3>1, HeadIsHeader
  <2>4. CASE Q.hdr = 1 /\ Q.at = "header"
    <3>1. K[1].now = Header(TRUE, Q.off - Q.hdr - 1, Q.txn, Q.origSize) /\ Q.hdr < Q.off
          /\ Q.off \in 1 .. JournalLen + 1
      BY <1>1, <1>3, <2>4 DEF LogOK, OpenSegment
    <3>2. IsHead(K[1].now, Q.txn, Q.origSize)
      <4> DEFINE n == Q.off - Q.hdr - 1
      <4>1. n \in Nat
        BY <2>4, <3>1, PagerAssumption
      <4>2. K[1].now = Header(TRUE, n, Q.txn, Q.origSize)
        BY <3>1
      <4> HIDE DEF n
      <4> QED
        BY <4>1, <4>2 DEF IsHead, Header
    <3> QED
      BY <1>3, <2>2, <3>2, HeadIsHeader
  <2>5. CASE Q.hdr = 1 /\ Q.at = "failed"
    <3>1. K = Found /\ \A o \in Conns : pager[o].at # "zeroed"
      <4>1. \A o \in Conns : pager[o].at = "zeroed" => o = c
        BY FinalizerOwns, OneOwner
      <4> QED
        BY <2>5, <4>1
    <3> QED
      BY <1>3, <3>1 DEF RecInv, FilesRecover
  <2>6. CASE Q.hdr = 1 /\ Q.at \notin {"header", "failed"}
    BY <1>3, <1>6, <2>6, PagerAssumption DEF HeadOK, Stops, NoHeader
  <2> QED
    BY <2>1, <2>3, <2>4, <2>5, <2>6, PagerAssumption
<1>9. FilesRecover' /\ Image' = Image /\ Risk' \subseteq Risk
  <2>1. Q.at # "zeroed"
    BY <1>1 DEF Fits, Logging
  <2>2. \/ Settled'
        \/ /\ NoHeader(Found') /\ Found'[1].now # Junk /\ db' = db
           /\ \A f \in dir'.disk \ {dir'.now} : f \in dir.disk /\ Of(f)' = Of(f)
    BY <1>3
  <2> QED
    BY <1>1, <1>4, <1>7, <1>8, <2>1, <2>2, WrittenFiles
<1>10. ConnOK(Q, Found', db', Image', txns', Settled')
  BY <1>1, <1>3, <1>9 DEF ConnOK, Fits, Logging
<1>11. KnowsJournal(Q, held'[c], c \in reserved', Found', dir'.now, Settled')
  BY <1>1, <1>3 DEF KnowsJournal, IsWriter, Logging, Fits
<1>12. RecInv'
  BY <1>1, <1>3, <1>9, <1>10, <1>11, OwnerRecovers DEF Recovers
<1> QED
  BY <1>9, <1>12 DEF Keeps

LEMMA PutIsLeft ==
    ASSUME NEW J, IsFile(J), NEW i \in 1 .. JournalLen, NEW value,
           \A k \in 1 .. JournalLen : J[k].now \in J[k].disk
    PROVE  /\ \A k \in 1 .. JournalLen : Written(J, i, value)[k].now \in Written(J, i, value)[k].disk
           /\ Written(J, i, value)[i].disk = J[i].disk \cup {value, Junk}
<1> DEFINE K == Written(J, i, value)
<1>1. K[i] = Put(J[i], value)
  BY DEF Written, IsFile
<1>2. K[i].now \in K[i].disk /\ K[i].disk = J[i].disk \cup {value, Junk}
  BY <1>1 DEF Put
<1>3. \A k \in 1 .. JournalLen \ {i} : K[k] = J[k]
  BY CellWritten
<1> HIDE DEF K
<1>4. \A k \in 1 .. JournalLen : K[k].now \in K[k].disk
  BY <1>2, <1>3
<1> QED
  BY <1>2, <1>4 DEF K

LEMMA DirIsSynced ==
    ASSUME NEW sync, dir.now \in dir.disk, dir' = IF sync THEN Synced(dir.now) ELSE dir,
           ~sync => Settled
    PROVE  Settled' /\ dir'.now = dir.now /\ dir'.now \in dir'.disk
  BY DEF Synced, Settled

LEMMA SyncRecordsRecovers ==
    ASSUME FLP!LocksInv, PagerInv, LinkInv, RecInv, PagerInv', NEW c \in Conns, SyncRecords(c)
    PROVE  Keeps
<1> USE PagerAssumption
<1> DEFINE P     == pager[c]
           J     == Found
           B     == Image
           left  == P.off <= JournalLen /\ IsHeader(J[P.off].now)
           clean == IF left THEN Written(J, P.off, Zeros) ELSE J
           full  == Header(TRUE, P.off - P.hdr - 1, P.txn, P.origSize)
           done  == Fsync(clean)
           K     == Written(done, P.hdr, full)
           Q     == [P EXCEPT !.at = "header", !.dirSync = FALSE]
<1>1. /\ PagerOK(P) /\ Fits(P, held[c], c \in reserved) /\ P.at = "records" /\ P.job # "rollback"
      /\ FilesOK
  BY DEF PagerInv, Good, SyncRecords, At, Fits
<1>2. Logging(P) /\ Owner(c) /\ held[c] = EXCLUSIVE_LOCK
  BY <1>1 DEF Fits, Logging, Owner, IsWriter
<1>3. /\ P.jfd \in Journals /\ dir.now = P.jfd /\ P.jfd # Nothing /\ Found = jrnl[P.jfd] /\ Journal(c) = J
      /\ IsFile(J) /\ \A i \in 1 .. JournalLen : J[i].now \in J[i].disk
      /\ LogOK(P, J) /\ LogMore(P, J, db, B, txns) /\ ModOK(P, db, B, txns)
  BY <1>2, LoggingFacts
<1>4. /\ pager' = [pager EXCEPT ![c] = Q] /\ UNCHANGED <<locks, db>> /\ txns' = txns
      /\ jrnl' = [jrnl EXCEPT ![P.jfd] = K]
      /\ dir' = IF P.dirSync THEN Synced(dir.now) ELSE dir
  BY <1>3 DEF SyncRecords, Set, Written
<1>5. Differs(P, Q, {"at", "dirSync"}) /\ Q.at = "header" /\ Q.dirSync = FALSE
  BY <1>1 DEF PagerOK, IsPager, Fields, Differs
<1> HIDE DEF Q
<1>6. /\ IsPager(Q) /\ Q.eState = P.eState /\ Q.mode = P.mode /\ Q.jfd = P.jfd /\ Q.job = P.job
      /\ Q.inJournal = P.inJournal /\ Q.dirty = P.dirty /\ Q.cache = P.cache /\ Q.vers = P.vers
      /\ Q.hdr = P.hdr /\ Q.off = P.off /\ Q.txn = P.txn /\ Q.origSize = P.origSize
      /\ Q.spilled = P.spilled /\ Q.size = P.size
  BY <1>5 DEF Differs, Fields
<1>7. held'[c] = held[c] /\ reserved' = reserved /\ OthersKeepLocks(c)
  BY <1>4, LockMoves
<1>8. /\ P.hdr \in 1 .. JournalLen /\ P.off \in P.hdr + 1 .. JournalLen + 1
      /\ OpenSegment(P, J)
  <2>1. LogOK(P, J)
    BY <1>3
  <2>2. P.hdr \in 1 .. JournalLen + 1 /\ P.off \in P.hdr .. JournalLen + 1 /\ OpenSegment(P, J)
    BY <1>1, <2>1 DEF LogOK
  <2> QED
    BY <2>2 DEF OpenSegment
<1>9. HeadOK(P, J) /\ LogsOld(P, J, B)
      /\ Untouched(P, J, db, B) /\ PagesOK(P, db, txns) /\ VersOK(P, B, txns)
      /\ (P.hdr = 1 <=> P.eState = "WRITER_CACHEMOD")
  BY <1>3 DEF LogMore
<1>10. ConnOK(P, J, db, B, txns, Settled) /\ KnowsJournal(P, held[c], c \in reserved, J, dir.now, Settled)
       /\ SeenIsLeft
  BY DEF RecInv, FilesRecover, Recovers
<1>11. ~IsHeader(J[P.hdr].now)
  <2>1. P.at \notin {"header", "failed"} /\ P.hdr <= JournalLen /\ J[P.hdr].now \in J[P.hdr].disk
    BY <1>1, <1>3, <1>8
  <2>2. Stops(J, P.hdr)
    BY <1>9, <2>1 DEF HeadOK
  <2> QED
    BY <2>1, <2>2 DEF Stops
<1> HIDE DEF J, B
<1>12. /\ IsFile(clean) /\ \A i \in 1 .. P.off - 1 : clean[i] = J[i]
       /\ P.off <= JournalLen => ~IsHeader(clean[P.off].now)
  <2>1. CASE left
    <3>1. P.off \in 1 .. JournalLen /\ \A i \in 1 .. P.off - 1 : i \in 1 .. JournalLen \ {P.off}
      BY <1>8, <2>1
    <3>2. IsFile(Written(J, P.off, Zeros)) /\ Written(J, P.off, Zeros)[P.off].now = Zeros
          /\ \A k \in 1 .. JournalLen \ {P.off} : Written(J, P.off, Zeros)[k] = J[k]
      BY <1>3, <3>1, CellWritten
    <3>3. ~IsHeader(Zeros)
      BY DEF IsHeader
    <3> QED
      BY <2>1, <3>1, <3>2, <3>3
  <2>2. CASE ~left
    BY <1>3, <2>2
  <2> QED
    BY <2>1, <2>2
<1> HIDE DEF clean
<1>13. /\ IsFile(done) /\ \A i \in 1 .. JournalLen : done[i].now = clean[i].now /\ OnDisk(done[i])
       /\ \A i \in 1 .. JournalLen : done[i].now \in done[i].disk
  BY <1>12, FsyncKeeps DEF OnDisk
<1>14. full.kind = "header"
  BY DEF Header
<1> HIDE DEF done, full
<1>15. /\ IsFile(K) /\ K[P.hdr].now = full /\ \A i \in 1 .. JournalLen \ {P.hdr} : K[i] = done[i]
       /\ \A i \in 1 .. JournalLen : K[i].now \in K[i].disk
       /\ K[P.hdr].disk = done[P.hdr].disk \cup {full, Junk}
  BY <1>8, <1>13, CellWritten, PutIsLeft
<1> HIDE DEF K
<1>16. \A i \in 1 .. P.off - 1 : i # P.hdr => i \in 1 .. JournalLen /\ K[i].now = J[i].now /\ OnDisk(K[i])
  <2>1. \A i \in 1 .. P.off - 1 : i \in 1 .. JournalLen
    BY <1>8
  <2> QED
    BY <1>12, <1>13, <1>15, <2>1
<1>17. HeadOK(Q, K)
  <2>1. \A v \in K[P.hdr].disk : IsHeader(v) => v = full
    <3>1. done[P.hdr].disk = {J[P.hdr].now}
      <4>1. P.hdr \in 1 .. P.off - 1 /\ P.hdr \in 1 .. JournalLen
        BY <1>8
      <4> QED
        BY <1>12, <1>13, <4>1 DEF OnDisk
    <3>2. ~IsHeader(Junk)
      BY DEF IsHeader
    <3> QED
      BY <1>11, <1>15, <3>1, <3>2
  <2>2. Stops(K, P.off)
    <3>1. SUFFICES ASSUME P.off <= JournalLen PROVE \A v \in K[P.off].disk : ~IsHeader(v)
      BY DEF Stops
    <3>2. P.off \in 1 .. JournalLen \ {P.hdr}
      BY <1>8, <3>1
    <3>3. K[P.off].disk = {clean[P.off].now}
      BY <1>13, <1>15, <3>2 DEF OnDisk
    <3> QED
      BY <1>12, <3>1, <3>3
  <2>3. \A i \in P.hdr + 1 .. P.off - 1 : OnDisk(K[i]) /\ IsLog(K[i].now, P.txn)
    <3>1. \A i \in P.hdr + 1 .. P.off - 1 : i \in 1 .. P.off - 1 /\ i # P.hdr
      BY <1>8
    <3> QED
      BY <1>8, <1>16, <3>1 DEF OpenSegment
  <2>4. P.hdr < P.off
    BY <1>8
  <2> QED
    BY <1>5, <1>6, <2>1, <2>2, <2>3, <2>4 DEF HeadOK, full
<1>18. LogsOld(Q, K, B)
  BY <1>6, <1>9, <1>14, <1>15, <1>16 DEF LogsOld
<1>19. Untouched(Q, K, db', B)
  <2>1. \A i \in 1 .. P.hdr - 1 : K[i].now = J[i].now
    <3>1. \A i \in 1 .. P.hdr - 1 : i \in 1 .. P.off - 1 /\ i # P.hdr
      BY <1>8
    <3> QED
      BY <1>16, <3>1
  <2>2. \A p : LogsPage(J, P.hdr, p) => LogsPage(K, P.hdr, p)
    BY <2>1 DEF LogsPage
  <2> QED
    BY <1>4, <1>6, <1>9, <2>2 DEF Untouched
<1>20. PagesOK(Q, db', txns) /\ VersOK(Q, B, txns)
  BY <1>1, <1>4, <1>5, <1>6, <1>9 DEF PagesOK, VersOK
<1>21. Q.hdr = 1 => K[1].now.kind = "header"
  BY <1>6, <1>14, <1>15
<1>22. LogMore(Q, K, db', B, txns)
  BY <1>6, <1>9, <1>17, <1>18, <1>19, <1>20, <1>21 DEF LogMore
<1>23. ModOK(Q, db', B, txns)
  BY <1>1, <1>3, <1>4, <1>6 DEF ModOK
<1>24. Settled' /\ dir'.now = dir.now /\ dir'.now \in dir'.disk
  <2>1. ~P.dirSync => Settled
    BY <1>2, <1>3, <1>10 DEF KnowsJournal, Logging, IsWriter
  <2>2. dir.now \in dir.disk
    BY <1>10 DEF SeenIsLeft
  <2> QED
    BY <1>4, <2>1, <2>2, DirIsSynced
<1>25. \A p \in Pages : db'[p].now \in db'[p].disk
  BY <1>4, <1>10 DEF SeenIsLeft
<1>26. Logging(Q) /\ Q.vers \in Nat /\ IsCache(Q)
  BY <1>2, <1>6, <1>10 DEF Logging, ConnOK, IsCache
<1>27. jrnl' = [jrnl EXCEPT ![Q.jfd] = K] /\ dir'.now = Q.jfd
  BY <1>3, <1>4, <1>6, <1>24
<1>28. Q.at # "lock" /\ Q.at # "open" /\ Q.at # "failed"
  BY <1>5
<1>29. ModOK(Q, db', Image, txns) /\ LogMore(Q, K, db', Image, txns)
  BY <1>22, <1>23 DEF B
<1> QED
  BY <1>2, <1>4, <1>7, <1>15, <1>24, <1>25, <1>26, <1>27, <1>28, <1>29, LogStepRecovers

LEMMA FullIsHead ==
    ASSUME NEW a \in Nat, NEW b \in Nat, a < b, NEW txn \in Nat, NEW size \in Nat
    PROVE  /\ IsHead(Header(TRUE, b - a - 1, txn, size), txn, size)
           /\ IsHeader(Header(TRUE, b - a - 1, txn, size))
<1> DEFINE n == b - a - 1
           e == Header(TRUE, n, txn, size)
<1>1. n \in Nat
  OBVIOUS
<1> HIDE DEF n
<1>2. IsHead(e, txn, size)
  BY <1>1 DEF IsHead, Header
<1>3. IsHeader(e)
  BY <1>2, HeadIsHeader
<1> QED
  BY <1>2, <1>3 DEF n

(* From the first complete header on, the journal is a hot one.            *)
LEMMA HeadSeen ==
    ASSUME FLP!LocksInv, PagerInv, LinkInv, RecInv, NEW c \in Conns, Logging(pager[c]),
           pager[c].hdr # 1 \/ pager[c].at = "header"
    PROVE  /\ IsHeader(Found[1].now) /\ ~NoHeader(Found) /\ Settled
           /\ pager[c].at = "header" => IsHeader(Found[pager[c].hdr].now)
           /\ ~Committed /\ \A o \in Outcomes(Found) : Valid(o, db, Image)
<1> USE PagerAssumption
<1> DEFINE P == pager[c]
           J == Found
<1>1. /\ \A i \in 1 .. JournalLen : J[i].now \in J[i].disk
      /\ LogOK(P, J) /\ P.txn \in Nat /\ Owner(c) /\ P.origSize \in Nat
      /\ PagerOK(P) /\ Fits(P, held[c], c \in reserved)
  <2>1. P.origSize \in Nat
    BY LoggingFacts, SizeOfImage
  <2> QED
    BY <2>1, LoggingFacts DEF PagerInv, Good
<1>2. P.hdr \in 1 .. JournalLen + 1 /\ P.off \in P.hdr .. JournalLen + 1
      /\ Segments(J, P.hdr, P.txn, P.origSize)
  BY <1>1 DEF LogOK
<1>3. P.at = "header" => J[P.hdr].now = Header(TRUE, P.off - P.hdr - 1, P.txn, P.origSize) /\ P.hdr < P.off
  BY <1>1 DEF LogOK, OpenSegment
<1>4. P.at = "header" => IsHeader(J[P.hdr].now)
  <2>1. P.hdr \in Nat /\ P.off \in Nat /\ P.txn \in Nat /\ P.origSize \in Nat
    BY <1>1, <1>2
  <2>2. P.hdr < P.off => IsHeader(Header(TRUE, P.off - P.hdr - 1, P.txn, P.origSize))
    BY <2>1, FullIsHead
  <2> QED
    BY <1>3, <2>2
<1>5. IsHeader(J[1].now)
  <2>1. CASE P.hdr = 1
    BY <1>4, <2>1
  <2>2. CASE P.hdr # 1
    <3>1. IsHead(J[1].now, P.txn, P.origSize)
      BY <1>2, <2>2 DEF Segments
    <3>2. P.txn \in Nat /\ P.origSize \in Nat
      BY <1>1
    <3> HIDE DEF P, J
    <3> QED
      BY <3>1, <3>2, HeadIsHeader
  <2> QED
    BY <2>1, <2>2
<1>6. ~NoHeader(J)
  BY <1>1, <1>5 DEF NoHeader
<1>7. Settled
  BY <1>6 DEF RecInv, FilesRecover
<1>8. ~Committed
  <2>1. \A o \in Conns : pager[o].at = "zeroed" => o = c
    BY <1>1, FinalizerOwns, OneOwner
  <2>2. P.at # "zeroed"
    BY FinalizerOwns
  <2> QED
    BY <2>1, <2>2 DEF Committed
<1>9. \A o \in Outcomes(Found) : Valid(o, db, Image)
  BY <1>8 DEF RecInv, FilesRecover
<1> QED
  BY <1>4, <1>5, <1>6, <1>7, <1>8, <1>9

LEMMA SyncHeaderRecovers ==
    ASSUME FLP!LocksInv, PagerInv, LinkInv, RecInv, PagerInv', NEW c \in Conns, SyncHeader(c)
    PROVE  Keeps
<1> USE PagerAssumption
<1> DEFINE P     == pager[c]
           J     == Found
           B     == Image
           next == P.job = "spill"
           done == Fsync(J)
           head == Header(FALSE, 0, P.txn, P.origSize)
           K    == IF next THEN Written(done, P.off, head) ELSE done
           end  == IF next THEN P.off + 1 ELSE P.off
           Q    == [P EXCEPT !.at = "write", !.eState = "WRITER_DBMOD", !.needSync = {},
                             !.hdr = P.off, !.off = end]
<1>1. /\ PagerOK(P) /\ Fits(P, held[c], c \in reserved) /\ P.at = "header" /\ P.job # "rollback"
      /\ FilesOK
  BY DEF PagerInv, Good, SyncHeader, At, Fits
<1>2. Logging(P) /\ Owner(c) /\ held[c] = EXCLUSIVE_LOCK
  BY <1>1 DEF Fits, Logging, Owner, IsWriter
<1>3. /\ P.jfd \in Journals /\ dir.now = P.jfd /\ P.jfd # Nothing /\ Found = jrnl[P.jfd] /\ Journal(c) = J
      /\ IsFile(J) /\ \A i \in 1 .. JournalLen : J[i].now \in J[i].disk
      /\ LogOK(P, J) /\ LogMore(P, J, db, B, txns) /\ ModOK(P, db, B, txns)
  BY <1>2, LoggingFacts
<1>4. /\ UNCHANGED <<locks, db, dir>> /\ (next => P.off <= JournalLen) /\ txns' = txns
      /\ jrnl' = [jrnl EXCEPT ![P.jfd] = K]
  BY <1>3 DEF SyncHeader, Written
<1>5. pager' = [pager EXCEPT ![c] = Q]
  BY <1>1 DEF SyncHeader, Set, PagerOK, IsPager, Fields
<1>6. /\ Differs(P, Q, {"at", "eState", "needSync", "hdr", "off"}) /\ Q.at = "write"
      /\ Q.eState = "WRITER_DBMOD" /\ Q.needSync = {} /\ Q.hdr = P.off /\ Q.off = end
  BY <1>1 DEF PagerOK, IsPager, Fields, Differs
<1> HIDE DEF Q
<1>7. /\ IsPager(Q) /\ Q.mode = P.mode /\ Q.jfd = P.jfd /\ Q.job = P.job
      /\ Q.inJournal = P.inJournal /\ Q.dirty = P.dirty /\ Q.spilled = P.spilled
      /\ Q.txn = P.txn /\ Q.origSize = P.origSize /\ Q.size = P.size /\ Q.cache = P.cache
      /\ Q.vers = P.vers /\ Q.dirSync = P.dirSync
  BY <1>6 DEF Differs, Fields
<1>8. held'[c] = held[c] /\ reserved' = reserved /\ OthersKeepLocks(c)
  BY <1>4, LockMoves
<1>9. /\ P.hdr \in 1 .. JournalLen /\ P.off \in P.hdr + 1 .. JournalLen + 1
      /\ P.off \in 1 .. JournalLen + 1 /\ end \in P.off .. JournalLen + 1
  <2>1. LogOK(P, J)
    BY <1>3
  <2>2. P.hdr \in 1 .. JournalLen + 1 /\ P.off \in P.hdr .. JournalLen + 1 /\ P.hdr < P.off
    BY <1>1, <2>1 DEF LogOK, OpenSegment
  <2> QED
    BY <1>4, <2>2
<1>10. HeadOK(P, J) /\ LogsOld(P, J, B)
      /\ Untouched(P, J, db, B) /\ PagesOK(P, db, txns) /\ VersOK(P, B, txns)
  BY <1>3 DEF LogMore
<1>11. ConnOK(P, J, db, B, txns, Settled) /\ KnowsJournal(P, held[c], c \in reserved, J, dir.now, Settled)
       /\ SeenIsLeft
  BY DEF RecInv, FilesRecover, Recovers
<1>12. IsHeader(J[P.hdr].now) /\ Settled
  BY <1>1, <1>2, HeadSeen
<1> HIDE DEF J, B
<1>13. P.off <= JournalLen => ~IsHeader(J[P.off].now)
  <2>1. Stops(J, P.off)
    <3>1. J[P.hdr].now \in J[P.hdr].disk /\ P.hdr <= JournalLen
      BY <1>3, <1>9
    <3> QED
      BY <1>1, <1>10, <1>12, <3>1 DEF HeadOK
  <2> QED
    BY <1>3, <1>9, <2>1 DEF Stops
<1>14. /\ IsFile(done) /\ \A i \in 1 .. JournalLen : done[i].now = J[i].now /\ OnDisk(done[i])
       /\ \A i \in 1 .. JournalLen : done[i].now \in done[i].disk
  BY <1>3, FsyncKeeps DEF OnDisk
<1>15. head.kind = "header" /\ ~IsHeader(head) /\ ~IsHeader(Junk)
  BY DEF Header, IsHeader
<1> HIDE DEF done, head
<1>16. /\ IsFile(K) /\ \A i \in 1 .. JournalLen : i # P.off => K[i] = done[i]
       /\ \A i \in 1 .. JournalLen : K[i].now \in K[i].disk
       /\ P.off <= JournalLen =>
             IF next THEN K[P.off].now = head /\ K[P.off].disk = done[P.off].disk \cup {head, Junk}
             ELSE K[P.off] = done[P.off]
  <2>1. CASE next
    <3>1. P.off \in 1 .. JournalLen
      BY <1>4, <1>9, <2>1
    <3>2. K = Written(done, P.off, head)
      BY <2>1
    <3> HIDE DEF K
    <3>3. /\ IsFile(K) /\ K[P.off].now = head /\ \A i \in 1 .. JournalLen \ {P.off} : K[i] = done[i]
      BY <1>14, <3>1, <3>2, CellWritten
    <3>4. /\ \A i \in 1 .. JournalLen : K[i].now \in K[i].disk
          /\ K[P.off].disk = done[P.off].disk \cup {head, Junk}
      BY <1>14, <3>1, <3>2, PutIsLeft
    <3> QED
      BY <2>1, <3>3, <3>4
  <2>2. CASE ~next
    BY <1>14, <2>2
  <2> QED
    BY <2>1, <2>2
<1> HIDE DEF K
<1>17. Stops(K, P.off)
  <2>1. SUFFICES ASSUME P.off <= JournalLen PROVE \A v \in K[P.off].disk : ~IsHeader(v)
    BY DEF Stops
  <2>2. done[P.off].disk = {J[P.off].now}
    BY <1>9, <1>14, <2>1 DEF OnDisk
  <2>3. CASE next
    BY <1>13, <1>15, <1>16, <2>1, <2>2, <2>3
  <2>4. CASE ~next
    BY <1>13, <1>16, <2>1, <2>2, <2>4
  <2> QED
    BY <2>3, <2>4
<1>18. \A i \in 1 .. P.off - 1 : i \in 1 .. JournalLen /\ K[i].now = J[i].now
  <2>1. \A i \in 1 .. P.off - 1 : i \in 1 .. JournalLen /\ i # P.off
    BY <1>9
  <2> QED
    BY <1>14, <1>16, <2>1
<1>19. LogsOld(Q, K, B)
  <2>1. \A i \in 1 .. end - 1 : i \in 1 .. P.off - 1 \/ (next /\ i = P.off /\ P.off <= JournalLen)
    BY <1>4, <1>9
  <2>2. \A i \in 1 .. end - 1 : K[i].now.kind = "record" => i \in 1 .. P.off - 1
    BY <1>15, <1>16, <2>1
  <2> QED
    BY <1>6, <1>7, <1>10, <1>18, <2>2 DEF LogsOld
<1>20. Untouched(Q, K, db', B)
  <2>1. \A i \in 1 .. P.hdr - 1 : i \in 1 .. P.off - 1
    BY <1>9
  <2>2. \A p : LogsPage(J, P.hdr, p) => LogsPage(K, P.off, p)
    BY <1>18, <2>1 DEF LogsPage
  <2> QED
    BY <1>4, <1>6, <1>7, <1>10, <2>2 DEF Untouched
<1>21. PagesOK(Q, db', txns) /\ VersOK(Q, B, txns) /\ HeadOK(Q, K)
  BY <1>1, <1>4, <1>6, <1>7, <1>10, <1>17 DEF PagesOK, VersOK, HeadOK
<1>22. Q.hdr # 1
  BY <1>6, <1>9
<1>23. LogMore(Q, K, db', B, txns)
  BY <1>6, <1>19, <1>20, <1>21, <1>22 DEF LogMore
<1>24. ModOK(Q, db', B, txns)
  <2>1. Q.off \in Nat \ {0, 1}
    BY <1>6, <1>9
  <2> HIDE DEF end
  <2> QED
    BY <1>1, <1>3, <1>4, <1>6, <1>7, <2>1 DEF ModOK
<1>25. Settled' /\ dir'.now = dir.now /\ dir'.now \in dir'.disk
  BY <1>4, <1>11, <1>12 DEF Settled, SeenIsLeft
<1>26. \A p \in Pages : db'[p].now \in db'[p].disk
  BY <1>4, <1>11 DEF SeenIsLeft
<1>27. Logging(Q) /\ Q.vers \in Nat /\ IsCache(Q)
  BY <1>1, <1>6, <1>7, <1>11 DEF Logging, ConnOK, IsCache
<1>28. jrnl' = [jrnl EXCEPT ![Q.jfd] = K] /\ dir'.now = Q.jfd
  BY <1>3, <1>4, <1>7
<1>29. Q.at # "lock" /\ Q.at # "open" /\ Q.at # "failed"
  BY <1>6
<1>30. ModOK(Q, db', Image, txns) /\ LogMore(Q, K, db', Image, txns)
  BY <1>23, <1>24 DEF B
<1> QED
  BY <1>2, <1>4, <1>5, <1>8, <1>16, <1>25, <1>26, <1>27, <1>28, <1>29, <1>30, LogStepRecovers

LEMMA LeastOf ==
    ASSUME NEW T, T \subseteq Nat, NEW e \in T
    PROVE  \E m \in T : \A k \in T : m <= k
<1> SUFFICES ASSUME \A m \in T : \E k \in T : ~(m <= k) PROVE FALSE
  OBVIOUS
<1> DEFINE S == {n \in Nat : \A k \in T : n <= k}
<1>1. 0 \in S
  OBVIOUS
<1>2. ASSUME NEW n \in Nat, n \in S PROVE n + 1 \in S
  <2>1. \A k \in T : n <= k /\ k \in Nat
    BY <1>2
  <2>2. n \notin T
    BY <2>1
  <2>3. \A k \in T : n + 1 <= k
    BY <2>1, <2>2
  <2> QED
    BY <2>3
<1>3. Nat \subseteq S
  <2> HIDE DEF S
  <2> QED
    BY <1>1, <1>2, Counts
<1>4. e + 1 \in S /\ e \in Nat
  BY <1>3
<1>5. e + 1 <= e
  BY <1>4
<1> QED
  BY <1>4, <1>5

LEMMA FirstIsDirty ==
    ASSUME NEW P, P.dirty \subseteq Nat, P.dirty # {}
    PROVE  FirstDirty(P) \in P.dirty
  BY LeastOf DEF FirstDirty

(* A page that the transaction has written goes to the file.               *)
LEMMA PageOutRecovers ==
    ASSUME FLP!LocksInv, PagerInv, LinkInv, RecInv, PagerInv', NEW c \in Conns, NEW p, NEW Q,
           Logging(pager[c]), pager[c].at = "write", p \in pager[c].dirty, p \notin pager[c].needSync,
           pager' = [pager EXCEPT ![c] = Q], UNCHANGED <<locks, dir, jrnl, txns>>,
           db' = [db EXCEPT ![p] = Put(@, pager[c].cache[p])],
           Differs(pager[c], Q, {"dirty", "vers", "cache", "at", "job", "spilled"}),
           Q.dirty = pager[c].dirty \ {p}, Q.at \in {"write", "idle"}, Q.job # "rollback",
           \A q \in Pages : q # p => Q.cache[q] = pager[c].cache[q],
           p \in Pages => Q.cache[p] \in {Nothing, pager[c].cache[p]},
           Q.cache[1] # Nothing, VersOK(Q, Image, txns), Q.vers \in Nat, IsCache(Q)
    PROVE  Keeps
<1> USE PagerAssumption
<1> DEFINE P == pager[c]
           J == Found
           B == Image
<1>1. /\ PagerOK(P) /\ Fits(P, held[c], c \in reserved) /\ P.job # "rollback" /\ FilesOK
      /\ P.eState = "WRITER_DBMOD" /\ held[c] = EXCLUSIVE_LOCK
  BY DEF PagerInv, Good, Fits, Logging
<1>2. /\ P.jfd \in Journals /\ dir.now = P.jfd /\ P.jfd # Nothing /\ Found = jrnl[P.jfd]
      /\ IsFile(J) /\ \A i \in 1 .. JournalLen : J[i].now \in J[i].disk
      /\ LogOK(P, J) /\ LogMore(P, J, db, B, txns) /\ ModOK(P, db, B, txns) /\ Owner(c)
      /\ P.txn = txns /\ txns \in Nat
  BY LoggingFacts
<1>3. /\ Q.eState = P.eState /\ Q.mode = P.mode /\ Q.jfd = P.jfd /\ Q.inJournal = P.inJournal
      /\ Q.needSync = P.needSync /\ Q.hdr = P.hdr /\ Q.off = P.off /\ Q.txn = P.txn
      /\ Q.origSize = P.origSize /\ Q.size = P.size /\ Q.dirSync = P.dirSync
  BY DEF Differs, Fields
<1>4. held'[c] = held[c] /\ reserved' = reserved /\ OthersKeepLocks(c)
  BY LockMoves
<1>5. HeadOK(P, J) /\ LogsOld(P, J, B) /\ Untouched(P, J, db, B) /\ PagesOK(P, db, txns)
      /\ (P.hdr = 1 <=> P.eState = "WRITER_CACHEMOD")
  BY <1>2 DEF LogMore
<1>6. SeenIsLeft
  BY DEF RecInv, FilesRecover
<1>7. Settled /\ P.hdr # 1
  BY <1>1, <1>5, HeadSeen
<1>8. P.size \in Pages /\ P.dirty \subseteq 1 .. P.size /\ p \in 1 .. P.size /\ p \in Pages
  <2>1. P.size \in Pages
    BY <1>2 DEF ModOK
  <2>2. P.dirty \subseteq 1 .. P.size
    BY <1>5 DEF PagesOK
  <2> QED
    BY <2>1, <2>2 DEF Pages
<1>9. Own(P.cache[p], txns)
  BY <1>5 DEF PagesOK
<1> HIDE DEF J, B
<1>10. /\ \A q \in Pages : q # p => db'[q] = db[q]
       /\ db'[p].now = P.cache[p] /\ db'[p].now \in db'[p].disk
  BY <1>1, <1>8 DEF FilesOK, Put
<1>11. Untouched(Q, J, db', B)
  <2>1. p <= P.origSize => LogsPage(J, P.hdr, p)
    <3>1. p <= P.origSize => Logged(J, p, P.hdr, P.txn)
      BY <1>2 DEF LogOK
    <3>2. Logged(J, p, P.hdr, P.txn) => LogsPage(J, P.hdr, p)
      BY DEF Logged, LogsPage, IsLogOf, Record
    <3> QED
      BY <3>1, <3>2
  <2>2. \A q \in 1 .. P.origSize : q \in Pages /\ (q = p => p <= P.origSize)
    <3>1. P.origSize \in Pages
      BY <1>2 DEF ModOK, SizeIs
    <3> QED
      BY <1>8, <3>1 DEF Pages
  <2> QED
    BY <1>3, <1>5, <1>10, <2>1, <2>2 DEF Untouched
<1>12. PagesOK(Q, db', txns)
  <2>1. Q.dirty \subseteq 1 .. Q.size
    BY <1>3, <1>5 DEF PagesOK
  <2>2. \A q \in Q.dirty : Own(Q.cache[q], txns)
    <3>1. \A q \in Q.dirty : q \in P.dirty /\ q # p /\ q \in Pages
      BY <1>8 DEF Pages
    <3> QED
      BY <1>5, <3>1 DEF PagesOK
  <2>3. ASSUME NEW q \in Pages \ Q.dirty
        PROVE  /\ Q.cache[q] \in {Nothing, db'[q].now}
               /\ IF q > Q.size THEN db'[q].now = Nothing ELSE IsPage(db'[q].now, txns)
               /\ q \in Q.inJournal \/ q \in Q.origSize + 1 .. Q.size => Own(db'[q].now, txns)
    <3>1. CASE q = p
      <4>1. IsPage(P.cache[p], txns)
        BY <1>2, <1>9 DEF IsPage, Own
      <4>2. ~(p > Q.size)
        BY <1>3, <1>8 DEF Pages
      <4> QED
        BY <1>8, <1>9, <1>10, <3>1, <4>1, <4>2
    <3>2. CASE q # p
      <4>1. q \in Pages \ P.dirty
        BY <3>2
      <4> QED
        BY <1>3, <1>5, <1>10, <3>2, <4>1 DEF PagesOK
    <3> QED
      BY <3>1, <3>2
  <2> QED
    BY <2>1, <2>2, <2>3 DEF PagesOK
<1>13. HeadOK(Q, J) /\ LogsOld(Q, J, B)
  BY <1>3, <1>5 DEF HeadOK, LogsOld
<1>14. LogMore(Q, J, db', B, txns)
  <2>1. VersOK(Q, B, txns)
    BY DEF B
  <2> QED
    BY <1>1, <1>3, <1>5, <1>7, <1>11, <1>12, <1>13, <2>1 DEF LogMore
<1>15. ModOK(Q, db', B, txns)
  BY <1>1, <1>2, <1>3 DEF ModOK
<1>16. ModOK(Q, db', Image, txns) /\ LogMore(Q, J, db', Image, txns)
  BY <1>14, <1>15 DEF B
<1>17. jrnl' = [jrnl EXCEPT ![Q.jfd] = J] /\ dir'.now = Q.jfd /\ dir'.now \in dir'.disk
  <2>1. jrnl' = [jrnl EXCEPT ![P.jfd] = jrnl[P.jfd]]
    BY <1>1 DEF FilesOK
  <2> QED
    BY <1>2, <1>3, <1>6, <2>1 DEF J, SeenIsLeft
<1>18. \A q \in Pages : db'[q].now \in db'[q].disk
  BY <1>6, <1>10 DEF SeenIsLeft
<1>19. Settled' /\ Logging(Q)
  BY <1>1, <1>3, <1>7 DEF Settled, Logging
<1>20. Q.at # "lock" /\ Q.at # "open" /\ Q.at # "failed"
  OBVIOUS
<1> QED
  BY <1>1, <1>2, <1>4, <1>16, <1>17, <1>18, <1>19, <1>20, LogStepRecovers

LEMMA WriteOutRecovers ==
    ASSUME FLP!LocksInv, PagerInv, LinkInv, RecInv, PagerInv', NEW c \in Conns, WriteOut(c) \/ SpillOut(c)
    PROVE  Keeps
<1> USE PagerAssumption
<1> DEFINE P == pager[c]
           B == Image
<1>1. /\ PagerOK(P) /\ Fits(P, held[c], c \in reserved) /\ P.at = "write" /\ P.job \in {"commit", "spill"}
  BY DEF PagerInv, Good, WriteOut, SpillOut, At
<1>2. Logging(P)
  BY <1>1 DEF Fits, Logging
<1>3. /\ LogOK(P, Found) /\ LogMore(P, Found, db, B, txns) /\ ModOK(P, db, B, txns)
      /\ IsImage(B, txns - 1) /\ txns - 1 \in Nat
  BY <1>2, LoggingFacts
<1>4. PagesOK(P, db, txns) /\ VersOK(P, B, txns) /\ P.size \in Pages
      /\ P.dirty \subseteq Nat /\ P.dirty \subseteq Pages
  <2>1. PagesOK(P, db, txns) /\ VersOK(P, B, txns)
    BY <1>3 DEF LogMore
  <2>2. P.size \in Pages /\ P.dirty \subseteq 1 .. P.size
    BY <1>3, <2>1 DEF ModOK, PagesOK
  <2> QED
    BY <2>1, <2>2 DEF Pages
<1>5. B[1].ctr \in Nat
  BY <1>3, ImageOf
<1>6. IsCache(P) /\ P.vers \in Nat
  BY DEF RecInv, Recovers, ConnOK
<1>7. 1 \in Pages
  BY DEF Pages
<1> HIDE DEF B
<1>8. CASE WriteOut(c)
  <2> DEFINE p == FirstDirty(P)
             Q == [P EXCEPT !.dirty = @ \ {p}, !.vers = IF p = 1 THEN P.cache[1].ctr ELSE @]
  <2>1. /\ pager' = [pager EXCEPT ![c] = Q] /\ UNCHANGED <<locks, dir, jrnl, txns>>
        /\ db' = [db EXCEPT ![p] = Put(@, P.cache[p])] /\ P.dirty # {} /\ P.job = "commit"
    BY <1>8 DEF WriteOut, Set
  <2>2. p \in P.dirty
    BY <1>4, <2>1, FirstIsDirty
  <2> HIDE DEF p
  <2>3. /\ Differs(P, Q, {"dirty", "vers"}) /\ Q.dirty = P.dirty \ {p}
        /\ Q.vers = IF p = 1 THEN P.cache[1].ctr ELSE P.vers
    BY <1>1 DEF PagerOK, IsPager, Fields, Differs
  <2> HIDE DEF Q
  <2>4. Differs(P, Q, {"dirty", "vers", "cache", "at", "job", "spilled"}) 
        /\ Q.cache = P.cache /\ Q.at = "write" /\ Q.job = P.job /\ Q.inJournal = P.inJournal /\ Q.eState = P.eState
    BY <1>1, <2>3 DEF Differs, Fields
  <2>5. P.cache[1] = Page(txns, B[1].ctr + 1) /\ P.cache[1].ctr = B[1].ctr + 1
    BY <1>4, <2>1 DEF VersOK, Page
  <2>6. VersOK(Q, B, txns) /\ Q.vers \in Nat /\ IsCache(Q)
    BY <1>4, <1>5, <1>6, <2>1, <2>3, <2>4, <2>5 DEF VersOK, IsCache
  <2>7. Q.cache[1] # Nothing /\ P.needSync = {}
    BY <1>1, <1>3, <2>1, <2>4 DEF ModOK, LogOK
  <2>8. VersOK(Q, Image, txns)
    BY <2>6 DEF B
  <2>9. /\ p \notin P.needSync /\ Q.at \in {"write", "idle"} /\ Q.job # "rollback"
        /\ \A q \in Pages : q # p => Q.cache[q] = P.cache[q]
        /\ p \in Pages => Q.cache[p] \in {Nothing, P.cache[p]}
    BY <2>1, <2>4, <2>7
  <2> QED
    BY <1>1, <1>2, <2>1, <2>2, <2>3, <2>4, <2>6, <2>7, <2>8, <2>9, PageOutRecovers
<1>9. CASE SpillOut(c)
  <2> DEFINE p == P.spilled
             cache == [P.cache EXCEPT ![p] = Nothing]
             Q == [P EXCEPT !.dirty = @ \ {p}, !.cache = cache,
                            !.at = "idle", !.job = "none", !.spilled = 0]
  <2>1. /\ pager' = [pager EXCEPT ![c] = Q] /\ UNCHANGED <<locks, dir, jrnl, txns>>
        /\ db' = [db EXCEPT ![p] = Put(@, P.cache[p])] /\ P.job = "spill"
    BY <1>1, <1>9 DEF SpillOut, Set, PagerOK, IsPager, Fields
  <2>2. p \in P.dirty /\ p \notin P.needSync /\ p # 1
    BY <1>1, <1>3, <1>4, <2>1 DEF LogOK, VersOK
  <2> HIDE DEF p
  <2>3. cache[p] = Nothing /\ (\A q \in Pages : q # p => cache[q] = P.cache[q])
        /\ cache = [q \in Pages |-> cache[q]]
    BY <1>4, <1>6, <2>2 DEF IsCache
  <2> HIDE DEF cache
  <2>4. /\ Differs(P, Q, {"dirty", "vers", "cache", "at", "job", "spilled"}) /\ Q.dirty = P.dirty \ {p}
        /\ Q.vers = P.vers /\ Q.cache = cache /\ Q.at = "idle" /\ Q.job = "none" /\ Q.inJournal = P.inJournal
    BY <1>1 DEF PagerOK, IsPager, Fields, Differs
  <2> HIDE DEF Q
  <2>5. VersOK(Q, B, txns) /\ Q.vers \in Nat /\ IsCache(Q)
    BY <1>4, <1>6, <2>1, <2>3, <2>4 DEF VersOK, IsCache
  <2>6. Q.cache[1] # Nothing
    BY <1>3, <1>7, <2>2, <2>3, <2>4 DEF ModOK
  <2>7. VersOK(Q, Image, txns)
    BY <2>5 DEF B
  <2>8. /\ Q.at \in {"write", "idle"} /\ Q.job # "rollback"
        /\ \A q \in Pages : q # p => Q.cache[q] = P.cache[q]
        /\ p \in Pages => Q.cache[p] \in {Nothing, P.cache[p]}
    BY <2>3, <2>4
  <2> QED
    BY <1>1, <1>2, <2>1, <2>2, <2>4, <2>5, <2>6, <2>7, <2>8, PageOutRecovers
<1> QED
  BY <1>8, <1>9

LEMMA PartHeader ==
    ASSUME NEW txn, NEW size
    PROVE  LET e == Header(FALSE, 0, txn, size) IN e.kind = "header" /\ ~IsHeader(e)
  BY DEF Header, IsHeader

LEMMA PartIsWhole ==
    ASSUME NEW txn \in Nat, NEW size \in Nat
    PROVE  Header(FALSE, 0, txn, size) # Junk
<1>1. Header(FALSE, 0, txn, size)
        \in [kind : {"header"}, magic : BOOLEAN, nRec : Nat, nonce : Nat, dbSize : Nat]
  BY DEF Header
<1> QED
  BY <1>1, ValuesAssumption

(* What a transaction may write to a journal that it opens or goes on with. *)
MayLog(P, J, hdr, off, file, B, t) ==
    /\ P.txn = t /\ t \in Nat \ {0} /\ IsImage(B, t - 1) /\ SizeIs(B, P.origSize)
    /\ P.size \in Pages /\ P.origSize <= P.size /\ P.vers = B[1].ctr /\ P.cache[1] # Nothing
    /\ Stops(J, hdr)
    /\ \A i \in 1 .. off - 1 : J[i].now.kind = "record" =>
          /\ J[i].now.pgno \in P.inJournal /\ J[i].now.pgno \in 1 .. P.origSize
          /\ J[i].now.data = B[J[i].now.pgno]
    /\ \A p \in 1 .. P.origSize : LogsPage(J, hdr, p) \/ file[p].disk = {B[p]}
    /\ PagesOK(P, file, t)
    /\ hdr = 1 <=> P.eState \in {"WRITER_LOCKED", "WRITER_CACHEMOD"}
    /\ hdr = 1 => J[1].now.kind = "header" /\ Clean(file, B)

LEMMA OwnerLinks ==
    ASSUME PagerInv, LinkInv, NEW c \in Conns
    PROVE  CellsFor(c) = Found /\ (pager[c].jfd # Nothing => dir.now = pager[c].jfd)
           /\ (dir.now # Nothing => JournalFor(c) = dir.now)
<1>1. pager[c].jfd # Nothing => dir.now = pager[c].jfd
  BY DEF LinkInv, Links
<1> QED
  BY <1>1 DEF CellsFor, JournalFor, Found, Of

LEMMA FirstMayLog ==
    ASSUME FLP!LocksInv, PagerInv, LinkInv, RecInv, NEW c \in Conns,
           pager[c].eState = "WRITER_LOCKED", NEW J, J = StartedFor(c)
    PROVE  /\ \A i \in 1 .. JournalLen : J[i].now \in J[i].disk
           /\ MayLog(pager[c], J, 1, 2, db, Image, txns)
           /\ NoHeader(J) /\ J[1].now # Junk
<1> USE PagerAssumption
<1> DEFINE P == pager[c]
           B == Image
           head == Header(FALSE, 0, P.txn, P.origSize)
<1>1. /\ FilesOK /\ SeenIsLeft /\ PagerOK(P)
      /\ ConnOK(P, Found, db, B, txns, Settled) /\ KnowsJournal(P, held[c], c \in reserved, Found, dir.now, Settled)
      /\ IsImage(B, txns)
  BY DEF PagerInv, Good, RecInv, FilesRecover, Recovers
<1>2. /\ P.inJournal = {} /\ P.dirty = {} /\ NoHeader(Found)
      /\ ReadOK(P, B) /\ LockedOK(P, B, txns)
  BY <1>1 DEF PagerOK, ConnOK, KnowsJournal
<1>3. Clean(db, B) /\ \A p \in Pages : db[p].now = B[p]
  BY <1>1, <1>2, CleanIfNone, FileIs
<1>4. IsFile(Found) /\ \A i \in 1 .. JournalLen : Found[i].now \in Found[i].disk
  BY <1>1, OfIsFile DEF Found, FilesOK
<1>5. /\ P.txn = txns /\ txns \in Nat \ {0} /\ IsImage(B, txns - 1) /\ SizeIs(B, P.origSize)
      /\ P.size = P.origSize /\ P.size \in Pages /\ P.vers = B[1].ctr /\ P.cache[1] = B[1]
      /\ txns - 1 \in Nat
  BY <1>2 DEF ReadOK, LockedOK, SizeIs
<1>6. B[1] # Nothing /\ P.txn \in Nat /\ P.origSize \in Nat /\ P.origSize <= P.size
  <2>1. B[1] # Nothing
    BY <1>5, ImageOf
  <2>2. P.origSize \in Nat
    BY <1>5, SizeOfImage
  <2> QED
    BY <1>5, <2>1, <2>2
<1>7. J = Written(Found, 1, head)
  <2>1. J = [CellsFor(c) EXCEPT ![1] = Put(@, head)]
    BY DEF StartedFor
  <2> QED
    BY <2>1, OwnerLinks DEF Written
<1>8. head.kind = "header" /\ ~IsHeader(head) /\ head # Junk /\ ~IsHeader(Junk)
  BY <1>6, PartHeader, PartIsWhole DEF IsHeader
<1> HIDE DEF head, B
<1>9. /\ J[1].now = head /\ J[1].disk = Found[1].disk \cup {head, Junk}
      /\ \A i \in 1 .. JournalLen : J[i].now \in J[i].disk
  <2>1. 1 \in 1 .. JournalLen
    OBVIOUS
  <2> QED
    BY <1>4, <1>7, <2>1, CellWritten, PutIsLeft
<1>10. NoHeader(J) /\ Stops(J, 1)
  BY <1>2, <1>8, <1>9 DEF NoHeader, Stops
<1>11. \A i \in 1 .. 2 - 1 : J[i].now.kind # "record"
  BY <1>8, <1>9
<1>12. \A p \in 1 .. P.origSize : db[p].disk = {B[p]}
  BY <1>3, <1>5 DEF Clean, Pages
<1>13. PagesOK(P, db, txns)
  <2>1. ASSUME NEW p \in Pages
        PROVE  /\ P.cache[p] \in {Nothing, db[p].now}
               /\ IF p > P.size THEN db[p].now = Nothing ELSE IsPage(db[p].now, txns)
    <3>1. P.cache[p] \in {Nothing, db[p].now}
      BY <1>2, <1>3 DEF ReadOK, CacheOf
    <3>2. IF p > P.size THEN db[p].now = Nothing ELSE IsPage(db[p].now, txns)
      BY <1>1, <1>3, <1>5 DEF SizeIs, IsImage
    <3> QED
      BY <3>1, <3>2
  <2>2. P.origSize + 1 .. P.size = {}
    BY <1>5, <1>6
  <2> QED
    BY <1>2, <2>1, <2>2 DEF PagesOK
<1>14. MayLog(P, J, 1, 2, db, B, txns)
  BY <1>3, <1>5, <1>6, <1>8, <1>9, <1>10, <1>11, <1>12, <1>13 DEF MayLog
<1> QED
  BY <1>8, <1>9, <1>10, <1>14 DEF B

LEMMA NextMayLog ==
    ASSUME FLP!LocksInv, PagerInv, LinkInv, RecInv, NEW c \in Conns, Idle(c), Writing(c)
    PROVE  /\ StartedFor(c) = Found
           /\ MayLog(pager[c], Found, pager[c].hdr, pager[c].off, db, Image, txns)
           /\ pager[c].hdr # 1 => Settled
           /\ pager[c].hdr = 1 => NoHeader(Found)
           /\ Found[1].now = Junk => Settled
           /\ held[c] = EXCLUSIVE_LOCK \/ NoHeader(Found)
<1> USE PagerAssumption
<1> DEFINE P == pager[c]
           B == Image
<1>1. PagerOK(P) /\ Fits(P, held[c], c \in reserved) /\ P.at = "idle"
      /\ P.eState \in {"WRITER_CACHEMOD", "WRITER_DBMOD"}
  BY DEF PagerInv, Good, Idle, Writing
<1>2. Logging(P)
  BY <1>1 DEF Fits, Logging
<1>3. /\ LogOK(P, Found) /\ LogMore(P, Found, db, B, txns) /\ ModOK(P, db, B, txns)
  BY <1>2, LoggingFacts
<1>4. /\ HeadOK(P, Found) /\ LogsOld(P, Found, B) /\ Untouched(P, Found, db, B) /\ PagesOK(P, db, txns)
      /\ VersOK(P, B, txns) /\ (P.hdr = 1 <=> P.eState = "WRITER_CACHEMOD")
      /\ (P.hdr = 1 => Found[1].now.kind = "header")
  BY <1>3 DEF LogMore
<1>5. Stops(Found, P.hdr)
  BY <1>1, <1>4 DEF HeadOK
<1>6. P.hdr = 1 => NoHeader(Found)
  BY <1>5 DEF Stops, NoHeader
<1>7. MayLog(P, Found, P.hdr, P.off, db, B, txns)
  <2>1. P.vers = B[1].ctr
    BY <1>1, <1>4 DEF VersOK
  <2> QED
    BY <1>1, <1>3, <1>4, <1>5, <2>1 DEF MayLog, ModOK, LogsOld, Untouched
<1>8. StartedFor(c) = Found
  BY <1>1, OwnerLinks DEF StartedFor
<1>9. P.hdr # 1 => Settled
  BY <1>2, HeadSeen
<1>10. Found[1].now = Junk => Settled
  BY DEF RecInv, FilesRecover
<1>11. P.hdr # 1 => held[c] = EXCLUSIVE_LOCK
  BY <1>1, <1>4 DEF Fits
<1> QED
  BY <1>6, <1>7, <1>8, <1>9, <1>10, <1>11

LEMMA FilledHas ==
    ASSUME NEW P, IsPager(P), NEW e, NEW id, NEW sync, NEW hdr, NEW off, NEW logged, NEW unsafe,
           NEW cache, NEW dirty, NEW size, NEW job, NEW at, NEW Q,
           Q = Filled(P, e, id, sync, hdr, off, logged, unsafe, cache, dirty, size, job, at)
    PROVE  Q.cache = cache /\ Q.size = size /\ Q.dirSync = sync /\ Q.vers = P.vers
  BY DEF IsPager, Fields, Filled

(* The value that a page had before the transaction is the one to log.     *)
LEMMA OldIsLogged ==
    ASSUME NEW P, NEW J, NEW hdr, NEW off, NEW file, NEW B, NEW t, MayLog(P, J, hdr, off, file, B, t),
           NEW p \in 1 .. P.origSize, p \notin P.inJournal, p \notin P.dirty, P.cache[p] # Nothing,
           hdr \in Nat, off \in Nat, hdr <= off,
           \A q \in Pages : file[q].now \in file[q].disk
    PROVE  P.cache[p] = B[p]
<1>1. p \in Pages
  <2>1. P.origSize \in Pages
    BY DEF MayLog, SizeIs
  <2> QED
    BY <2>1, PagerAssumption DEF Pages
<1>2. P.cache[p] = file[p].now
  BY <1>1 DEF MayLog, PagesOK
<1>3. ~LogsPage(J, hdr, p)
  BY DEF MayLog, LogsPage
<1>4. file[p].disk = {B[p]}
  BY <1>3 DEF MayLog
<1> QED
  BY <1>1, <1>2, <1>4

LEMMA AppendedIs ==
    ASSUME NEW J, IsFile(J), NEW off \in 1 .. JournalLen, NEW p, NEW data, NEW txn, NEW K,
           K = Appended(J, off, p, data, txn), \A i \in 1 .. JournalLen : J[i].now \in J[i].disk
    PROVE  /\ \A i \in 1 .. JournalLen : i # off => K[i] = J[i]
           /\ \A i \in 1 .. JournalLen : K[i].now \in K[i].disk
           /\ K[off].now.kind = "record" /\ K[off].now.pgno = p /\ K[off].now.data = data
<1>1. K[off] = Log(J[off], Record(p, data, txn)) /\ \A i \in 1 .. JournalLen : i # off => K[i] = J[i]
  BY DEF Appended, IsFile
<1>2. K[off].now = Record(p, data, txn) /\ K[off].now \in K[off].disk
  BY <1>1 DEF Log
<1> QED
  BY <1>1, <1>2 DEF Record

(* Pager Q and journal K are what a write to page p makes of P and J.      *)
PutOf(P, Q, J, K, hdr, off, end, p, value, B, t) ==
    /\ hdr \in 1 .. JournalLen /\ off \in hdr + 1 .. JournalLen + 1
    /\ p \in Pages /\ p <= P.size + 1 /\ Own(value, t)
    /\ \A i \in 1 .. off - 1 : K[i] = J[i]
    /\ \/ end = off
       \/ /\ end = off + 1 /\ p \in 1 .. P.origSize
          /\ K[off].now.pgno = p /\ K[off].now.data = B[p]
    /\ Q.at \notin {"header", "failed", "write"} /\ Q.job \in {"none", "commit"}
    /\ Q.jfd # Nothing /\ Q.hdr = hdr /\ Q.off = end /\ Q.txn = P.txn /\ Q.origSize = P.origSize
    /\ Q.vers = P.vers /\ Q.size = (IF p > P.size THEN p ELSE P.size)
    /\ Q.eState \in {"WRITER_CACHEMOD", "WRITER_DBMOD"}
    /\ Q.eState = "WRITER_CACHEMOD" <=> hdr = 1
    /\ Q.inJournal = (IF end = off + 1 THEN P.inJournal \cup {p} ELSE P.inJournal)
    /\ Q.dirty = P.dirty \cup {p} /\ Q.cache = [P.cache EXCEPT ![p] = value]
    /\ p > P.origSize \/ p \in P.inJournal \/ end = off + 1
    /\ Q.job = "commit" => p = 1 /\ value = Page(t, B[1].ctr + 1)

(* What is then known of the transaction.                                  *)
LEMMA LoggedMore ==
    ASSUME NEW P, NEW J, NEW hdr, NEW off, NEW file, NEW B, NEW t, MayLog(P, J, hdr, off, file, B, t),
           IsCache(P), NEW p, NEW K, NEW end, NEW value, NEW Q,
           PutOf(P, Q, J, K, hdr, off, end, p, value, B, t)
    PROVE  ModOK(Q, file, B, t) /\ LogMore(Q, K, file, B, t) /\ IsCache(Q)
<1> USE PagerAssumption
<1> USE DEF PutOf
<1>1. /\ P.txn = t /\ t \in Nat \ {0} /\ IsImage(B, t - 1) /\ SizeIs(B, P.origSize)
      /\ P.size \in Pages /\ P.origSize <= P.size /\ P.vers = B[1].ctr /\ P.cache[1] # Nothing
      /\ PagesOK(P, file, t) /\ P.origSize \in Pages
  BY DEF MayLog, SizeIs
<1>2. /\ Q.cache[p] = value /\ \A q \in Pages : q # p => Q.cache[q] = P.cache[q]
      /\ Q.cache = [q \in Pages |-> Q.cache[q]]
  BY DEF IsCache
<1>3. value # Nothing /\ IsPage(value, t)
  <2>1. PICK n \in 0 .. t : value = Page(t, n)
    BY DEF Own
  <2>2. value # Nothing
    BY <1>1, <2>1, ValuesAssumption DEF Page
  <2> QED
    BY <1>1, <2>1, <2>2 DEF IsPage
<1>4. Q.size \in Pages /\ P.origSize <= Q.size /\ P.size <= Q.size /\ p <= Q.size
  BY <1>1 DEF Pages
<1>5. Q.cache[1] # Nothing /\ 1 \in Pages
  BY <1>1, <1>2, <1>3 DEF Pages
<1>6. end \in Nat \ {0, 1} /\ end \in off .. off + 1
  OBVIOUS
<1>7. ModOK(Q, file, B, t)
  <2>1. Q.eState = "WRITER_CACHEMOD" => Clean(file, B)
    BY DEF MayLog
  <2> QED
    BY <1>1, <1>4, <1>5, <1>6, <2>1 DEF ModOK
<1>8. K[hdr] = J[hdr] /\ (hdr = 1 => K[1].now.kind = "header")
  <2>1. hdr \in 1 .. off - 1
    OBVIOUS
  <2> QED
    BY <2>1 DEF MayLog
<1>9. HeadOK(Q, K)
  BY <1>8 DEF HeadOK, MayLog, Stops
<1>10. LogsOld(Q, K, B)
  <2>1. SUFFICES ASSUME NEW i \in 1 .. end - 1, K[i].now.kind = "record"
                 PROVE  /\ K[i].now.pgno \in Q.inJournal /\ K[i].now.pgno \in 1 .. P.origSize
                        /\ K[i].now.data = B[K[i].now.pgno]
    BY DEF LogsOld
  <2>2. i \in 1 .. off - 1 \/ (i = off /\ end = off + 1)
    BY <1>6
  <2>3. CASE i \in 1 .. off - 1
    BY <2>1, <2>3 DEF MayLog
  <2>4. CASE i = off /\ end = off + 1
    BY <2>4
  <2> QED
    BY <2>2, <2>3, <2>4
<1>11. Untouched(Q, K, file, B)
  <2>1. \A i \in 1 .. hdr - 1 : i \in 1 .. off - 1
    OBVIOUS
  <2>2. \A q : LogsPage(J, hdr, q) => LogsPage(K, hdr, q)
    BY <2>1 DEF LogsPage
  <2> QED
    BY <2>2 DEF Untouched, MayLog
<1>12. PagesOK(Q, file, t)
  <2>1. Q.dirty \subseteq 1 .. Q.size
    BY <1>1, <1>4 DEF PagesOK, Pages
  <2>2. \A q \in Q.dirty : Own(Q.cache[q], t)
    <3>1. \A q \in P.dirty : q \in Pages
      BY <1>1 DEF PagesOK, Pages
    <3> QED
      BY <1>1, <1>2, <3>1 DEF PagesOK
  <2>3. ASSUME NEW q \in Pages \ Q.dirty
        PROVE  /\ Q.cache[q] \in {Nothing, file[q].now}
               /\ IF q > Q.size THEN file[q].now = Nothing ELSE IsPage(file[q].now, t)
               /\ q \in Q.inJournal \/ q \in Q.origSize + 1 .. Q.size => Own(file[q].now, t)
    <3>1. q # p /\ q \in Pages \ P.dirty
      OBVIOUS
    <3>2. /\ P.cache[q] \in {Nothing, file[q].now}
          /\ IF q > P.size THEN file[q].now = Nothing ELSE IsPage(file[q].now, t)
          /\ q \in P.inJournal \/ q \in P.origSize + 1 .. P.size => Own(file[q].now, t)
      BY <1>1, <3>1 DEF PagesOK
    <3>3. q > Q.size <=> q > P.size
      BY <1>1, <3>1 DEF Pages
    <3>4. q \in Q.inJournal => q \in P.inJournal
      BY <3>1
    <3>5. q \in P.origSize + 1 .. Q.size => q \in P.origSize + 1 .. P.size
      BY <1>1, <1>4, <3>3 DEF Pages
    <3> QED
      BY <1>2, <3>1, <3>2, <3>3, <3>4, <3>5
  <2> QED
    BY <2>1, <2>2, <2>3 DEF PagesOK
<1>13. VersOK(Q, B, t)
  <2>1. Q.job = "commit" => 1 \in Q.inJournal
    BY <1>1 DEF Pages
  <2> QED
    BY <1>1, <1>2, <2>1 DEF VersOK
<1>14. LogMore(Q, K, file, B, t)
  BY <1>8, <1>9, <1>10, <1>11, <1>12, <1>13 DEF LogMore
<1> QED
  BY <1>2, <1>7, <1>14 DEF IsCache

(* What a page is written upon, be it the first one or not.                *)
LEMMA StartIs ==
    ASSUME FLP!LocksInv, PagerInv, LinkInv, RecInv, NEW c \in Conns, Idle(c),
           pager[c].eState = "WRITER_LOCKED" \/ Writing(c), NEW J, J = StartedFor(c), NEW off, NEW hdr,
           off = IF pager[c].eState = "WRITER_LOCKED" THEN 2 ELSE pager[c].off,
           hdr = IF pager[c].eState = "WRITER_LOCKED" THEN 1 ELSE pager[c].hdr
    PROVE  /\ MayLog(pager[c], J, hdr, off, db, Image, txns)
           /\ \A i \in 1 .. JournalLen : J[i].now \in J[i].disk
           /\ hdr = 1 => NoHeader(J)
           /\ hdr # 1 \/ J[1].now = Junk => Settled /\ pager[c].jfd # Nothing
           /\ held[c] = EXCLUSIVE_LOCK \/ NoHeader(J)
<1>1. CASE pager[c].eState = "WRITER_LOCKED"
  <2>1. hdr = 1 /\ off = 2
    BY <1>1
  <2>2. /\ \A i \in 1 .. JournalLen : J[i].now \in J[i].disk
        /\ MayLog(pager[c], J, 1, 2, db, Image, txns)
        /\ NoHeader(J) /\ J[1].now # Junk
    BY <1>1, FirstMayLog
  <2> QED
    BY <2>1, <2>2
<1>2. CASE pager[c].eState # "WRITER_LOCKED"
  <2>1. hdr = pager[c].hdr /\ off = pager[c].off /\ Writing(c)
    BY <1>2
  <2>2. /\ J = Found
        /\ MayLog(pager[c], Found, pager[c].hdr, pager[c].off, db, Image, txns)
        /\ pager[c].hdr # 1 => Settled
        /\ pager[c].hdr = 1 => NoHeader(Found)
        /\ Found[1].now = Junk => Settled
        /\ held[c] = EXCLUSIVE_LOCK \/ NoHeader(Found)
    BY <2>1, NextMayLog
  <2>3. Logging(pager[c])
    BY <2>1 DEF PagerInv, Good, Fits, Writing, Idle, Logging
  <2>4. pager[c].jfd # Nothing /\ \A i \in 1 .. JournalLen : Found[i].now \in Found[i].disk
    BY <2>3, LoggingFacts
  <2> QED
    BY <2>1, <2>2, <2>4
<1> QED
  BY <1>1, <1>2

LEMMA PutPageRecovers ==
    ASSUME FLP!LocksInv, PagerInv, LinkInv, RecInv, PagerInv',
           NEW c \in Conns, NEW p \in Pages, NEW value, NEW job, NEW at,
           Idle(c), pager[c].eState = "WRITER_LOCKED" \/ Writing(c),
           PutPage(c, p, value, job, at), UNCHANGED <<locks, db, txns>>,
           p <= pager[c].size + 1, p \in 2 .. pager[c].size => pager[c].cache[p] # Nothing,
           Own(value, txns),
           \/ job = "none" /\ at = "idle" /\ p # 1
           \/ /\ job = "commit" /\ Writing(c) /\ at = ToExclusive(c)
              /\ p = 1 /\ value = Page(txns, Image[1].ctr + 1)
    PROVE  Keeps
<1> USE PagerAssumption
<1> DEFINE P      == pager[c]
           B      == Image
           id     == JournalFor(c)
           J      == StartedFor(c)
           first  == P.eState = "WRITER_LOCKED"
           off    == IF first THEN 2 ELSE P.off
           hdr    == IF first THEN 1 ELSE P.hdr
           log    == p <= P.origSize /\ p \notin P.inJournal
           more   == p > P.origSize /\ P.eState # "WRITER_DBMOD"
           K      == IF log THEN Appended(J, off, p, P.cache[p], P.txn) ELSE J
           end    == IF log THEN off + 1 ELSE off
           logged == IF log THEN P.inJournal \cup {p} ELSE P.inJournal
           unsafe == IF log \/ more THEN P.needSync \cup {p} ELSE P.needSync
           sync   == P.dirSync \/ P.jfd = Nothing
           cache  == [P.cache EXCEPT ![p] = value]
           dirty  == P.dirty \cup {p}
           size   == IF p > P.size THEN p ELSE P.size
           state  == IF first THEN "WRITER_CACHEMOD" ELSE P.eState
           Q      == Dirtied(P, p, value, id, log, job, at)
<1>1. /\ PagerOK(P) /\ Fits(P, held[c], c \in reserved) /\ FilesOK /\ P.at = "idle"
      /\ P.eState \in {"WRITER_LOCKED", "WRITER_CACHEMOD", "WRITER_DBMOD"} /\ IsPager(P)
  BY DEF PagerInv, Good, Writing, PagerOK, Idle
<1>2. /\ pager' = [pager EXCEPT ![c] = Q]
      /\ jrnl' = [jrnl EXCEPT ![id] = K]
      /\ dir' = IF P.jfd # Nothing \/ dir.now # Nothing THEN dir
                ELSE [now |-> id, disk |-> dir.disk \cup {id}]
      /\ log => off <= JournalLen
      /\ P.jfd = Nothing /\ dir.now = Nothing => ~(Journals \subseteq dir.disk)
  <2>1. pager' = [pager EXCEPT ![c] = Q]
    BY DEF PutPage, Set, JournalFor
  <2>2. jrnl' = [jrnl EXCEPT ![id] = K]
    BY DEF PutPage, JournalFor, CellsFor, StartedFor, Appended
  <2>3. /\ dir' = IF P.jfd # Nothing \/ dir.now # Nothing THEN dir
                  ELSE [now |-> id, disk |-> dir.disk \cup {id}]
        /\ log => off <= JournalLen
        /\ P.jfd = Nothing /\ dir.now = Nothing => ~(Journals \subseteq dir.disk)
    BY DEF PutPage, JournalFor
  <2> QED
    BY <2>1, <2>2, <2>3
<1>3. /\ id \in Journals /\ IsFile(J)
      /\ hdr \in 1 .. JournalLen /\ off \in hdr + 1 .. JournalLen + 1
      /\ \A q \in P.dirty : q <= P.origSize => q \in P.inJournal
  BY <1>2, PutPageStarts
<1>4. /\ MayLog(P, J, hdr, off, db, B, txns)
      /\ \A i \in 1 .. JournalLen : J[i].now \in J[i].disk
      /\ hdr = 1 => NoHeader(J)
      /\ hdr # 1 \/ J[1].now = Junk => Settled /\ P.jfd # Nothing
      /\ held[c] = EXCLUSIVE_LOCK \/ NoHeader(J)
  BY StartIs
<1>5. /\ SeenIsLeft /\ txns \in Nat
      /\ ConnOK(P, Found, db, B, txns, Settled)
      /\ KnowsJournal(P, held[c], c \in reserved, Found, dir.now, Settled)
  BY DEF RecInv, FilesRecover, Recovers
<1>6. IsCache(P) /\ P.vers \in Nat
  BY <1>5 DEF ConnOK
<1>7. /\ IsPager(Q) /\ Q.eState = state /\ Q.jfd = id /\ Q.hdr = hdr /\ Q.off = end
      /\ Q.inJournal = logged /\ Q.dirty = dirty /\ Q.job = job /\ Q.at = at
      /\ Q.txn = P.txn /\ Q.origSize = P.origSize /\ Q.mode = P.mode
      /\ Q.cache = cache /\ Q.size = size /\ Q.dirSync = sync /\ Q.vers = P.vers
  <2>1. Q = Filled(P, state, id, sync, hdr, end, logged, unsafe, cache, dirty, size, job, at)
    BY DEF Dirtied, Filled
  <2> HIDE DEF Q, P, id, first, off, hdr, log, more, end, logged, unsafe, state, sync, cache, dirty, size
  <2> QED
    BY <1>1, <2>1, FilledIsPager, FilledHas
<1> HIDE DEF Q, J
<1>8. P.origSize <= P.size /\ P.size \in Nat /\ P.origSize \in Nat /\ P.cache[1] # Nothing /\ P.txn = txns
      /\ IsImage(B, txns - 1) /\ txns - 1 \in Nat /\ p \in Nat \ {0}
  <2>1. P.origSize <= P.size /\ P.size \in Pages /\ P.origSize \in Pages
    BY <1>4 DEF MayLog, SizeIs
  <2> QED
    BY <1>4, <2>1 DEF MayLog, Pages
<1>9. ASSUME log
      PROVE  /\ off \in hdr + 1 .. JournalLen /\ off \in 1 .. JournalLen
             /\ p \in 1 .. P.origSize /\ P.cache[p] = B[p]
  <2>1. p \in 1 .. P.origSize /\ p \notin P.inJournal /\ p \notin P.dirty
    BY <1>3, <1>8, <1>9
  <2>2. off \in hdr + 1 .. JournalLen /\ off \in 1 .. JournalLen
    BY <1>2, <1>3, <1>9
  <2>3. P.cache[p] # Nothing
    BY <1>8, <2>1
  <2>4. hdr \in Nat /\ off \in Nat /\ hdr <= off
    BY <1>3
  <2>5. \A q \in Pages : db[q].now \in db[q].disk
    BY <1>5 DEF SeenIsLeft
  <2> HIDE DEF hdr, off, B, P
  <2>6. P.cache[p] = B[p]
    BY <1>4, <2>1, <2>3, <2>4, <2>5, OldIsLogged
  <2> QED
    BY <2>1, <2>2, <2>6
<1>10. /\ \A i \in 1 .. off - 1 : K[i] = J[i]
       /\ \A i \in 1 .. JournalLen : K[i].now \in K[i].disk
       /\ log => K[off].now.kind = "record" /\ K[off].now.pgno = p /\ K[off].now.data = B[p]
  <2>1. CASE log
    <3>1. K = Appended(J, off, p, P.cache[p], P.txn)
      BY <2>1
    <3>2. /\ off \in 1 .. JournalLen /\ P.cache[p] = B[p]
      BY <1>9, <2>1
    <3>3. \A i \in 1 .. off - 1 : i \in 1 .. JournalLen /\ i # off
      BY <3>2
    <3> HIDE DEF K, off, B, log
    <3>4. /\ \A i \in 1 .. JournalLen : i # off => K[i] = J[i]
          /\ \A i \in 1 .. JournalLen : K[i].now \in K[i].disk
          /\ K[off].now.kind = "record" /\ K[off].now.pgno = p /\ K[off].now.data = P.cache[p]
      BY <1>3, <1>4, <3>1, <3>2, AppendedIs
    <3> QED
      BY <3>2, <3>3, <3>4
  <2>2. CASE ~log
    BY <1>4, <2>2
  <2> QED
    BY <2>1, <2>2
<1> HIDE DEF K
<1>11. 1 \in 1 .. off - 1 /\ K[1] = J[1]
  <2>1. 1 \in 1 .. off - 1
    BY <1>3
  <2> QED
    BY <1>10, <2>1
<1>12. ModOK(Q, db, B, txns) /\ LogMore(Q, K, db, B, txns) /\ IsCache(Q)
  <2>1. \/ end = off
        \/ /\ end = off + 1 /\ p \in 1 .. P.origSize
           /\ K[off].now.pgno = p /\ K[off].now.data = B[p]
    BY <1>9, <1>10
  <2>2. Q.inJournal = IF end = off + 1 THEN P.inJournal \cup {p} ELSE P.inJournal
    <3>1. off + 1 # off
      BY <1>3
    <3> QED
      BY <1>7, <3>1
  <2>3. p > P.origSize \/ p \in P.inJournal \/ end = off + 1
    BY <1>8
  <2>4. Q.at \notin {"header", "failed", "write"} /\ Q.job \in {"none", "commit"}
    BY <1>7 DEF ToExclusive
  <2>5. Q.jfd # Nothing
    BY <1>3, <1>7
  <2>6. Q.eState \in {"WRITER_CACHEMOD", "WRITER_DBMOD"} /\ (Q.eState = "WRITER_CACHEMOD" <=> hdr = 1)
    BY <1>1, <1>4, <1>7 DEF MayLog
  <2>7. Q.job = "commit" => p = 1 /\ value = Page(txns, B[1].ctr + 1)
    BY <1>7
  <2>8. /\ Q.hdr = hdr /\ Q.off = end /\ Q.txn = P.txn /\ Q.origSize = P.origSize
        /\ Q.vers = P.vers /\ Q.size = IF p > P.size THEN p ELSE P.size
        /\ Q.dirty = P.dirty \cup {p} /\ Q.cache = [P.cache EXCEPT ![p] = value]
    BY <1>7
  <2> HIDE DEF P, B, end, off, hdr, id, first, log, more, logged, unsafe, sync, cache, dirty, size, state
  <2>9. p <= P.size + 1
    BY DEF P
  <2>10. PutOf(P, Q, J, K, hdr, off, end, p, value, B, txns)
    BY <1>3, <1>10, <2>1, <2>2, <2>3, <2>4, <2>5, <2>6, <2>7, <2>8, <2>9 DEF PutOf
  <2> QED
    BY <1>4, <1>6, <2>10, LoggedMore
<1>13. held'[c] = held[c] /\ OthersKeepLocks(c)
  BY LockMoves
<1>14. /\ dir'.now = id /\ dir'.now \in dir'.disk /\ dir'.disk \subseteq dir.disk \cup {id}
       /\ P.jfd # Nothing \/ dir.now # Nothing => dir' = dir
  <2>1. dir.now # Nothing => id = dir.now
    BY OwnerLinks
  <2>2. P.jfd # Nothing => dir.now = P.jfd /\ id = P.jfd
    BY OwnerLinks DEF JournalFor
  <2>3. dir.now \in dir.disk
    BY <1>5 DEF SeenIsLeft
  <2> HIDE DEF id
  <2>4. CASE P.jfd # Nothing \/ dir.now # Nothing
    <3>1. dir' = dir /\ id = dir.now
      BY <1>2, <2>1, <2>2, <2>4
    <3> QED
      BY <2>3, <3>1
  <2>5. CASE ~(P.jfd # Nothing \/ dir.now # Nothing)
    <3>1. dir' = [now |-> id, disk |-> dir.disk \cup {id}]
      BY <1>2, <2>5
    <3> QED
      BY <2>5, <3>1
  <2> QED
    BY <2>4, <2>5
<1>15. ~Q.dirSync => Settled'
  <2>1. ~Q.dirSync => P.jfd # Nothing /\ ~P.dirSync
    BY <1>7
  <2>2. P.jfd # Nothing /\ ~P.dirSync => Settled
    BY <1>1, <1>5 DEF KnowsJournal, IsWriter
  <2> QED
    BY <1>14, <2>1, <2>2 DEF Settled
<1>16. Settled /\ dir.now # Nothing => Settled'
  BY <1>14 DEF Settled
<1>17. NoHeader(J) => NoHeader(K)
  BY <1>11 DEF NoHeader
<1>18. \/ Settled'
       \/ /\ NoHeader(K) /\ K[1].now # Junk /\ db' = db
          /\ \A f \in dir'.disk \ {dir'.now} : f \in dir.disk /\ Of(f)' = Of(f)
  <2>1. CASE hdr # 1 \/ J[1].now = Junk
    <3>1. Settled /\ P.jfd # Nothing
      BY <1>4, <2>1
    <3>2. Settled'
      BY <1>14, <3>1 DEF Settled
    <3> QED
      BY <3>2
  <2>2. CASE hdr = 1 /\ J[1].now # Junk
    <3>1. NoHeader(K) /\ K[1].now # Junk
      BY <1>4, <1>11, <1>17, <2>2
    <3>2. \A f \in dir'.disk \ {dir'.now} : f \in dir.disk /\ Of(f)' = Of(f)
      <4>1. SUFFICES ASSUME NEW f \in dir'.disk, f # id PROVE f \in dir.disk /\ Of(f)' = Of(f)
        BY <1>14
      <4>2. f \in dir.disk
        BY <1>14, <4>1
      <4>3. f \in Journals \cup {Nothing}
        BY <1>1, <4>2 DEF FilesOK
      <4>4. f # Nothing => jrnl'[f] = jrnl[f]
        BY <1>1, <1>2, <4>1, <4>3 DEF FilesOK
      <4> QED
        BY <4>2, <4>4 DEF Of
    <3> QED
      BY <3>1, <3>2
  <2> QED
    BY <2>1, <2>2
<1>19. Logging(Q)
  <2>1. Q.eState \in {"WRITER_CACHEMOD", "WRITER_DBMOD"} /\ Q.job # "rollback"
    BY <1>1, <1>7
  <2>2. Q.at \in {"idle", "exclusive", "records"}
    BY <1>7 DEF ToExclusive
  <2> QED
    BY <2>1, <2>2 DEF Logging
<1>20. Owner(c)
  BY <1>1 DEF Owner, IsWriter
<1>21. Q.at # "lock" /\ Q.at # "open" /\ Q.at # "failed"
  BY <1>7 DEF ToExclusive
<1>22. jrnl' = [jrnl EXCEPT ![Q.jfd] = K] /\ dir'.now = Q.jfd
  BY <1>2, <1>7, <1>14
<1>23. ModOK(Q, db', Image, txns) /\ LogMore(Q, K, db', Image, txns)
  BY <1>12
<1>24. \A q \in Pages : db'[q].now \in db'[q].disk
  BY <1>5 DEF SeenIsLeft
<1>25. Q.vers \in Nat /\ txns' = txns /\ IsCache(Q)
  BY <1>6, <1>7, <1>12
<1>26. held[c] = EXCLUSIVE_LOCK \/ NoHeader(K)
  BY <1>4, <1>17
<1> HIDE DEF P, B, id, first, off, hdr, log, more, end, logged, unsafe, sync, cache, dirty, size, state
<1> QED
  BY <1>2, <1>10, <1>13, <1>14, <1>15, <1>16, <1>18, <1>19, <1>20, <1>21, <1>22, <1>23, <1>24, <1>25, <1>26, LogStepRecovers

LEMMA WriteRecovers ==
    ASSUME FLP!LocksInv, PagerInv, LinkInv, RecInv, PagerInv', NEW c \in Conns,
           BeginCommit(c) \/ \E p \in Pages : Write(c, p)
    PROVE  Keeps
<1> USE PagerAssumption
<1> DEFINE P == pager[c]
           B == Image
<1>1. /\ ConnOK(P, Found, db, B, txns, Settled) /\ PagerOK(P) /\ Fits(P, held[c], c \in reserved)
      /\ txns \in Nat
  BY DEF RecInv, Recovers, PagerInv, Good
<1>2. CASE BeginCommit(c)
  <2>1. /\ Idle(c) /\ Writing(c) /\ UNCHANGED <<locks, db, txns>>
        /\ PutPage(c, 1, Page(P.txn, P.vers + 1), "commit", ToExclusive(c))
    BY <1>2 DEF BeginCommit
  <2>2. Logging(P)
    BY <1>1, <2>1 DEF Fits, Writing, Idle, Logging
  <2>3. ModOK(P, db, B, txns) /\ LogMore(P, Found, db, B, txns) /\ IsImage(B, txns - 1) /\ txns - 1 \in Nat
        /\ P.txn = txns
    BY <2>2, LoggingFacts
  <2>4. P.vers = B[1].ctr /\ P.size \in Pages
    BY <2>1, <2>3 DEF LogMore, VersOK, Idle, ModOK
  <2>5. B[1].ctr \in 0 .. txns - 1
    BY <2>3, ImageOf
  <2>6. B[1].ctr + 1 \in 0 .. txns
    <3> HIDE DEF B
    <3>1. \A n, t : t - 1 \in Nat /\ t \in Nat /\ n \in 0 .. t - 1 => n + 1 \in 0 .. t
      OBVIOUS
    <3> QED
      BY <1>1, <2>3, <2>5, <3>1
  <2> DEFINE value == Page(txns, B[1].ctr + 1)
  <2>7. Own(value, txns)
    BY <2>6 DEF Own
  <2>8. 1 \in Pages /\ 1 <= P.size + 1 /\ 1 \notin 2 .. P.size
    BY <2>4 DEF Pages
  <2>9. PutPage(c, 1, value, "commit", ToExclusive(c))
    BY <2>1, <2>3, <2>4
  <2> HIDE DEF value
  <2>10. value = Page(txns, Image[1].ctr + 1)
    BY DEF value
  <2> QED
    BY <2>1, <2>7, <2>8, <2>9, <2>10, PutPageRecovers
<1>3. ASSUME NEW p \in Pages, Write(c, p)
      PROVE  Keeps
  <2>1. /\ Idle(c) /\ (P.eState = "WRITER_LOCKED" \/ Writing(c)) /\ UNCHANGED <<locks, db, txns>>
        /\ p \in 2 .. P.size => P.cache[p] # Nothing
        /\ p # 1 /\ p <= P.size + 1
        /\ PutPage(c, p, Page(P.txn, 0), "none", "idle")
    BY <1>3 DEF Write
  <2>2. P.txn = txns
    BY <1>1, <2>1 DEF ConnOK, LockedOK, ModOK, Writing
  <2> DEFINE value == Page(txns, 0)
  <2>3. Own(value, txns)
    BY <1>1 DEF Own
  <2>4. PutPage(c, p, value, "none", "idle")
    BY <2>1, <2>2
  <2> HIDE DEF value
  <2> QED
    BY <2>1, <2>3, <2>4, PutPageRecovers
<1> QED
  BY <1>2, <1>3

------------------------------------------------------------------------------
(* Hot journals                                                            *)

(* A step of the one connection that may write, to the same image.         *)
LEMMA OwnerWrites ==
    ASSUME FLP!LocksInv, PagerInv, LinkInv, RecInv, PagerInv', NEW c \in Conns, NEW Q,
           pager' = [pager EXCEPT ![c] = Q], OthersKeepLocks(c), Owner(c), txns' = txns,
           Q.at = "zeroed" => Q.job # "commit", SeenIsLeft',
           \A o \in Outcomes(Found') : Valid(o, db', Image),
           NoHeader(Found') \/ IsHeader(Found'[1].now) \/ Q.at = "zeroed",
           held[c] = EXCLUSIVE_LOCK \/ NoHeader(Found'),
           pager[c].mode = "persist" /\ dir.now # Nothing =>
               dir'.now # Nothing /\ (Settled => Settled'),
           \/ Settled'
           \/ /\ NoHeader(Found') /\ Found'[1].now # Junk
              /\ db' = db \/ \A o, C : Valid(o, db, C) => Valid(o, db', C)
              /\ \A f \in dir'.disk \ {dir'.now} : f \in dir.disk /\ Of(f)' = Of(f),
           Recovers(Q, held'[c], c \in reserved', Found', dir'.now, Settled', db', Image, txns)
    PROVE  Keeps
<1>1. FilesOK'
  BY DEF PagerInv
<1>2. FilesRecover' /\ Image' = Image /\ Risk' \subseteq Risk
  BY <1>1, WrittenFiles
<1>3. Recovers(Q, held'[c], c \in reserved', Found', dir'.now, Settled', db', Image', txns')
  BY <1>2
<1>4. Image' = Image \/ (held[c] = EXCLUSIVE_LOCK /\ Image'[1].ctr = Image[1].ctr + 1)
  BY <1>2
<1>5. RecInv'
  BY <1>2, <1>3, <1>4, OwnerRecovers
<1> QED
  BY <1>2, <1>5 DEF Keeps

(* While no commit is being finalized, any journal that is left is valid.  *)
LEMMA LeftIsValid ==
    ASSUME FLP!LocksInv, PagerInv, RecInv, NEW c \in Conns, Owner(c),
           pager[c].at # "zeroed" \/ pager[c].job # "commit"
    PROVE  ~Committed /\ \A o \in Outcomes(Found) : Valid(o, db, Image)
<1>1. \A o \in Conns : pager[o].at = "zeroed" => o = c
  BY FinalizerOwns, OneOwner
<1>2. ~Committed
  BY <1>1 DEF Committed
<1> QED
  BY <1>2 DEF RecInv, FilesRecover

LEMMA FoundIsFile ==
    ASSUME PagerInv, RecInv
    PROVE  /\ IsFile(Found) /\ \A i \in 1 .. JournalLen : Found[i].now \in Found[i].disk
           /\ Found[1].now \in Found[1].disk
           /\ FilesOK /\ SeenIsLeft /\ IsImage(Image, txns) /\ txns \in Nat
<1>1. FilesOK /\ SeenIsLeft /\ IsImage(Image, txns) /\ txns \in Nat
  BY DEF PagerInv, RecInv, FilesRecover
<1>2. IsFile(Found) /\ \A i \in 1 .. JournalLen : Found[i].now \in Found[i].disk
  BY <1>1, OfIsFile DEF Found, FilesOK
<1>3. 1 \in 1 .. JournalLen
  BY PagerAssumption
<1> QED
  BY <1>1, <1>2, <1>3

LEMMA TruncatedIs ==
    ASSUME SeenIsLeft, NEW n, db' = Truncated(n)
    PROVE  /\ \A p \in Pages : p > n => db'[p].now = Nothing
           /\ \A p \in Pages : ~(p > n) => db'[p] = db[p]
           /\ \A p \in Pages : db'[p].now \in db'[p].disk
           /\ \A p \in Pages : db'[p].now = db[p].now \/ p > n
  BY DEF SeenIsLeft, Truncated, Put

(* A journal that is synced leaves nothing but itself.                     *)
LEMMA FsyncLeaves ==
    ASSUME NEW J, IsFile(J), \A i \in 1 .. JournalLen : J[i].now \in J[i].disk
    PROVE  /\ IsFile(Fsync(J)) /\ \A i \in 1 .. JournalLen : Fsync(J)[i].now = J[i].now /\ Fsync(J)[i].disk = {J[i].now}
           /\ \A i \in 1 .. JournalLen : Fsync(J)[i].now \in Fsync(J)[i].disk
           /\ Outcomes(Fsync(J)) = {Now(J)}
<1>1. IsFile(Fsync(J)) /\ \A i \in 1 .. JournalLen : Fsync(J)[i].now = J[i].now /\ Fsync(J)[i].disk = {J[i].now}
  BY FsyncKeeps DEF OnDisk
<1>2. IsFile(Now(J)) /\ \A i \in 1 .. JournalLen : Now(J)[i] = J[i].now
  BY NowIsLeft
<1>3. Now(J) \in Outcomes(Fsync(J))
  BY <1>1, <1>2, IsLeft
<1>4. ASSUME NEW o \in Outcomes(Fsync(J)) PROVE o = Now(J)
  <2>1. IsFile(o) /\ \A i \in 1 .. JournalLen : o[i] \in Fsync(J)[i].disk
    BY <1>1, LeftOf
  <2>2. \A i \in 1 .. JournalLen : o[i] = Now(J)[i]
    BY <1>1, <1>2, <2>1
  <2> QED
    BY <1>2, <2>1, <2>2 DEF IsFile
<1> QED
  BY <1>1, <1>3, <1>4

(* A file of valid journal o, cut off at the size that the journal says.   *)
LEMMA CutIsValid ==
    ASSUME NEW o, NEW B, Valid(o, db, B), IsHeader(o[1]), SeenIsLeft, db' = Truncated(o[1].dbSize)
    PROVE  /\ Valid(o, db', B)
           /\ \A i \in Playback(o) : o[i].pgno \in Pages /\ o[i].data = B[o[i].pgno]
           /\ \A p \in Pages : db'[p].now = B[p] \/ \E i \in Playback(o) : o[i].pgno = p
<1> DEFINE n == o[1].dbSize
<1>1. /\ n \in Pages
      /\ \A i \in Playback(o) : o[i].pgno \in Pages /\ o[i].data = B[o[i].pgno]
      /\ \A p \in Pages : p > n => B[p] = Nothing
      /\ \A p \in Pages : \/ p > n
                          \/ \E i \in Playback(o) : o[i].pgno = p
                          \/ db[p].disk = {B[p]}
  BY DEF Valid
<1>2. /\ \A p \in Pages : p > n => db'[p].now = Nothing
      /\ \A p \in Pages : ~(p > n) => db'[p] = db[p]
      /\ \A p \in Pages : db'[p].now \in db'[p].disk
  BY TruncatedIs
<1>3. Valid(o, db', B)
  BY <1>1, <1>2 DEF Valid
<1>4. \A p \in Pages : db'[p].now = B[p] \/ \E i \in Playback(o) : o[i].pgno = p
  BY <1>1, <1>2
<1> QED
  BY <1>1, <1>3, <1>4

(* A connection that plays a hot journal.                                  *)
LEMMA HotConn ==
    ASSUME NEW Q, Q.eState = "OPEN", Q.at = "play", Q.job = "hot", Q.vers \in Nat, Q.txn = 0, IsCache(Q),
           NEW J, NEW file, NEW B, NEW t, NEW settled, OpenOK(Q, B), PlayOK(Q, J, file, B)
    PROVE  ConnOK(Q, J, file, B, t, settled)
  BY DEF ConnOK, Logging

LEMMA OpenHotJournalRecovers ==
    ASSUME FLP!LocksInv, PagerInv, LinkInv, RecInv, PagerInv', NEW c \in Conns, OpenHotJournal(c)
    PROVE  Keeps
<1> USE PagerAssumption
<1> DEFINE P == pager[c]
           B == Image
<1>1. /\ PagerOK(P) /\ Fits(P, held[c], c \in reserved) /\ P.at = "open" /\ txns' = txns
      /\ P.eState = "OPEN" /\ held[c] = EXCLUSIVE_LOCK /\ Owner(c)
  BY DEF PagerInv, Good, OpenHotJournal, At, Fits, Owner
<1>2. /\ IsFile(Found) /\ \A i \in 1 .. JournalLen : Found[i].now \in Found[i].disk
      /\ FilesOK /\ SeenIsLeft /\ IsImage(B, txns) /\ txns \in Nat
  BY FoundIsFile
<1>3. /\ ConnOK(P, Found, db, B, txns, Settled)
      /\ KnowsJournal(P, held[c], c \in reserved, Found, dir.now, Settled)
  BY DEF RecInv, Recovers
<1>4. P.vers \in Nat /\ P.txn = 0 /\ P.todo = {} /\ IsCache(P) /\ OpenOK(P, B)
  BY <1>1, <1>3 DEF ConnOK
<1>5. CASE dir.now = Nothing
  <2> DEFINE Q == [P EXCEPT !.at = "validate"]
  <2>1. pager' = [pager EXCEPT ![c] = Q] /\ FL!Downgrade(c) /\ UNCHANGED disk
    BY <1>5, GotoSets DEF OpenHotJournal
  <2>2. Differs(P, Q, {"at"}) /\ Q.at = "validate"
    BY <1>1 DEF PagerOK, IsPager, Fields, Differs
  <2> HIDE DEF Q
  <2>3. OthersKeepLocks(c) /\ held'[c] = SHARED_LOCK /\ c \notin reserved'
    BY <2>1, LockMoves, DownIsFree
  <2>4. NoHeader(Found)
    BY <1>5 DEF NoHeader, Found, Of, Blank, Synced, IsHeader
  <2>5. /\ Q.eState = "OPEN" /\ Q.vers = P.vers /\ Q.txn = P.txn /\ Q.todo = P.todo /\ Q.cache = P.cache
        /\ Q.mode = P.mode /\ Q.jfd = P.jfd /\ Q.dirSync = P.dirSync
    BY <1>1, <2>2 DEF Differs, Fields
  <2>6. OpenOK(Q, B) /\ IsCache(Q)
    BY <1>4, <2>5 DEF IsCache, OpenOK, EmptyCache, CacheOf
  <2>7. ConnOK(Q, Found, db, B, txns', Settled)
    BY <1>4, <2>2, <2>5, <2>6, OpenConn
  <2>8. KnowsJournal(Q, held'[c], c \in reserved', Found, dir.now, Settled)
    BY <1>1, <1>3, <2>2, <2>3, <2>4, <2>5 DEF KnowsJournal, IsWriter
  <2>9. P.at # "zeroed" /\ Q.at # "zeroed"
    BY <1>1, <2>2
  <2> QED
    BY <1>1, <2>1, <2>3, <2>7, <2>8, <2>9, QuietRecovers DEF Recovers
<1>6. CASE dir.now # Nothing
  <2> DEFINE j == Now(Found)
             R == [P EXCEPT !.jfd = dir.now, !.job = "hot", !.at = "play"]
             some == j[1].nRec > 0 \/ Playback(j) # {}
             S == IF some THEN Emptied(R) ELSE R
             T == [S EXCEPT !.off = 2, !.size = j[1].dbSize, !.todo = Playback(j)]
             Q == IF IsHeader(j[1]) THEN T ELSE R
             K == Fsync(Found)
  <2>1. /\ pager' = [pager EXCEPT ![c] = Q]
        /\ jrnl' = [jrnl EXCEPT ![dir.now] = K]
        /\ db' = (IF IsHeader(j[1]) THEN Truncated(j[1].dbSize) ELSE db)
        /\ UNCHANGED <<locks, dir>>
    <3>1. Found = jrnl[dir.now]
      BY <1>6 DEF Found, Of
    <3> QED
      BY <1>6, <3>1 DEF OpenHotJournal, Set
  <2>2. Differs(P, R, {"jfd", "job", "at"}) /\ R.jfd = dir.now /\ R.job = "hot" /\ R.at = "play"
    BY <1>1 DEF PagerOK, IsPager, Fields, Differs
  <2> HIDE DEF R
  <2>3. Differs(R, S, {"cache"}) /\ (some => EmptyCache(S) /\ IsCache(S)) /\ (~some => S = R)
    BY <2>2 DEF Differs, IsPager, Fields, Emptied, EmptyCache, IsCache
  <2> HIDE DEF S
  <2>4. Differs(S, T, {"off", "size", "todo"}) /\ T.off = 2 /\ T.todo = Playback(j)
    BY <2>3 DEF Differs, IsPager, Fields
  <2> HIDE DEF T, j
  <2>5. /\ Q.eState = "OPEN" /\ Q.mode = P.mode /\ Q.jfd = dir.now /\ Q.job = "hot"
        /\ Q.at = "play" /\ Q.vers = P.vers /\ Q.txn = P.txn /\ Q.dirSync = P.dirSync
        /\ IsHeader(j[1]) => Q.off = 2 /\ Q.todo = Playback(j) /\ Q.cache = S.cache
        /\ ~IsHeader(j[1]) => Q.off = P.off /\ Q.todo = P.todo /\ Q.cache = P.cache
    BY <1>1, <2>2, <2>3, <2>4 DEF Differs, Fields
  <2>6. R.cache = P.cache
    BY <2>2 DEF Differs, Fields
  <2> HIDE DEF Q
  <2>7. (EmptyCache(Q) \/ Q.cache = P.cache) /\ IsCache(Q) /\ (Q.todo # {} => EmptyCache(Q))
    <3>1. CASE IsHeader(j[1]) /\ some
      BY <2>3, <2>5, <3>1 DEF EmptyCache, IsCache
    <3>2. CASE IsHeader(j[1]) /\ ~some
      BY <1>4, <2>3, <2>5, <2>6, <3>2 DEF IsCache
    <3>3. CASE ~IsHeader(j[1])
      BY <1>4, <2>5, <3>3 DEF IsCache
    <3> QED
      BY <3>1, <3>2, <3>3
  <2>8. OpenOK(Q, B)
    BY <1>4, <2>5, <2>7 DEF OpenOK, EmptyCache, CacheOf
  <2>9. /\ IsFile(K) /\ \A i \in 1 .. JournalLen : K[i].now = j[i] /\ K[i].disk = {j[i]}
        /\ Outcomes(K) = {j} /\ IsFile(j) /\ j \in Outcomes(Found) /\ j[1] = Found[1].now
    BY <1>2, FsyncLeaves, NowIsLeft DEF j
  <2>10. Valid(j, db, B)
    BY <1>1, <2>9, LeftIsValid
  <2> HIDE DEF K, B
  <2>11. /\ jrnl'[dir.now] = K /\ Found' = K
         /\ \A id \in Journals : id # dir.now => jrnl'[id] = jrnl[id]
    <3>1. jrnl'[dir.now] = K /\ \A id \in Journals : id # dir.now => jrnl'[id] = jrnl[id]
      BY <1>2, <1>6, <2>1 DEF FilesOK
    <3> QED
      BY <1>6, <2>1, <3>1 DEF Found, Of
  <2>12. /\ Valid(j, db', B)
         /\ \A p \in Pages : db'[p].now \in db'[p].disk
         /\ IsHeader(j[1]) => /\ \A i \in Playback(j) : j[i].pgno \in Pages /\ j[i].data = B[j[i].pgno]
                              /\ \A p \in Pages : db'[p].now = B[p] \/ \E i \in Playback(j) : j[i].pgno = p
         /\ ~IsHeader(j[1]) => \A p \in Pages : db'[p].now = B[p]
    <3>1. CASE IsHeader(j[1])
      <4>1. db' = Truncated(j[1].dbSize)
        BY <2>1, <3>1
      <4> QED
        BY <1>2, <2>10, <3>1, <4>1, CutIsValid, TruncatedIs
    <3>2. CASE ~IsHeader(j[1])
      <4>1. db' = db /\ Clean(db, B)
        BY <2>1, <2>10, <3>2 DEF Valid
      <4> QED
        BY <1>2, <2>10, <3>2, <4>1 DEF Clean, SeenIsLeft
    <3> QED
      BY <3>1, <3>2
  <2>13. SeenIsLeft'
    <3>1. \A i \in 1 .. JournalLen : K[i].now \in K[i].disk
      BY <2>9
    <3> QED
      BY <1>2, <2>1, <2>11, <2>12, <3>1 DEF SeenIsLeft
  <2>14. 1 \in 1 .. JournalLen
    OBVIOUS
  <2>15. NoHeader(K) \/ IsHeader(K[1].now)
    BY <2>9, <2>14 DEF NoHeader
  <2>16. /\ Settled => Settled'
         /\ \/ Settled'
            \/ /\ NoHeader(Found') /\ Found'[1].now # Junk /\ db' = db
               /\ \A f \in dir'.disk \ {dir'.now} : f \in dir.disk /\ Of(f)' = Of(f)
    <3>1. Settled => Settled'
      BY <2>1 DEF Settled
    <3>2. CASE ~Settled
      <4>1. NoHeader(Found) /\ Found[1].now # Junk
        BY <3>2 DEF RecInv, FilesRecover
      <4>2. ~IsHeader(j[1])
        BY <1>2, <2>9, <2>14, <4>1 DEF NoHeader
      <4>3. NoHeader(K) /\ K[1].now # Junk /\ db' = db
        BY <2>1, <2>9, <2>14, <2>15, <4>1, <4>2
      <4>4. \A f \in dir'.disk \ {dir'.now} : f \in dir.disk /\ Of(f)' = Of(f)
        <5>1. SUFFICES ASSUME NEW f \in dir.disk, f # dir.now PROVE Of(f)' = Of(f)
          BY <2>1
        <5>2. f \in Journals \cup {Nothing}
          BY <1>2 DEF FilesOK
        <5>3. f # Nothing => jrnl'[f] = jrnl[f]
          BY <2>11, <5>1, <5>2
        <5> QED
          BY <5>3 DEF Of
      <4> QED
        BY <2>11, <3>1, <4>3, <4>4
    <3> QED
      BY <3>1, <3>2
  <2>17. PlayOK(Q, K, db', B)
    <3>1. CASE IsHeader(j[1])
      <4>1. Q.todo = Playback(j) /\ Q.off = 2
        BY <2>5, <3>1
      <4>2. Q.todo \subseteq 1 .. JournalLen
        BY <2>9, <4>1, PlaybackInside
      <4>3. ASSUME NEW i \in Q.todo
            PROVE  /\ K[i].now.pgno \in Pages /\ K[i].now.data = B[K[i].now.pgno]
                   /\ Covers(K, K[i].now.pgno)
        <5>1. K[i].now = j[i] /\ i \in Playback(j)
          BY <2>9, <4>1, <4>2
        <5>2. j[i].pgno \in Pages /\ j[i].data = B[j[i].pgno]
          BY <2>12, <3>1, <5>1
        <5>3. Covers(K, j[i].pgno)
          BY <2>9, <3>1, <5>1 DEF Covers
        <5> QED
          BY <5>1, <5>2, <5>3
      <4>4. \A p \in Pages : db'[p].now = B[p] \/ \E i \in Q.todo : ToFile(Q, i) /\ K[i].now.pgno = p
        <5>1. \A i \in Q.todo : ToFile(Q, i) /\ K[i].now = j[i]
          BY <2>5, <2>9, <4>2 DEF ToFile
        <5> QED
          BY <2>12, <3>1, <4>1, <5>1
      <4> QED
        BY <1>6, <2>5, <2>7, <4>1, <4>2, <4>3, <4>4 DEF PlayOK
    <3>2. CASE ~IsHeader(j[1])
      <4>1. Q.todo = {}
        BY <1>4, <2>5, <3>2
      <4>2. NoHeader(K)
        BY <2>9, <2>14, <3>2 DEF NoHeader
      <4> QED
        BY <1>6, <2>5, <2>12, <3>2, <4>1, <4>2 DEF PlayOK
    <3> QED
      BY <3>1, <3>2
  <2>18. ConnOK(Q, K, db', B, txns, Settled')
    BY <1>4, <2>5, <2>7, <2>8, <2>17, HotConn
  <2>19. held'[c] = EXCLUSIVE_LOCK /\ OthersKeepLocks(c) /\ dir' = dir
    BY <1>1, <2>1, LockMoves
  <2>20. KnowsJournal(Q, held'[c], c \in reserved', K, dir'.now, Settled')
    BY <1>1, <1>3, <2>5, <2>16, <2>19 DEF KnowsJournal, IsWriter
  <2>21. Recovers(Q, held'[c], c \in reserved', Found', dir'.now, Settled', db', Image, txns)
    BY <2>11, <2>18, <2>20 DEF Recovers, B
  <2>22. \A o \in Outcomes(Found') : Valid(o, db', Image)
    BY <2>9, <2>11, <2>12 DEF B
  <2>23. NoHeader(Found') \/ IsHeader(Found'[1].now)
    BY <2>11, <2>15
  <2>24. Q.at # "zeroed"
    BY <2>5
  <2> QED
    BY <1>1, <1>6, <2>1, <2>13, <2>16, <2>19, <2>21, <2>22, <2>23, <2>24, OwnerWrites
<1> QED
  BY <1>5, <1>6

------------------------------------------------------------------------------
(* Commits                                                                 *)

(* The database is synced: what is valid stays so.                         *)
LEMMA SyncIsValid ==
    ASSUME PagerInv, SeenIsLeft, db' = Fsync(db)
    PROVE  /\ \A p \in Pages : db'[p].now = db[p].now /\ db'[p].disk = {db[p].now}
           /\ \A p \in Pages : db'[p].now \in db'[p].disk
           /\ \A o, B : Valid(o, db, B) => Valid(o, db', B)
<1>1. \A p \in Pages : db'[p].now = db[p].now /\ db'[p].disk = {db[p].now} /\ db[p].now \in db[p].disk
  BY DEF PagerInv, FilesOK, Fsync, Synced, SeenIsLeft
<1>2. \A p \in Pages : \A v : db[p].disk = {v} => db'[p].disk = {v}
  BY <1>1
<1>3. ASSUME NEW o, NEW B, Valid(o, db, B) PROVE Valid(o, db', B)
  <2>1. Clean(db, B) => Clean(db', B)
    BY <1>2 DEF Clean
  <2> QED
    BY <1>2, <1>3, <2>1 DEF Valid
<1> QED
  BY <1>1, <1>3

(* A header that is left is there, unless it is being zeroed.              *)
LEMMA HeaderShows ==
    ASSUME FLP!LocksInv, PagerInv, RecInv, NEW c \in Conns, Owner(c), pager[c].at # "zeroed"
    PROVE  NoHeader(Found) \/ IsHeader(Found[1].now)
<1>1. \A o \in Conns : pager[o].at = "zeroed" => o = c
  BY FinalizerOwns, OneOwner
<1> QED
  BY <1>1 DEF RecInv, FilesRecover

(* A step that writes to the database only, and leaves what is valid so.   *)
LEMMA FileWrites ==
    ASSUME FLP!LocksInv, PagerInv, LinkInv, RecInv, PagerInv', NEW c \in Conns, NEW Q,
           pager' = [pager EXCEPT ![c] = Q], OthersKeepLocks(c), held[c] = EXCLUSIVE_LOCK,
           UNCHANGED <<dir, jrnl, txns>>, pager[c].at # "zeroed", Q.at # "zeroed",
           \A p \in Pages : db'[p].now \in db'[p].disk,
           \A o \in Outcomes(Found) : Valid(o, db', Image),
           Settled \/ db' = db \/ \A o, B : Valid(o, db, B) => Valid(o, db', B),
           Recovers(Q, held'[c], c \in reserved', Found, dir.now, Settled, db', Image, txns)
    PROVE  Keeps
<1>1. Owner(c)
  BY DEF Owner
<1>2. /\ Found' = Found /\ dir' = dir /\ Settled' = Settled
      /\ \A f \in dir'.disk \ {dir'.now} : f \in dir.disk /\ Of(f)' = Of(f)
  BY DEF Found, Of, Settled
<1>3. SeenIsLeft'
  BY DEF RecInv, FilesRecover, SeenIsLeft
<1>4. NoHeader(Found) \/ IsHeader(Found[1].now)
  BY <1>1, HeaderShows
<1>5. Settled \/ (NoHeader(Found) /\ Found[1].now # Junk)
  BY DEF RecInv, FilesRecover
<1>6. /\ \A o \in Outcomes(Found') : Valid(o, db', Image)
      /\ NoHeader(Found') \/ IsHeader(Found'[1].now) \/ Q.at = "zeroed"
      /\ Recovers(Q, held'[c], c \in reserved', Found', dir'.now, Settled', db', Image, txns)
  BY <1>2, <1>4
<1>7. \/ Settled'
      \/ /\ NoHeader(Found') /\ Found'[1].now # Junk
         /\ db' = db \/ \A o, C : Valid(o, db, C) => Valid(o, db', C)
         /\ \A f \in dir'.disk \ {dir'.now} : f \in dir.disk /\ Of(f)' = Of(f)
  BY <1>2, <1>5
<1>8. dir.now # Nothing => dir'.now # Nothing /\ (Settled => Settled')
  BY <1>2
<1> QED
  BY <1>1, <1>3, <1>6, <1>7, <1>8, OwnerWrites

(* Everything that the transaction wrote is in the file.                   *)
WrittenBy(P, J, file, B, t, Q, new, D) ==
    /\ ModOK(P, file, B, t) /\ LogMore(P, J, file, B, t)
    /\ P.hdr \in Nat /\ P.off \in Nat /\ P.hdr <= P.off
    /\ P.job = "commit" /\ P.dirty = {}
    /\ Differs(P, Q, {"at", "eState"}) /\ Q.at = "finalize"
    /\ \A p \in Pages : file[p].now \in file[p].disk
    /\ \A p \in Pages : new[p].now = file[p].now /\ new[p].disk = {file[p].now}
    /\ D = [p \in Pages |-> D[p]] /\ \A p \in Pages : D[p] = file[p].now

LEMMA CommitIsWritten ==
    ASSUME NEW P, NEW J, NEW file, NEW B, NEW t, NEW Q, NEW new, NEW D,
           WrittenBy(P, J, file, B, t, Q, new, D)
    PROVE  FinishedOK(Q, new, B, D, t, TRUE)
<1> USE PagerAssumption DEF WrittenBy
<1>1. /\ P.jfd # Nothing /\ P.off # 0 /\ P.txn = t /\ t \in Nat \ {0} /\ IsImage(B, t - 1)
      /\ SizeIs(B, P.origSize) /\ P.size \in Pages /\ P.origSize <= P.size /\ P.cache[1] # Nothing
  BY DEF ModOK
<1>2. PagesOK(P, file, t) /\ VersOK(P, B, t) /\ LogsOld(P, J, B) /\ Untouched(P, J, file, B)
  BY DEF LogMore
<1>3. /\ Q.jfd = P.jfd /\ Q.off = P.off /\ Q.txn = P.txn /\ Q.size = P.size /\ Q.cache = P.cache
      /\ Q.vers = P.vers /\ Q.origSize = P.origSize
  BY DEF Differs, Fields
<1>4. ASSUME NEW p \in Pages
      PROVE  /\ P.cache[p] \in {Nothing, D[p]}
             /\ IF p > P.size THEN D[p] = Nothing ELSE IsPage(D[p], t) /\ D[p] # Nothing
             /\ p \in P.inJournal \/ p \in P.origSize + 1 .. P.size => Own(D[p], t)
  <2>1. /\ P.cache[p] \in {Nothing, file[p].now}
        /\ IF p > P.size THEN file[p].now = Nothing ELSE IsPage(file[p].now, t)
        /\ p \in P.inJournal \/ p \in P.origSize + 1 .. P.size => Own(file[p].now, t)
    BY <1>2 DEF PagesOK
  <2>2. D[p] = file[p].now
    OBVIOUS
  <2>3. IsPage(D[p], t) => D[p] # Nothing
    <3>1. IsPage(D[p], t) => D[p] \in [by : Nat, ctr : Nat]
      <4>1. SUFFICES ASSUME NEW b \in 0 .. t, NEW n \in 0 .. t, D[p] = Page(b, n)
                     PROVE  D[p] \in [by : Nat, ctr : Nat]
        BY DEF IsPage
      <4> QED
        BY <1>1, <4>1 DEF Page
    <3> QED
      BY <3>1, ValuesAssumption
  <2> QED
    BY <2>1, <2>2, <2>3
<1>5. SizeIs(D, P.size)
  BY <1>1, <1>4 DEF SizeIs
<1>6. IsImage(D, t)
  <2>1. \A p \in Pages : D[p] # Nothing => IsPage(D[p], t)
    BY <1>4
  <2>2. D = [p \in Pages |-> D[p]]
    OBVIOUS
  <2> QED
    BY <1>1, <1>5, <2>1, <2>2 DEF IsImage
<1>7. Clean(new, D)
  BY DEF Clean
<1>8. 1 \in Pages
  BY DEF Pages
<1>9. /\ P.cache[1] = Page(t, B[1].ctr + 1) /\ P.vers = B[1].ctr + 1 /\ P.cache[1] = D[1]
      /\ D[1].ctr = B[1].ctr + 1
  BY <1>1, <1>2, <1>4, <1>8 DEF VersOK, Page
<1>10. SeesOwn(Q, new, B)
  <2>1. ASSUME NEW p \in 1 .. P.size PROVE D[p] = B[p] \/ Own(D[p], t)
    <3>2. p \in Pages
      BY <1>1 DEF Pages
    <3>3. CASE p \in P.inJournal \/ p > P.origSize
      <4>1. P.origSize \in Nat /\ P.size \in Nat
        BY <1>1 DEF SizeIs, Pages
      <4>2. p \in P.inJournal \/ p \in P.origSize + 1 .. P.size
        BY <3>3, <4>1
      <4> QED
        BY <1>4, <3>2, <4>2
    <3>4. CASE p \notin P.inJournal /\ ~(p > P.origSize)
      <4>1. P.origSize \in Nat
        BY <1>1 DEF SizeIs, Pages
      <4>2. p \in 1 .. P.origSize
        BY <3>4, <4>1
      <4>3. ~LogsPage(J, P.hdr, p)
        <5>1. \A i \in 1 .. P.hdr - 1 : i \in 1 .. P.off - 1
          OBVIOUS
        <5> QED
          BY <1>2, <3>4, <5>1 DEF LogsPage, LogsOld
      <4>4. file[p].disk = {B[p]}
        BY <1>2, <4>2, <4>3 DEF Untouched
      <4> QED
        BY <3>2, <4>4
    <3> QED
      BY <3>3, <3>4
  <2>2. \A p \in 1 .. P.size : p \in Pages
    BY <1>1 DEF Pages
  <2>3. \A p \in 1 .. P.size : Seen(Q, new, p) = D[p]
    BY <1>3, <1>4, <2>2 DEF Seen
  <2>4. Q.size = P.size /\ Q.txn = t
    BY <1>1, <1>3
  <2>5. \A p \in 1 .. P.size : Seen(Q, new, p) = B[p] \/ Own(Seen(Q, new, p), t)
    BY <2>1, <2>3
  <2> HIDE DEF WrittenBy
  <2> QED
    BY <2>4, <2>5 DEF SeesOwn
<1>11. CacheOf(P, D)
  BY <1>4 DEF CacheOf
<1>12. CacheOf(Q, D)
  BY <1>3, <1>11 DEF CacheOf
<1> QED
  BY <1>1, <1>3, <1>5, <1>6, <1>7, <1>9, <1>10, <1>12 DEF FinishedOK

LEMMA SyncDatabaseRecovers ==
    ASSUME FLP!LocksInv, PagerInv, LinkInv, RecInv, PagerInv', NEW c \in Conns, SyncDatabase(c)
    PROVE  Keeps
<1> USE PagerAssumption
<1> DEFINE P == pager[c]
           B == Image
           J == Found
           Q == [P EXCEPT !.at = "finalize",
                          !.eState = IF P.job = "commit" THEN "WRITER_FINISHED" ELSE @]
<1>1. /\ PagerOK(P) /\ Fits(P, held[c], c \in reserved) /\ held[c] = EXCLUSIVE_LOCK /\ Owner(c)
      /\ P.at # "zeroed"
      /\ pager' = [pager EXCEPT ![c] = Q] /\ db' = Fsync(db) /\ UNCHANGED <<locks, dir, jrnl, txns>>
      /\ \/ P.at = "write" /\ P.job = "commit" /\ P.dirty = {}
         \/ P.at = "play" /\ P.todo = {}
  BY DEF PagerInv, Good, SyncDatabase, At, Fits, Owner, Set
<1>2. OthersKeepLocks(c) /\ held'[c] = held[c] /\ reserved' = reserved
  BY <1>1, LockMoves
<1>3. /\ ConnOK(P, J, db, B, txns, Settled)
      /\ KnowsJournal(P, held[c], c \in reserved, J, dir.now, Settled)
      /\ SeenIsLeft /\ txns \in Nat
  BY DEF RecInv, FilesRecover, Recovers
<1>4. /\ \A p \in Pages : db'[p].now = db[p].now /\ db'[p].disk = {db[p].now}
      /\ \A p \in Pages : db'[p].now \in db'[p].disk
      /\ \A o, C : Valid(o, db, C) => Valid(o, db', C)
  BY <1>1, <1>3, SyncIsValid
<1>5. \A o \in Outcomes(J) : Valid(o, db', B)
  BY <1>1, <1>4, LeftIsValid
<1>6. Q.at = "finalize" /\ Differs(P, Q, {"at", "eState"})
      /\ Q.eState = IF P.job = "commit" THEN "WRITER_FINISHED" ELSE P.eState
  BY <1>1 DEF PagerOK, IsPager, Fields, Differs
<1> HIDE DEF Q
<1>7. /\ Q.job = P.job /\ Q.vers = P.vers /\ Q.cache = P.cache /\ Q.todo = P.todo /\ Q.txn = P.txn
      /\ Q.mode = P.mode /\ Q.jfd = P.jfd /\ Q.dirSync = P.dirSync /\ Q.off = P.off /\ Q.size = P.size
      /\ Q.origSize = P.origSize
  BY <1>6 DEF Differs, Fields
<1>8. P.vers \in Nat /\ IsCache(P) /\ IsCache(Q)
  BY <1>3, <1>7 DEF ConnOK, IsCache
<1>9. CASE P.at = "write"
  <2>1. P.job = "commit" /\ P.dirty = {} /\ P.eState = "WRITER_DBMOD"
    BY <1>1, <1>9 DEF Fits
  <2>2. Logging(P)
    BY <2>1 DEF Logging
  <2>3. LogOK(P, J) /\ LogMore(P, J, db, B, txns) /\ ModOK(P, db, B, txns) /\ Owner(c)
    BY <2>2, LoggingFacts
  <2>4. P.hdr # 1
    BY <2>1, <2>3 DEF LogMore
  <2>5. Settled
    BY <2>2, <2>4, HeadSeen
  <2>6. P.hdr \in Nat /\ P.off \in Nat /\ P.hdr <= P.off
    BY <2>3 DEF LogOK
  <2> DEFINE D == [p \in Pages |-> db[p].now]
  <2>7. FinishedOK(Q, db', B, D, txns, TRUE)
    <3>1. \A p \in Pages : db[p].now \in db[p].disk
      BY <1>3 DEF SeenIsLeft
    <3>2. D = [p \in Pages |-> D[p]] /\ \A p \in Pages : D[p] = db[p].now
      OBVIOUS
    <3>3. WrittenBy(P, J, db, B, txns, Q, db', D)
      <4> HIDE DEF B, J, D
      <4> QED
        BY <1>4, <1>6, <2>1, <2>3, <2>6, <3>1, <3>2 DEF WrittenBy
    <3> QED
      BY <3>3, CommitIsWritten
  <2>8. Now(db') = D
    <3>1. FilesOK'
      BY DEF PagerInv
    <3>2. Now(db') = [p \in Pages |-> db'[p].now]
      BY <3>1 DEF FilesOK, Now
    <3> QED
      BY <1>4, <3>2
  <2> HIDE DEF D
  <2>9. FinishedOK(Q, db', B, Now(db'), txns, Settled)
    BY <2>5, <2>7, <2>8
  <2>10. ConnOK(Q, J, db', B, txns, Settled)
    BY <1>6, <1>7, <1>8, <2>1, <2>9 DEF ConnOK, Logging
  <2>11. KnowsJournal(Q, held'[c], c \in reserved', J, dir.now, Settled)
    <3>1. IsWriter(P) /\ IsWriter(Q) /\ Q.eState # "WRITER_LOCKED"
      BY <1>6, <2>1 DEF IsWriter
    <3> QED
      BY <1>2, <1>3, <1>6, <1>7, <3>1, WriterKnows
  <2> QED
    BY <1>1, <1>2, <1>4, <1>5, <1>6, <2>10, <2>11, FileWrites DEF Recovers
<1>10. CASE P.at = "play"
  <2>1. P.todo = {} /\ P.job \in {"hot", "rollback"} /\ Q.eState = P.eState
        /\ P.eState \in {"OPEN", "WRITER_DBMOD"} /\ (P.job = "hot" <=> P.eState = "OPEN")
    BY <1>1, <1>6, <1>10 DEF Fits
  <2>2. PlayOK(P, J, db, B)
    BY <1>3, <1>10 DEF ConnOK
  <2>3. Clean(db', B)
    BY <1>4, <2>1, <2>2 DEF PlayOK, Clean
  <2>4. FinalOK(Q, J, db', B)
    BY <1>7, <2>1, <2>2, <2>3 DEF FinalOK, PlayOK
  <2>5. CASE P.eState = "OPEN"
    <3>1. Q.eState = "OPEN" /\ OpenOK(Q, B) /\ Q.txn = 0 /\ Q.todo = {}
      BY <1>3, <1>7, <2>1, <2>5 DEF ConnOK, OpenOK, EmptyCache, CacheOf
    <3>2. ConnOK(Q, J, db', B, txns, Settled)
      BY <1>6, <1>7, <1>8, <2>4, <3>1 DEF ConnOK, Logging
    <3>3. KnowsJournal(Q, held'[c], c \in reserved', J, dir.now, Settled)
      BY <1>1, <1>2, <1>3, <1>6, <1>7, <3>1 DEF KnowsJournal, IsWriter
    <3> QED
      BY <1>1, <1>2, <1>4, <1>5, <1>6, <3>2, <3>3, FileWrites DEF Recovers
  <2>6. CASE P.eState = "WRITER_DBMOD"
    <3>1. P.job = "rollback" /\ ModOK(P, db, B, txns)
      BY <1>3, <2>1, <2>6 DEF ConnOK
    <3>2. SeesOwn(Q, db', B)
      <4>1. P.size \in Pages /\ SeesOwn(P, db, B)
        BY <3>1 DEF ModOK
      <4>2. \A p \in 1 .. P.size : p \in Pages
        BY <4>1 DEF Pages
      <4> QED
        BY <1>4, <1>7, <4>1, <4>2 DEF SeesOwn, Seen
    <3>3. ModOK(Q, db', B, txns)
      BY <1>7, <2>1, <2>6, <3>1, <3>2 DEF ModOK
    <3>4. ConnOK(Q, J, db', B, txns, Settled)
      BY <1>6, <1>7, <1>8, <2>1, <2>4, <2>6, <3>1, <3>3 DEF ConnOK, Logging
    <3>5. KnowsJournal(Q, held'[c], c \in reserved', J, dir.now, Settled)
      <4>1. IsWriter(P) /\ IsWriter(Q) /\ Q.eState # "WRITER_LOCKED"
        BY <2>1, <2>6 DEF IsWriter
      <4> QED
        BY <1>2, <1>3, <1>6, <1>7, <4>1, WriterKnows
    <3> QED
      BY <1>1, <1>2, <1>4, <1>5, <1>6, <3>4, <3>5, FileWrites DEF Recovers
  <2> QED
    BY <2>1, <2>5, <2>6
<1> QED
  BY <1>1, <1>9, <1>10

------------------------------------------------------------------------------
(* Rolling the database back                                               *)

(* What the journal covers may be written over in the database.            *)
LEMMA CoveredWrites ==
    ASSUME NEW J, NEW B, NEW file, NEW new, \A o \in Outcomes(J) : Valid(o, file, B), NEW T,
           \A p \in T : Covers(J, p), \A p \in Pages \ T : new[p] = file[p]
    PROVE  \A o \in Outcomes(J) : Valid(o, new, B)
<1>1. SUFFICES ASSUME NEW o \in Outcomes(J) PROVE Valid(o, new, B)
  OBVIOUS
<1>2. Valid(o, file, B)
  OBVIOUS
<1>3. \A p \in T : IsHeader(o[1]) /\ \E k \in Playback(o) : o[k].pgno = p
  BY DEF Covers
<1>4. CASE IsHeader(o[1])
  <2>1. \A p \in Pages : \/ p > o[1].dbSize
                         \/ \E i \in Playback(o) : o[i].pgno = p
                         \/ file[p].disk = {B[p]}
    BY <1>2, <1>4 DEF Valid
  <2>2. \A p \in Pages : \/ p > o[1].dbSize
                         \/ \E i \in Playback(o) : o[i].pgno = p
                         \/ new[p].disk = {B[p]}
    BY <1>3, <2>1
  <2> QED
    BY <1>2, <1>4, <2>2 DEF Valid
<1>5. CASE ~IsHeader(o[1])
  <2>1. \A p \in Pages : new[p] = file[p]
    BY <1>3, <1>5
  <2> QED
    BY <1>2, <1>5, <2>1 DEF Valid, Clean
<1> QED
  BY <1>4, <1>5

(* What a pager sees before it rolls back, and what it has to play.        *)
LEMMA PlayStarts ==
    ASSUME NEW P, NEW J, NEW file, NEW B, NEW t, ModOK(P, file, B, t), LogMore(P, J, file, B, t),
           LogOK(P, J), IsFile(J), P.eState = "WRITER_DBMOD", P.at \in {"idle", "failed"},
           \A p \in Pages : file[p].now \in file[p].disk,
           NEW p \in 1 .. P.origSize
    PROVE  /\ p \in Pages
           /\ \/ file[p].now = B[p]
              \/ \E i \in 1 .. P.hdr - 1 : IsRecord(J[i].now, P.txn) /\ J[i].now.pgno = p
           /\ \/ P.cache[p] \in {Nothing, B[p]}
              \/ \E i \in 1 .. P.off - 1 : IsRecord(J[i].now, P.txn) /\ J[i].now.pgno = p
           /\ \/ P.vers = B[1].ctr
              \/ \E i \in 1 .. P.off - 1 : IsRecord(J[i].now, P.txn) /\ J[i].now.pgno = 1
           /\ Seen(P, file, p) = B[p] \/ Own(Seen(P, file, p), t)
<1> USE PagerAssumption
<1>1. /\ P.txn = t /\ t \in Nat \ {0} /\ IsImage(B, t - 1) /\ t - 1 \in Nat /\ SizeIs(B, P.origSize)
      /\ P.size \in Pages /\ P.origSize <= P.size /\ P.origSize \in Pages
  BY DEF ModOK, SizeIs
<1>2. /\ LogsOld(P, J, B) /\ Untouched(P, J, file, B) /\ PagesOK(P, file, t) /\ VersOK(P, B, t)
      /\ P.hdr \in 1 .. JournalLen + 1 /\ P.off \in P.hdr .. JournalLen + 1
      /\ Segments(J, P.hdr, P.txn, P.origSize)
  BY DEF LogMore, LogOK
<1>3. p \in Pages /\ P.txn \in Nat
  BY <1>1 DEF Pages
<1>4. \A q \in P.inJournal : \E i \in 1 .. P.off - 1 : IsRecord(J[i].now, P.txn) /\ J[i].now.pgno = q
  <2>1. \A q \in P.inJournal : Logged(J, q, P.off, P.txn)
    BY DEF LogOK
  <2>2. \A q : Logged(J, q, P.off, P.txn) =>
              \E i \in 1 .. P.off - 1 : IsRecord(J[i].now, P.txn) /\ J[i].now.pgno = q
    <3>1. SUFFICES ASSUME NEW q, Logged(J, q, P.off, P.txn)
                   PROVE  \E i \in 1 .. P.off - 1 : IsRecord(J[i].now, P.txn) /\ J[i].now.pgno = q
      OBVIOUS
    <3>2. IsImage(B, t - 1) /\ t - 1 \in Nat /\ SizeIs(B, P.origSize) /\ P.txn \in Nat /\ LogsOld(P, J, B)
      BY <1>1, <1>2, <1>3
    <3>3. Logged(J, q, P.off, P.txn)
      BY <3>1
    <3> HIDE <1>1, <1>2, <1>3, <2>1
    <3>4. \E i \in 1 .. P.off - 1 : /\ IsRecord(J[i].now, P.txn) /\ J[i].now.pgno = q
                                   /\ J[i].now.kind = "record" /\ J[i].now.data = B[q]
      BY <3>2, <3>3, LoggedData
    <3> QED
      BY <3>4
  <2> QED
    BY <2>1, <2>2
<1>5. ASSUME LogsPage(J, P.hdr, p)
      PROVE  \E i \in 1 .. P.hdr - 1 : IsRecord(J[i].now, P.txn) /\ J[i].now.pgno = p
  <2>1. PICK i \in 1 .. P.hdr - 1 : J[i].now.kind = "record" /\ J[i].now.pgno = p
    BY <1>5 DEF LogsPage
  <2>2. IsLog(J[i].now, P.txn)
    BY <1>2, <2>1 DEF Segments, IsHead
  <2>3. J[i].now.data = B[p]
    <3>1. i \in 1 .. P.off - 1
      BY <1>2
    <3> QED
      BY <1>2, <2>1, <3>1 DEF LogsOld
  <2>4. B[p] \in PageData /\ p \in Nat
    BY <1>1, SizeOfImage
  <2>5. IsRecord(J[i].now, P.txn)
    BY <1>3, <2>1, <2>2, <2>3, <2>4, LogIsRecord
  <2> QED
    BY <2>1, <2>5
<1>6. LogsPage(J, P.hdr, p) \/ file[p].disk = {B[p]}
  BY <1>2 DEF Untouched
<1>7. file[p].disk = {B[p]} => file[p].now = B[p]
  BY <1>3
<1>8. p \notin P.inJournal => ~LogsPage(J, P.hdr, p) /\ p \notin P.dirty
  <2>1. \A i \in 1 .. P.hdr - 1 : i \in 1 .. P.off - 1
    BY <1>2
  <2>2. p \notin P.inJournal => ~LogsPage(J, P.hdr, p)
    BY <1>2, <2>1 DEF LogsPage, LogsOld
  <2>3. p <= P.origSize
    BY <1>1 DEF Pages
  <2>4. p \in P.dirty => p \in P.inJournal
    BY <2>3 DEF LogOK
  <2> QED
    BY <2>2, <2>4
<1>9. p \notin P.dirty => /\ P.cache[p] \in {Nothing, file[p].now}
                          /\ p \in P.inJournal => Own(file[p].now, t)
  BY <1>2, <1>3 DEF PagesOK
<1>10. \/ P.cache[p] \in {Nothing, B[p]}
       \/ \E i \in 1 .. P.off - 1 : IsRecord(J[i].now, P.txn) /\ J[i].now.pgno = p
  BY <1>4, <1>6, <1>7, <1>8, <1>9
<1>11. \/ P.vers = B[1].ctr
       \/ \E i \in 1 .. P.off - 1 : IsRecord(J[i].now, P.txn) /\ J[i].now.pgno = 1
  <2>1. P.vers = B[1].ctr \/ 1 \in P.inJournal
    BY <1>2 DEF VersOK
  <2> QED
    BY <1>4, <2>1
<1>12. Seen(P, file, p) = B[p] \/ Own(Seen(P, file, p), t)
  <2>1. CASE p \in P.dirty
    <3>1. Own(P.cache[p], t)
      BY <1>2, <2>1 DEF PagesOK
    <3>2. P.cache[p] # Nothing
      <4>1. P.cache[p] \in [by : Nat, ctr : Nat]
        BY <1>1, <3>1 DEF Own, Page
      <4> QED
        BY <4>1, ValuesAssumption
    <3> QED
      BY <3>1, <3>2 DEF Seen
  <2>2. CASE p \notin P.dirty
    <3>1. Seen(P, file, p) = file[p].now
      BY <1>9, <2>2 DEF Seen
    <3>2. CASE p \in P.inJournal
      BY <1>9, <2>2, <3>1, <3>2
    <3>3. CASE p \notin P.inJournal
      BY <1>6, <1>7, <1>8, <3>1, <3>3
    <3> QED
      BY <3>2, <3>3
  <2> QED
    BY <2>1, <2>2
<1> QED
  BY <1>3, <1>5, <1>6, <1>7, <1>10, <1>11, <1>12

LEMMA RollbackDatabaseRecovers ==
    ASSUME FLP!LocksInv, PagerInv, LinkInv, RecInv, PagerInv', NEW c \in Conns, RollbackDatabase(c)
    PROVE  Keeps
<1> USE PagerAssumption
<1> DEFINE P == pager[c]
           B == Image
           J == Found
           T == {i \in 1 .. P.off - 1 : IsRecord(J[i].now, P.txn)}
           Q == [P EXCEPT !.todo = T, !.size = P.origSize, !.job = "rollback", !.at = "play"]
<1>1. /\ PagerOK(P) /\ Fits(P, held[c], c \in reserved) /\ P.at \in {"idle", "failed"}
      /\ P.eState = "WRITER_DBMOD" /\ held[c] = EXCLUSIVE_LOCK /\ FilesOK
  BY DEF PagerInv, Good, RollbackDatabase, Idle, At, Fits
<1>2. Logging(P)
  BY <1>1 DEF Fits, Logging
<1>3. /\ Journal(c) = J /\ P.jfd # Nothing /\ IsFile(J)
      /\ LogOK(P, J) /\ LogMore(P, J, db, B, txns) /\ ModOK(P, db, B, txns)
      /\ P.txn = txns /\ txns \in Nat \ {0} /\ txns - 1 \in Nat
      /\ IsImage(B, txns - 1) /\ SizeIs(B, P.origSize)
      /\ P.hdr = 1 => Clean(db, B)
  BY <1>2, LoggingFacts
<1>4. /\ pager' = [pager EXCEPT ![c] = Q] /\ db' = Truncated(P.origSize)
      /\ UNCHANGED <<locks, dir, jrnl, txns>>
  BY <1>3 DEF RollbackDatabase, Set
<1>5. OthersKeepLocks(c) /\ held'[c] = held[c] /\ reserved' = reserved
  BY <1>4, LockMoves
<1>6. /\ KnowsJournal(P, held[c], c \in reserved, J, dir.now, Settled)
      /\ SeenIsLeft /\ P.vers \in Nat /\ IsCache(P)
  BY DEF RecInv, FilesRecover, Recovers, ConnOK
<1>7. /\ HeadOK(P, J) /\ LogsOld(P, J, B) /\ Untouched(P, J, db, B) /\ P.hdr # 1
  BY <1>1, <1>3 DEF LogMore
<1>8. Settled /\ \A o \in Outcomes(J) : Valid(o, db, B)
  BY <1>2, <1>7, HeadSeen
<1>9. /\ \A p : LogsPage(J, P.hdr, p) => Covers(J, p)
      /\ \A o \in Outcomes(J) : IsHeader(o[1])
  BY <1>3, <1>7, LogIsValid
<1>10. P.origSize \in Pages /\ P.origSize \in Nat /\ P.txn \in Nat /\ 1 \in Pages /\ 1 .. P.origSize \subseteq Pages
       /\ P.off \in 1 .. JournalLen + 1 /\ P.hdr \in 1 .. P.off
  BY <1>3 DEF SizeIs, Pages, LogOK
<1>11. DataOK(J, P.off)
  <2>1. \A p \in 1 .. P.origSize : B[p] \in PageData /\ p \in Nat
    BY <1>3, SizeOfImage
  <2> QED
    BY <1>7, <2>1 DEF DataOK, LogsOld
<1>12. \A o \in Outcomes(J) : o[1].dbSize = P.origSize
  BY <1>3, <1>7, <1>9, <1>10, <1>11, LogOutcome
<1>13. \A o \in Outcomes(J) : Valid(o, db', B)
  BY <1>4, <1>6, <1>8, <1>9, <1>12, CutIsValid
<1>14. /\ \A p \in Pages : p > P.origSize => db'[p].now = Nothing
       /\ \A p \in Pages : ~(p > P.origSize) => db'[p] = db[p]
       /\ \A p \in Pages : db'[p].now \in db'[p].disk
  BY <1>4, <1>6, TruncatedIs
<1>15. \A i \in T : i \in 1 .. P.off - 1 /\ IsRecord(J[i].now, P.txn)
  OBVIOUS
<1>16. \A i \in 1 .. P.off - 1 : IsRecord(J[i].now, P.txn) => i \in T
  OBVIOUS
<1> HIDE DEF T
<1>17. Differs(P, Q, {"todo", "size", "job", "at"}) /\ Q.todo = T
       /\ Q.size = P.origSize /\ Q.job = "rollback" /\ Q.at = "play"
  BY <1>1 DEF PagerOK, IsPager, Fields, Differs
<1> HIDE DEF Q
<1>18. /\ Q.eState = P.eState /\ Q.vers = P.vers /\ Q.txn = P.txn /\ Q.origSize = P.origSize
       /\ Q.jfd = P.jfd /\ Q.hdr = P.hdr /\ Q.off = P.off /\ Q.mode = P.mode /\ Q.dirSync = P.dirSync
       /\ Q.cache = P.cache
  BY <1>17 DEF Differs, Fields
<1>19. \A p \in 1 .. P.origSize :
         /\ \/ db[p].now = B[p]
            \/ \E i \in 1 .. P.hdr - 1 : IsRecord(J[i].now, P.txn) /\ J[i].now.pgno = p
         /\ \/ P.cache[p] \in {Nothing, B[p]}
            \/ \E i \in 1 .. P.off - 1 : IsRecord(J[i].now, P.txn) /\ J[i].now.pgno = p
         /\ \/ P.vers = B[1].ctr
            \/ \E i \in 1 .. P.off - 1 : IsRecord(J[i].now, P.txn) /\ J[i].now.pgno = 1
         /\ Seen(P, db, p) = B[p] \/ Own(Seen(P, db, p), txns)
  <2>1. \A p \in Pages : db[p].now \in db[p].disk
    BY <1>6 DEF SeenIsLeft
  <2> HIDE DEF J, B
  <2> QED
    BY <1>1, <1>3, <2>1, PlayStarts
<1> HIDE DEF B, J
<1>20. PlayOK(Q, J, db', B)
  <2>1. T \subseteq 1 .. JournalLen
    BY <1>10, <1>15
  <2>2. ASSUME NEW i \in T
        PROVE  /\ J[i].now.pgno \in Pages /\ J[i].now.data = B[J[i].now.pgno]
               /\ ToFile(Q, i) => Covers(J, J[i].now.pgno)
    <3>1. J[i].now.kind = "record" /\ i \in 1 .. P.off - 1
      BY <1>15 DEF IsRecord
    <3>2. J[i].now.pgno \in 1 .. P.origSize /\ J[i].now.data = B[J[i].now.pgno]
      BY <1>7, <3>1 DEF LogsOld
    <3>3. ToFile(Q, i) => LogsPage(J, P.hdr, J[i].now.pgno)
      <4>1. ToFile(Q, i) => i \in 1 .. P.hdr - 1
        BY <1>10, <1>17, <1>18, <3>1 DEF ToFile
      <4> QED
        BY <3>1, <4>1 DEF LogsPage
    <3> QED
      BY <1>9, <1>10, <3>2, <3>3
  <2>3. ASSUME NEW p \in Pages
        PROVE  db'[p].now = B[p] \/ \E i \in Q.todo : ToFile(Q, i) /\ J[i].now.pgno = p
    <3>1. CASE p > P.origSize
      BY <1>3, <1>14, <3>1 DEF SizeIs
    <3>2. CASE ~(p > P.origSize)
      <4>1. p \in 1 .. P.origSize
        BY <1>10, <3>2 DEF Pages
      <4>2. \A i \in 1 .. P.hdr - 1 : i \in 1 .. P.off - 1 /\ ToFile(Q, i)
        BY <1>10, <1>18 DEF ToFile
      <4> QED
        BY <1>14, <1>16, <1>17, <1>19, <3>2, <4>1, <4>2
    <3> QED
      BY <3>1, <3>2
  <2>4. \A p \in 1 .. Q.size : Q.cache[p] \in {Nothing, B[p]} \/ \E i \in Q.todo : J[i].now.pgno = p
    BY <1>16, <1>17, <1>18, <1>19
  <2>5. Q.vers = B[1].ctr \/ \E i \in Q.todo : J[i].now.pgno = 1
    <3>1. 1 \in 1 .. P.origSize
      BY <1>10 DEF Pages
    <3> QED
      BY <1>16, <1>17, <1>18, <1>19, <3>1
  <2> QED
    BY <1>3, <1>17, <1>18, <2>1, <2>2, <2>3, <2>4, <2>5 DEF PlayOK
<1>21. SeesOwn(Q, db', B)
  <2>1. \A p \in 1 .. P.origSize : Seen(Q, db', p) = Seen(P, db, p)
    BY <1>10, <1>14, <1>18 DEF Seen
  <2> QED
    BY <1>3, <1>17, <1>18, <1>19, <2>1 DEF SeesOwn
<1>22. ModOK(Q, db', B, txns)
  BY <1>1, <1>3, <1>10, <1>17, <1>18, <1>21 DEF ModOK
<1>23. IsCache(Q)
  BY <1>6, <1>18 DEF IsCache
<1>24. ConnOK(Q, J, db', B, txns, Settled)
  BY <1>1, <1>6, <1>17, <1>18, <1>20, <1>22, <1>23 DEF ConnOK, Logging
<1>25. KnowsJournal(Q, held'[c], c \in reserved', J, dir.now, Settled)
  <2>1. IsWriter(P) /\ IsWriter(Q) /\ Q.eState # "WRITER_LOCKED"
    BY <1>1, <1>18 DEF IsWriter
  <2> QED
    BY <1>5, <1>6, <1>17, <1>18, <2>1, WriterKnows
<1>26. P.at # "zeroed" /\ Q.at # "zeroed"
  BY <1>1, <1>17
<1> QED
  BY <1>1, <1>4, <1>5, <1>8, <1>13, <1>14, <1>24, <1>25, <1>26, FileWrites DEF Recovers, B, J

LEMMA NextIsLeft ==
    ASSUME NEW P, P.todo \subseteq Nat, P.todo # {}
    PROVE  NextRecord(P) \in P.todo
  BY LeastOf DEF NextRecord

(* The journal that is played is the one that the directory names.         *)
LEMMA PlayerFinds ==
    ASSUME PagerInv, LinkInv, RecInv, NEW c \in Conns, pager[c].jfd # Nothing
    PROVE  Journal(c) = Found
  BY DEF LinkInv, Links, Journal, Found, Of

(* What a covered page of a journal says of the directory.                 *)
LEMMA CoveredIsHot ==
    ASSUME PagerInv, RecInv, NEW p, Covers(Found, p)
    PROVE  Settled /\ ~NoHeader(Found)
<1>1. /\ IsFile(Found) /\ \A i \in 1 .. JournalLen : Found[i].now \in Found[i].disk
      /\ 1 \in 1 .. JournalLen
  BY FoundIsFile, PagerAssumption
<1>2. Now(Found) \in Outcomes(Found) /\ Now(Found)[1] = Found[1].now
  BY <1>1, NowIsLeft
<1>3. IsHeader(Found[1].now)
  BY <1>2 DEF Covers
<1>4. ~NoHeader(Found)
  BY <1>1, <1>3 DEF NoHeader
<1> QED
  BY <1>4 DEF RecInv, FilesRecover

(* One record less to play.                                                *)
(* Record r, in cell i, is copied back by P, which becomes Q.             *)
PlaysBack(P, Q, i, r, file, new) ==
    /\ i \in P.todo /\ Q.todo = P.todo \ {i} /\ Differs(P, Q, {"todo", "cache", "vers"})
    /\ \A p \in Pages : p # r.pgno => new[p].now = file[p].now
    /\ ToFile(P, i) => new[r.pgno].now = r.data
    /\ ~ToFile(P, i) => new[r.pgno].now = file[r.pgno].now
    /\ Q.cache = [P.cache EXCEPT ![r.pgno] = IF @ = Nothing THEN @ ELSE r.data]
    /\ Q.vers = IF r.pgno = 1 /\ P.cache[1] # Nothing THEN r.data.ctr ELSE P.vers

LEMMA PlayGoesOn ==
    ASSUME NEW P, NEW Q, NEW J, NEW file, NEW new, NEW B, NEW i, NEW r,
           PlayOK(P, J, file, B), IsCache(P), P.job = "rollback" => P.cache[1] # Nothing,
           P.job \in {"hot", "rollback"}, r = J[i].now, PlaysBack(P, Q, i, r, file, new)
    PROVE  /\ PlayOK(Q, J, new, B) /\ IsCache(Q)
           /\ P.job = "hot" => EmptyCache(Q) /\ Q.vers = P.vers
           /\ r.pgno \in Pages /\ r.data = B[r.pgno]
<1> USE DEF PlaysBack
<1>1. /\ P.jfd # Nothing /\ P.todo \subseteq 1 .. JournalLen
      /\ \A k \in P.todo : /\ J[k].now.pgno \in Pages /\ J[k].now.data = B[J[k].now.pgno]
                           /\ ToFile(P, k) => Covers(J, J[k].now.pgno)
      /\ \A p \in Pages : file[p].now = B[p] \/ \E k \in P.todo : ToFile(P, k) /\ J[k].now.pgno = p
      /\ P.job = "hot" => EmptyCache(P)
      /\ P.job = "rollback" =>
            /\ P.size = P.origSize
            /\ \A p \in 1 .. P.size : P.cache[p] \in {Nothing, B[p]} \/ \E k \in P.todo : J[k].now.pgno = p
            /\ P.vers = B[1].ctr \/ \E k \in P.todo : J[k].now.pgno = 1
      /\ P.job = "hot" /\ P.off = 0 => NoHeader(J)
  BY DEF PlayOK
<1>2. r.pgno \in Pages /\ r.data = B[r.pgno]
  BY <1>1
<1>3. /\ Q.jfd = P.jfd /\ Q.job = P.job /\ Q.hdr = P.hdr /\ Q.off = P.off
      /\ Q.size = P.size /\ Q.origSize = P.origSize
  BY DEF Differs, Fields
<1>4. \A k : ToFile(Q, k) <=> ToFile(P, k)
  BY <1>3 DEF ToFile
<1>5. /\ IsCache(Q) /\ \A p \in Pages : p # r.pgno => Q.cache[p] = P.cache[p]
      /\ Q.cache[r.pgno] = IF P.cache[r.pgno] = Nothing THEN Nothing ELSE r.data
  BY <1>2 DEF IsCache
<1>6. 1 \in Pages
  BY PagerAssumption DEF Pages
<1>7. \A k \in P.todo : k \in Q.todo \/ J[k].now.pgno = r.pgno
  OBVIOUS
<1>8. ASSUME NEW p \in Pages
      PROVE  new[p].now = B[p] \/ \E k \in Q.todo : ToFile(Q, k) /\ J[k].now.pgno = p
  <2>1. CASE p # r.pgno
    BY <1>1, <1>4, <1>7, <2>1
  <2>2. CASE p = r.pgno /\ ToFile(P, i)
    BY <1>2, <2>2
  <2>3. CASE p = r.pgno /\ ~ToFile(P, i)
    <3>1. \A k \in P.todo : ToFile(P, k) => k \in Q.todo
      BY <2>3
    <3>2. new[p].now = file[p].now
      BY <2>3
    <3>3. file[p].now = B[p] \/ \E k \in P.todo : ToFile(P, k) /\ J[k].now.pgno = p
      BY <1>1
    <3> QED
      BY <1>4, <3>1, <3>2, <3>3
  <2> QED
    BY <2>1, <2>2, <2>3
<1>9. P.job = "hot" => EmptyCache(Q) /\ Q.vers = P.vers
  <2> SUFFICES ASSUME P.job = "hot" PROVE EmptyCache(Q) /\ Q.vers = P.vers
    OBVIOUS
  <2>1. \A p \in Pages : P.cache[p] = Nothing
    BY <1>1 DEF EmptyCache
  <2>2. \A p \in Pages : Q.cache[p] = Nothing
    BY <1>2, <1>5, <2>1
  <2>3. EmptyCache(Q)
    BY <2>2 DEF EmptyCache
  <2>4. Q.vers = P.vers
    BY <1>6, <2>1
  <2> QED
    BY <2>3, <2>4
<1>10. ASSUME P.job = "rollback"
       PROVE  /\ Q.size = Q.origSize
              /\ \A p \in 1 .. Q.size : Q.cache[p] \in {Nothing, B[p]} \/ \E k \in Q.todo : J[k].now.pgno = p
              /\ Q.vers = B[1].ctr \/ \E k \in Q.todo : J[k].now.pgno = 1
  <2>1. ASSUME NEW p \in 1 .. Q.size
        PROVE  Q.cache[p] \in {Nothing, B[p]} \/ \E k \in Q.todo : J[k].now.pgno = p
    <3>1. CASE p = r.pgno
      BY <1>2, <1>5, <3>1
    <3>2. CASE p # r.pgno
      <4>1. Q.cache[p] = P.cache[p]
        <5>1. Q.cache = [P.cache EXCEPT ![r.pgno] = IF @ = Nothing THEN @ ELSE r.data] /\ P.cache = [q \in Pages |-> P.cache[q]]
          BY DEF IsCache
        <5>2. CASE p \in Pages
          BY <1>5, <3>2, <5>2
        <5>3. CASE p \notin Pages
          BY <5>1, <5>3
        <5> QED
          BY <5>2, <5>3
      <4>2. P.cache[p] \in {Nothing, B[p]} \/ \E k \in P.todo : J[k].now.pgno = p
        BY <1>1, <1>3, <1>10
      <4> QED
        BY <1>7, <3>2, <4>1, <4>2
    <3> QED
      BY <3>1, <3>2
  <2>2. Q.vers = B[1].ctr \/ \E k \in Q.todo : J[k].now.pgno = 1
    <3>1. CASE r.pgno = 1
      BY <1>2, <1>10, <3>1
    <3>2. CASE r.pgno # 1
      BY <1>1, <1>7, <1>10, <3>2
    <3> QED
      BY <3>1, <3>2
  <2> QED
    BY <1>1, <1>3, <1>10, <2>1, <2>2
<1>11. \A k \in Q.todo : /\ J[k].now.pgno \in Pages /\ J[k].now.data = B[J[k].now.pgno]
                         /\ ToFile(Q, k) => Covers(J, J[k].now.pgno)
  BY <1>1, <1>4
<1>12. PlayOK(Q, J, new, B)
  BY <1>1, <1>3, <1>8, <1>9, <1>10, <1>11 DEF PlayOK
<1> QED
  BY <1>2, <1>5, <1>9, <1>12

LEMMA PlayRecordRecovers ==
    ASSUME FLP!LocksInv, PagerInv, LinkInv, RecInv, PagerInv', NEW c \in Conns, PlayRecord(c)
    PROVE  Keeps
<1> USE PagerAssumption
<1> DEFINE P == pager[c]
           B == Image
           J == Found
           i == NextRecord(P)
           r == J[i].now
           Q == [P EXCEPT !.todo = @ \ {i},
                          !.cache[r.pgno] = IF @ = Nothing THEN @ ELSE r.data,
                          !.vers = IF r.pgno = 1 /\ P.cache[1] # Nothing THEN r.data.ctr ELSE @]
<1>1. /\ PagerOK(P) /\ Fits(P, held[c], c \in reserved) /\ P.at = "play" /\ P.todo # {} /\ FilesOK
      /\ held[c] = EXCLUSIVE_LOCK /\ Owner(c) /\ P.job \in {"hot", "rollback"}
      /\ P.eState \in {"OPEN", "WRITER_DBMOD"} /\ (P.job = "hot" <=> P.eState = "OPEN")
  BY DEF PagerInv, Good, PlayRecord, At, Fits, Owner
<1>2. /\ ConnOK(P, J, db, B, txns, Settled)
      /\ KnowsJournal(P, held[c], c \in reserved, J, dir.now, Settled)
      /\ SeenIsLeft /\ P.vers \in Nat /\ IsCache(P) /\ txns \in Nat /\ IsImage(B, txns)
  BY DEF RecInv, FilesRecover, Recovers, ConnOK
<1>3. PlayOK(P, J, db, B)
  BY <1>1, <1>2 DEF ConnOK
<1>4. /\ Journal(c) = J /\ P.jfd # Nothing /\ P.todo \subseteq 1 .. JournalLen
  BY <1>3, PlayerFinds DEF PlayOK
<1>5. i \in P.todo
  BY <1>1, <1>4, NextIsLeft
<1>6. /\ pager' = [pager EXCEPT ![c] = Q]
      /\ db' = IF ToFile(P, i) THEN [db EXCEPT ![r.pgno] = Put(@, r.data)] ELSE db
      /\ UNCHANGED <<locks, dir, jrnl, txns>>
  BY <1>4 DEF PlayRecord, Set
<1>7. /\ Differs(P, Q, {"todo", "cache", "vers"}) /\ Q.todo = P.todo \ {i}
      /\ Q.cache = [P.cache EXCEPT ![r.pgno] = IF @ = Nothing THEN @ ELSE r.data]
      /\ Q.vers = IF r.pgno = 1 /\ P.cache[1] # Nothing THEN r.data.ctr ELSE P.vers
  BY <1>1 DEF PagerOK, IsPager, Fields, Differs
<1> HIDE DEF Q, i
<1>8. /\ Q.eState = P.eState /\ Q.txn = P.txn /\ Q.origSize = P.origSize /\ Q.at = P.at /\ Q.job = P.job
      /\ Q.jfd = P.jfd /\ Q.hdr = P.hdr /\ Q.off = P.off /\ Q.mode = P.mode /\ Q.dirSync = P.dirSync
      /\ Q.size = P.size
  BY <1>7 DEF Differs, Fields
<1>9. OthersKeepLocks(c) /\ held'[c] = held[c] /\ reserved' = reserved
  BY <1>6, LockMoves
<1>10. r.pgno \in Pages /\ r.data = B[r.pgno] /\ (ToFile(P, i) => Covers(J, r.pgno))
  BY <1>3, <1>5 DEF PlayOK
<1>11. P.eState = "WRITER_DBMOD" => ModOK(P, db, B, txns)
  BY <1>2 DEF ConnOK
<1>12. 1 \in Pages /\ B[1] # Nothing /\ B[1].ctr \in Nat
  BY <1>2, ImageOf DEF Pages
<1> HIDE DEF J, B
<1>13. /\ \A p \in Pages : p # r.pgno => db'[p] = db[p]
       /\ ToFile(P, i) => db'[r.pgno] = Put(db[r.pgno], r.data)
       /\ ~ToFile(P, i) => db' = db
  BY <1>1, <1>6, <1>10 DEF FilesOK
<1>14. /\ \A p \in Pages : p # r.pgno => db'[p].now = db[p].now
       /\ ToFile(P, i) => db'[r.pgno].now = r.data
       /\ ~ToFile(P, i) => db'[r.pgno].now = db[r.pgno].now
       /\ \A p \in Pages : db'[p].now \in db'[p].disk
  BY <1>2, <1>13 DEF Put, SeenIsLeft
<1>15. /\ PlayOK(Q, J, db', B) /\ IsCache(Q)
       /\ P.job = "hot" => EmptyCache(Q) /\ Q.vers = P.vers
  <2>1. P.job = "rollback" => P.cache[1] # Nothing
    BY <1>1, <1>11 DEF ModOK
  <2> DEFINE e == r
  <2>2. e = J[i].now
    OBVIOUS
  <2>3. PlayOK(P, J, db, B) /\ IsCache(P) /\ P.job \in {"hot", "rollback"}
    BY <1>1, <1>2, <1>3
  <2>4. PlaysBack(P, Q, i, e, db, db')
    BY <1>5, <1>7, <1>14 DEF PlaysBack
  <2> HIDE DEF e, P, r
  <2> QED
    BY <2>1, <2>2, <2>3, <2>4, PlayGoesOn
<1>16. Q.vers \in Nat
  BY <1>2, <1>7, <1>10, <1>12
<1>17. \A o \in Outcomes(J) : Valid(o, db', B)
  <2>1. \A o \in Outcomes(J) : Valid(o, db, B)
    BY <1>1, LeftIsValid DEF B, J
  <2> DEFINE T == IF ToFile(P, i) THEN {r.pgno} ELSE {}
  <2>2. (\A p \in T : Covers(J, p)) /\ (\A p \in Pages \ T : db'[p] = db[p])
    BY <1>10, <1>13
  <2> HIDE DEF T
  <2> QED
    BY <2>1, <2>2, CoveredWrites
<1>18. Settled \/ db' = db
  <2>1. ToFile(P, i) => Settled
    BY <1>10, CoveredIsHot DEF J
  <2> QED
    BY <1>13, <2>1
<1>19. CASE P.job = "hot"
  <2>1. OpenOK(Q, B) /\ Q.txn = 0
    BY <1>1, <1>2, <1>8, <1>15, <1>19 DEF OpenOK, ConnOK
  <2>2. ConnOK(Q, J, db', B, txns, Settled)
    BY <1>1, <1>8, <1>15, <1>16, <1>19, <2>1, HotConn
  <2>3. KnowsJournal(Q, held'[c], c \in reserved', J, dir.now, Settled)
    BY <1>1, <1>2, <1>8, <1>9 DEF KnowsJournal, IsWriter
  <2> QED
    BY <1>1, <1>6, <1>8, <1>9, <1>14, <1>17, <1>18, <2>2, <2>3, FileWrites DEF Recovers, B, J
<1>20. CASE P.job = "rollback"
  <2>1. P.eState = "WRITER_DBMOD" /\ ModOK(P, db, B, txns)
    BY <1>1, <1>11, <1>20
  <2>2. P.size \in Pages /\ SeesOwn(P, db, B)
    BY <1>20, <2>1 DEF ModOK
  <2>3. ASSUME NEW p \in 1 .. P.size
        PROVE  Seen(Q, db', p) = B[p] \/ Own(Seen(Q, db', p), P.txn)
    <3>1. p \in Pages
      BY <2>2 DEF Pages
    <3>2. Seen(P, db, p) = B[p] \/ Own(Seen(P, db, p), P.txn)
      BY <2>2 DEF SeesOwn
    <3>3. CASE p # r.pgno
      <4>1. Q.cache[p] = P.cache[p] /\ db'[p].now = db[p].now
        BY <1>2, <1>7, <1>14, <3>1, <3>3 DEF IsCache
      <4> QED
        BY <3>2, <4>1 DEF Seen
    <3>4. CASE p = r.pgno
      <4>1. Q.cache[p] = IF P.cache[p] = Nothing THEN Nothing ELSE B[p]
        BY <1>2, <1>7, <1>10, <3>1, <3>4 DEF IsCache
      <4>2. db'[p].now = B[p] \/ db'[p].now = db[p].now
        BY <1>10, <1>14, <3>4
      <4>3. CASE P.cache[p] = Nothing
        BY <3>2, <4>1, <4>2, <4>3 DEF Seen
      <4>4. CASE P.cache[p] # Nothing /\ B[p] # Nothing
        BY <4>1, <4>4 DEF Seen
      <4>5. CASE P.cache[p] # Nothing /\ B[p] = Nothing
        <5>1. SizeIs(B, P.origSize) /\ P.size = P.origSize /\ P.origSize \in Nat
          BY <1>3, <1>20, <2>1 DEF ModOK, PlayOK, SizeIs, Pages
        <5> QED
          BY <3>1, <4>5, <5>1 DEF SizeIs
      <4> QED
        BY <4>3, <4>4, <4>5
    <3> QED
      BY <3>3, <3>4
  <2>4. SeesOwn(Q, db', B)
    BY <1>8, <2>3 DEF SeesOwn
  <2>5. Q.cache[1] # Nothing
    BY <1>2, <1>7, <1>10, <1>12, <2>1 DEF ModOK, IsCache
  <2>6. ModOK(Q, db', B, txns)
    BY <1>8, <2>1, <2>4, <2>5 DEF ModOK
  <2>7. ConnOK(Q, J, db', B, txns, Settled)
    BY <1>1, <1>8, <1>15, <1>16, <1>20, <2>1, <2>6 DEF ConnOK, Logging
  <2>8. KnowsJournal(Q, held'[c], c \in reserved', J, dir.now, Settled)
    <3>1. IsWriter(P) /\ IsWriter(Q) /\ Q.eState # "WRITER_LOCKED"
      BY <1>8, <2>1 DEF IsWriter
    <3> QED
      BY <1>1, <1>2, <1>8, <1>9, <3>1, WriterKnows
  <2> QED
    BY <1>1, <1>6, <1>8, <1>9, <1>14, <1>17, <1>18, <2>7, <2>8, FileWrites DEF Recovers, B, J
<1> QED
  BY <1>1, <1>19, <1>20

------------------------------------------------------------------------------
(* Finalizing the journal                                                  *)

(* What a pager may take for the database B when its transaction has ended *)
EndsWell(P, B) ==
    /\ P.vers \in Nat /\ B[1].ctr \in Nat
    /\ IF P.job = "hot" THEN OpenOK(P, B)
       ELSE /\ \A p \in 1 .. P.size : P.cache[p] \in {Nothing, B[p]}
            /\ P.cache[1] = B[1] /\ P.vers = B[1].ctr /\ SizeIs(B, P.size)

(* pager_end_transaction, for a hot journal and for a transaction.         *)
After(R) == IF R.job = "hot" THEN [Ended(R) EXCEPT !.eState = "OPEN", !.at = "validate"]
            ELSE Ended(R)

LEMMA AfterRecovers ==
    ASSUME NEW R, PagerOK(R), NEW Q, Q = After(R), NEW B, EndsWell(R, B),
           NEW settled, R.mode = "persist" /\ R.jfd # Nothing /\ ~R.dirSync => settled,
           NEW J, NoHeader(J), NEW level, level = SHARED_LOCK, NEW res, ~res, NEW now, NEW file, NEW t
    PROVE  /\ Recovers(Q, level, res, J, now, settled, file, B, t)
           /\ Q.at # "zeroed" /\ PagerOK(Q)
<1> DEFINE E == Ended(R)
<1>1. /\ PagerOK(E) /\ E.mode = R.mode
      /\ E.jfd = (IF R.mode = "persist" THEN R.jfd ELSE Nothing)
      /\ E.eState = "READER" /\ E.at = "idle" /\ E.job = "none"
  BY EndedIsReader
<1>2. CASE R.job # "hot"
  <2>1. Q = Ended(R)
    BY <1>2 DEF After
  <2>2. /\ \A p \in 1 .. R.size : R.cache[p] \in {Nothing, B[p]}
        /\ R.cache[1] = B[1] /\ R.vers = B[1].ctr /\ SizeIs(B, R.size) /\ B[1].ctr \in Nat
    BY <1>2 DEF EndsWell
  <2>3. Recovers(Q, level, res, J, now, settled, file, B, t)
    BY <2>1, <2>2, ReaderAgain
  <2> QED
    BY <1>1, <2>1, <2>3
<1>3. CASE R.job = "hot"
  <2>1. /\ E.vers = R.vers /\ E.txn = 0 /\ E.todo = {}
        /\ E.dirSync = (R.mode = "persist" /\ R.dirSync) /\ IsCache(E)
        /\ \A p \in Pages : E.cache[p] = IF p > R.size THEN Nothing ELSE R.cache[p]
    BY EndedFields
  <2> HIDE DEF E
  <2>2. Q = [E EXCEPT !.eState = "OPEN", !.at = "validate"]
    BY <1>3 DEF After, E
  <2>3. /\ PagerOK(Q) /\ Q.eState = "OPEN" /\ Q.at = "validate" /\ Q.job = E.job /\ Q.vers = E.vers
        /\ Q.txn = E.txn /\ Q.todo = E.todo /\ Q.dirSync = E.dirSync /\ Q.cache = E.cache
        /\ Q.mode = E.mode /\ Q.jfd = E.jfd
    BY <1>1, <2>2 DEF PagerOK, IsPager, Fields
  <2>4. OpenOK(Q, B) /\ Q.vers \in Nat /\ IsCache(Q)
    BY <1>3, <2>1, <2>3 DEF EndsWell, OpenOK, EmptyCache, CacheOf, IsCache
  <2>5. ConnOK(Q, J, file, B, t, settled)
    BY <2>1, <2>3, <2>4, OpenConn
  <2>6. KnowsJournal(Q, level, res, J, now, settled)
    BY <1>1, <2>1, <2>3 DEF KnowsJournal, IsWriter
  <2> QED
    BY <2>3, <2>5, <2>6 DEF Recovers
<1> QED
  BY <1>2, <1>3

(* What has been played, or rolled back from the cache, ends well; so does *)
(* what has been committed.                                                *)
LEMMA PlayedEndsWell ==
    ASSUME PagerInv, RecInv, NEW c \in Conns, pager[c].at \in {"finalize", "zeroed"},
           pager[c].job \in {"hot", "rollback"}
    PROVE  /\ EndsWell(pager[c], Image) /\ Clean(db, Image) /\ File = Image
           /\ pager[c].jfd # Nothing
           /\ pager[c].off = 0 => NoHeader(Found)
<1> USE PagerAssumption
<1> DEFINE P == pager[c]
           B == Image
<1>1. /\ ConnOK(P, Found, db, B, txns, Settled) /\ IsImage(B, txns) /\ txns \in Nat /\ SeenIsLeft
  BY DEF RecInv, FilesRecover, Recovers
<1>2. /\ FinalOK(P, Found, db, B) /\ P.vers \in Nat
  BY <1>1 DEF ConnOK
<1>3. Fits(P, held[c], c \in reserved) /\ FilesOK
  BY DEF PagerInv, Good
<1>4. B[1].ctr \in Nat /\ B[1] # Nothing
  BY <1>1, ImageOf
<1>5. File = B
  <2>1. File = [p \in Pages |-> db[p].now]
    BY <1>3, FileIs
  <2>2. B = [p \in Pages |-> B[p]] /\ \A p \in Pages : db[p].now = B[p]
    BY <1>1, <1>2 DEF IsImage, FinalOK, Clean, SeenIsLeft
  <2> HIDE DEF B
  <2> QED
    BY <2>1, <2>2
<1> HIDE DEF B
<1>6. CASE P.job = "hot"
  <2>1. P.eState = "OPEN"
    BY <1>3, <1>6 DEF Fits
  <2> QED
    BY <1>1, <1>2, <1>4, <1>5, <1>6, <2>1 DEF ConnOK, EndsWell, FinalOK, B
<1>7. CASE P.job = "rollback"
  <2>1. P.eState \in {"WRITER_CACHEMOD", "WRITER_DBMOD", "WRITER_FINISHED"}
    BY <1>3, <1>7 DEF Fits
  <2>2. CASE P.eState # "WRITER_FINISHED"
    <3>1. ModOK(P, db, B, txns)
      BY <1>1, <2>1, <2>2 DEF ConnOK, B
    <3>2. SizeIs(B, P.origSize) /\ P.size = P.origSize /\ P.cache[1] # Nothing /\ P.size \in Pages
          /\ P.off # 0
      BY <1>2, <1>7, <3>1 DEF ModOK, FinalOK
    <3>3. 1 \in 1 .. P.size
      BY <3>2 DEF Pages
    <3>4. P.cache[1] = B[1]
      BY <1>2, <1>7, <3>2, <3>3 DEF FinalOK
    <3> QED
      BY <1>2, <1>4, <1>5, <1>7, <3>2, <3>4 DEF EndsWell, FinalOK, B
  <2>3. CASE P.eState = "WRITER_FINISHED"
    <3>1. FinishedOK(P, db, B, File, txns, Settled)
      BY <1>1, <2>3 DEF ConnOK, File, B
    <3>2. SizeIs(B, P.size) /\ P.cache[1] = B[1] /\ P.off # 0
      BY <1>5, <3>1 DEF FinishedOK
    <3> QED
      BY <1>2, <1>4, <1>5, <1>7, <3>2 DEF EndsWell, FinalOK, B
  <2> QED
    BY <2>1, <2>2, <2>3
<1> QED
  BY <1>6, <1>7

LEMMA CommitEndsWell ==
    ASSUME PagerInv, RecInv, NEW c \in Conns, pager[c].at \in {"finalize", "zeroed"},
           pager[c].job = "commit"
    PROVE  /\ EndsWell(pager[c], File) /\ Clean(db, File) /\ IsImage(File, txns)
           /\ pager[c].jfd # Nothing /\ pager[c].off # 0
           /\ FinishedOK(pager[c], db, Image, File, txns, Settled) /\ pager[c].eState = "WRITER_FINISHED"
<1> USE PagerAssumption
<1> DEFINE P == pager[c]
           D == File
<1>1. /\ ConnOK(P, Found, db, Image, txns, Settled) /\ txns \in Nat
  BY DEF RecInv, FilesRecover, Recovers
<1>2. P.eState = "WRITER_FINISHED"
  BY DEF PagerInv, Good, Fits
<1>3. FinishedOK(P, db, Image, D, txns, Settled) /\ P.vers \in Nat
  BY <1>1, <1>2 DEF ConnOK, File
<1>4. IsImage(D, txns) /\ SizeIs(D, P.size) /\ Clean(db, D) /\ CacheOf(P, D) /\ P.cache[1] = D[1] /\ P.vers = D[1].ctr
      /\ P.jfd # Nothing /\ P.off # 0
  BY <1>3 DEF FinishedOK
<1>5. D[1].ctr \in Nat
  BY <1>1, <1>4, ImageOf
<1>6. \A p \in 1 .. P.size : p \in Pages
  BY <1>4 DEF SizeIs, Pages
<1> HIDE DEF D
<1>7. EndsWell(P, D)
  BY <1>3, <1>4, <1>5, <1>6 DEF EndsWell, CacheOf
<1> QED
  BY <1>2, <1>3, <1>4, <1>7 DEF D

(* Once a database is synced, a journal without a header leaves it as it is. *)
LEMMA NoneIsValid ==
    ASSUME NEW o, ~IsHeader(o[1]), NEW file, NEW B, Clean(file, B)
    PROVE  Valid(o, file, B)
  BY DEF Valid

LEMMA BlankLeaves ==
           /\ IsFile(Blank) /\ NoHeader(Blank) /\ Blank[1].now = Zeros /\ Zeros # Junk
           /\ \A i \in 1 .. JournalLen : Blank[i].now \in Blank[i].disk
           /\ \A o \in Outcomes(Blank) : ~IsHeader(o[1])
<1> USE PagerAssumption
<1>1. /\ IsFile(Blank) /\ \A i \in 1 .. JournalLen : Blank[i].now = Zeros /\ Blank[i].disk = {Zeros}
  BY DEF IsFile, Blank, Synced
<1>2. 1 \in 1 .. JournalLen
  OBVIOUS
<1>3. \A o \in Outcomes(Blank) : o[1] = Zeros
  BY <1>1, <1>2, LeftOf
<1> HIDE DEF Blank
<1> QED
  BY <1>1, <1>2, <1>3, ValuesAssumption DEF NoHeader, IsHeader

(* The header of a journal is overwritten: it is there or not.             *)
LEMMA ZeroedLeaves ==
    ASSUME NEW J, IsFile(J), \A i \in 1 .. JournalLen : J[i].now \in J[i].disk,
           NEW K, K = Written(J, 1, Zeros)
    PROVE  /\ IsFile(K) /\ K[1].now = Zeros /\ Zeros # Junk /\ ~IsHeader(Zeros)
           /\ \A i \in 1 .. JournalLen : K[i].now \in K[i].disk
           /\ NoHeader(J) => NoHeader(K)
           /\ \A o \in Outcomes(K) : ~IsHeader(o[1]) \/ o \in Outcomes(J)
<1> USE PagerAssumption
<1>1. 1 \in 1 .. JournalLen
  OBVIOUS
<1>2. /\ IsFile(K) /\ K[1].now = Zeros /\ \A k \in 1 .. JournalLen \ {1} : K[k] = J[k]
  BY <1>1, CellWritten
<1>3. /\ \A i \in 1 .. JournalLen : K[i].now \in K[i].disk
      /\ K[1].disk = J[1].disk \cup {Zeros, Junk}
  BY <1>1, PutIsLeft
<1>4. ~IsHeader(Zeros) /\ ~IsHeader(Junk)
  BY DEF IsHeader
<1>5. NoHeader(J) => NoHeader(K)
  BY <1>3, <1>4 DEF NoHeader
<1>6. ASSUME NEW o \in Outcomes(K), IsHeader(o[1]) PROVE o \in Outcomes(J)
  <2>1. IsFile(o) /\ \A i \in 1 .. JournalLen : o[i] \in K[i].disk
    BY <1>2, LeftOf
  <2>2. \A i \in 1 .. JournalLen : o[i] \in J[i].disk
    <3>1. o[1] \in J[1].disk
      BY <1>1, <1>3, <1>4, <1>6, <2>1
    <3> QED
      BY <1>2, <2>1, <3>1
  <2> QED
    BY <2>1, <2>2, IsLeft
<1> QED
  BY <1>2, <1>3, <1>4, <1>5, <1>6, ValuesAssumption

(* The end of a rollback, whose journal is gone or has been zeroed before. *)
LEMMA ReturnRecovers ==
    ASSUME FLP!LocksInv, PagerInv, LinkInv, RecInv, PagerInv', NEW c \in Conns,
           pager[c].at = "finalize", pager[c].job \in {"hot", "rollback"}, Return(c),
           UNCHANGED <<db, txns, jrnl>>,
           \/ pager[c].mode = "delete" /\ dir' = [now |-> Nothing, disk |-> dir.disk \cup {Nothing}]
           \/ pager[c].off = 0 /\ UNCHANGED dir
    PROVE  Keeps
<1> DEFINE P == pager[c]
           B == Image
           Q == After(P)
<1>1. /\ PagerOK(P) /\ Owner(c) /\ SeenIsLeft /\ FilesOK
  BY FinalizerOwns DEF PagerInv, Good, RecInv, FilesRecover
<1>2. pager' = [pager EXCEPT ![c] = Q]
  BY DEF Return, Set, After
<1>3. OthersKeepLocks(c) /\ held'[c] = SHARED_LOCK /\ c \notin reserved'
  BY LockMoves, DownIsFree DEF Return
<1>4. /\ EndsWell(P, B) /\ Clean(db, B) /\ (P.off = 0 => NoHeader(Found))
  BY PlayedEndsWell
<1>5. KnowsJournal(P, held[c], c \in reserved, Found, dir.now, Settled)
  BY DEF RecInv, Recovers
<1>6. P.mode = "persist" /\ P.jfd # Nothing /\ ~P.dirSync => Settled
  BY <1>5 DEF KnowsJournal
<1> HIDE DEF B
<1>7. CASE P.off = 0 /\ UNCHANGED dir
  <2>1. /\ Recovers(Q, held'[c], c \in reserved', Found, dir.now, Settled, db, B, txns)
        /\ Q.at # "zeroed"
    BY <1>1, <1>3, <1>4, <1>6, <1>7, AfterRecovers
  <2> HIDE DEF Q
  <2>2. UNCHANGED disk
    BY <1>7 DEF disk
  <2> QED
    BY <1>2, <1>3, <2>1, <2>2, QuietRecovers DEF B
<1>8. CASE P.mode = "delete" /\ dir' = [now |-> Nothing, disk |-> dir.disk \cup {Nothing}]
  <2>1. dir'.now = Nothing /\ dir'.disk = dir.disk \cup {Nothing} /\ Found' = Blank
    BY <1>8 DEF Found, Of, Blank
  <2>2. /\ NoHeader(Blank) /\ Blank[1].now # Junk
        /\ \A o \in Outcomes(Blank) : ~IsHeader(o[1])
    BY BlankLeaves
  <2>3. \A o \in Outcomes(Found') : Valid(o, db', B)
    BY <1>4, <2>1, <2>2, NoneIsValid
  <2>4. SeenIsLeft'
    BY <1>1, <2>1 DEF SeenIsLeft
  <2>5. /\ Recovers(Q, held'[c], c \in reserved', Found', dir'.now, Settled', db', B, txns)
        /\ Q.at # "zeroed"
    BY <1>1, <1>3, <1>4, <1>8, <2>1, <2>2, AfterRecovers
  <2> HIDE DEF Q
  <2>6. /\ NoHeader(Found') /\ Found'[1].now # Junk
        /\ db' = db \/ \A o, C : Valid(o, db, C) => Valid(o, db', C)
        /\ \A f \in dir'.disk \ {dir'.now} : f \in dir.disk /\ Of(f)' = Of(f)
    BY <2>1, <2>2 DEF Of
  <2>7. P.mode # "persist"
    BY <1>8
  <2> QED
    BY <1>1, <1>2, <1>3, <2>3, <2>4, <2>5, <2>6, <2>7, OwnerWrites DEF B
<1> QED
  BY <1>7, <1>8

(* The header of a journal that was rolled back is zeroed.                 *)
LEMMA ZeroRecovers ==
    ASSUME FLP!LocksInv, PagerInv, LinkInv, RecInv, PagerInv', NEW c \in Conns,
           pager[c].at = "finalize", pager[c].job \in {"hot", "rollback"}, pager[c].off # 0,
           jrnl' = [jrnl EXCEPT ![pager[c].jfd][1] = Put(@, Zeros)], Goto(c, "zeroed"),
           UNCHANGED <<locks, dir, db, txns>>
    PROVE  Keeps
<1> USE PagerAssumption
<1> DEFINE P == pager[c]
           B == Image
           J == Found
           K == Written(J, 1, Zeros)
           Q == [P EXCEPT !.at = "zeroed"]
<1>1. /\ PagerOK(P) /\ Fits(P, held[c], c \in reserved) /\ Owner(c) /\ SeenIsLeft /\ FilesOK
  BY FinalizerOwns DEF PagerInv, Good, RecInv, FilesRecover
<1>2. /\ pager' = [pager EXCEPT ![c] = Q]
      /\ OthersKeepLocks(c) /\ held'[c] = held[c] /\ reserved' = reserved
  BY GotoSets, LockMoves
<1>3. /\ Clean(db, B) /\ P.jfd # Nothing
  BY PlayedEndsWell
<1>4. /\ ConnOK(P, J, db, B, txns, Settled)
      /\ KnowsJournal(P, held[c], c \in reserved, J, dir.now, Settled)
      /\ FinalOK(P, J, db, B)
  BY DEF RecInv, Recovers, ConnOK
<1>5. /\ dir.now = P.jfd /\ P.jfd \in Journals /\ J = jrnl[P.jfd]
  BY <1>1, <1>3 DEF LinkInv, Links, Found, Of, PagerOK
<1>6. /\ IsFile(J) /\ \A i \in 1 .. JournalLen : J[i].now \in J[i].disk
  BY FoundIsFile
<1>7. /\ IsFile(K) /\ K[1].now = Zeros /\ Zeros # Junk /\ ~IsHeader(Zeros)
      /\ \A i \in 1 .. JournalLen : K[i].now \in K[i].disk
      /\ NoHeader(J) => NoHeader(K)
      /\ \A o \in Outcomes(K) : ~IsHeader(o[1]) \/ o \in Outcomes(J)
  BY <1>6, ZeroedLeaves
<1>8. /\ jrnl'[P.jfd] = K /\ \A id \in Journals : id # P.jfd => jrnl'[id] = jrnl[id]
  <2>1. jrnl' = [jrnl EXCEPT ![P.jfd] = K]
    BY <1>1, <1>5 DEF Written, FilesOK
  <2> HIDE DEF K
  <2> QED
    BY <1>1, <1>5, <2>1 DEF FilesOK
<1> HIDE DEF K
<1>9. Found' = K /\ dir' = dir /\ Settled' = Settled
  BY <1>3, <1>5, <1>8 DEF Found, Of, Settled
<1>10. Differs(P, Q, {"at"}) /\ Q.at = "zeroed"
  BY <1>1 DEF PagerOK, IsPager, Fields, Differs
<1> HIDE DEF Q
<1>11. /\ Q.eState = P.eState /\ Q.mode = P.mode /\ Q.jfd = P.jfd /\ Q.job = P.job /\ Q.cache = P.cache
       /\ Q.vers = P.vers /\ Q.txn = P.txn /\ Q.todo = P.todo /\ Q.dirSync = P.dirSync /\ Q.off = P.off
       /\ Q.size = P.size /\ Q.origSize = P.origSize
  BY <1>10 DEF Differs, Fields
<1>12. \A o \in Outcomes(J) : Valid(o, db, B)
  BY <1>1, LeftIsValid
<1>13. NoHeader(J) \/ Settled
  BY DEF RecInv, FilesRecover
<1> HIDE DEF B, J
<1>14. \A o \in Outcomes(Found') : Valid(o, db', B)
  BY <1>3, <1>7, <1>9, <1>12, NoneIsValid
<1>15. SeenIsLeft'
  BY <1>1, <1>7, <1>8, <1>9 DEF SeenIsLeft
<1>16. held[c] = EXCLUSIVE_LOCK \/ NoHeader(J)
  BY <1>1, <1>4 DEF KnowsJournal, Owner
<1>17. ConnOK(Q, K, db', B, txns, Settled)
  <2>1. FinalOK(Q, K, db, B)
    BY <1>4, <1>11 DEF FinalOK
  <2>2. P.eState = "OPEN" => OpenOK(Q, B) /\ Q.txn = 0 /\ Q.todo = {}
    BY <1>4, <1>11 DEF ConnOK, OpenOK, EmptyCache, CacheOf
  <2>3. P.eState \in {"WRITER_CACHEMOD", "WRITER_DBMOD"} => ModOK(Q, db, B, txns)
    BY <1>4, <1>11 DEF ConnOK, ModOK, SeesOwn, Seen
  <2>4. P.eState = "WRITER_FINISHED" => FinishedOK(Q, db, B, Now(db), txns, Settled)
    <3>1. P.eState = "WRITER_FINISHED" => FinishedOK(P, db, B, Now(db), txns, Settled)
      BY <1>4 DEF ConnOK
    <3>2. Clean(db, B) /\ Clean(db, Now(db)) /\ B = [p \in Pages |-> B[p]] /\ Now(db) = [p \in Pages |-> Now(db)[p]]
             => B = Now(db)
      <4>1. \A p \in Pages : Clean(db, B) /\ Clean(db, Now(db)) => B[p] = Now(db)[p]
        BY DEF Clean
      <4> QED
        BY <4>1
    <3>3. B = [p \in Pages |-> B[p]]
      BY DEF B, RecInv, FilesRecover, IsImage
    <3> QED
      BY <1>3, <1>10, <1>11, <3>1, <3>2, <3>3 DEF FinishedOK, IsImage, CacheOf
  <2>5. /\ P.eState \in {"OPEN", "WRITER_CACHEMOD", "WRITER_DBMOD", "WRITER_FINISHED"}
        /\ Q.vers \in Nat /\ IsCache(Q) /\ ~Logging(Q)
    BY <1>1, <1>4, <1>11 DEF Fits, ConnOK, IsCache, Logging
  <2> QED
    BY <1>7, <1>10, <1>11, <2>1, <2>2, <2>3, <2>4, <2>5 DEF ConnOK
<1>18. KnowsJournal(Q, held'[c], c \in reserved', K, dir'.now, Settled)
  BY <1>2, <1>4, <1>1, <1>7, <1>9, <1>10, <1>11 DEF KnowsJournal, IsWriter, Fits
<1>19. \/ Settled'
       \/ /\ NoHeader(Found') /\ Found'[1].now # Junk
          /\ db' = db \/ \A o, C : Valid(o, db, C) => Valid(o, db', C)
          /\ \A f \in dir'.disk \ {dir'.now} : f \in dir.disk /\ Of(f)' = Of(f)
  <2>1. \A f \in dir'.disk \ {dir'.now} : f \in dir.disk /\ Of(f)' = Of(f)
    BY <1>1, <1>5, <1>8, <1>9 DEF Of, FilesOK
  <2> QED
    BY <1>7, <1>9, <1>13, <2>1
<1> QED
  BY <1>1, <1>2, <1>7, <1>9, <1>10, <1>11, <1>14, <1>15, <1>16, <1>17, <1>18, <1>19, OwnerWrites DEF Recovers, B

(* What is left once the journal of a commit has lost its header is what   *)
(* was left before, or the database as it was written.                     *)
LEMMA CommittedLoss ==
    ASSUME PagerInv, RecInv, Clean(db, File), IsImage(File, txns), UNCHANGED <<db, txns>>,
           \A f \in dir'.disk : \A o \in Outcomes(Of(f)') :
               ~IsHeader(o[1]) \/ (f \in dir.disk /\ o \in Outcomes(Of(f)))
    PROVE  LossRollsBack'
<1>1. SUFFICES ASSUME NEW f \in dir'.disk, NEW o \in Outcomes(Of(f)')
               PROVE  LET C == Over(Restores(o), File) IN IsImage(C, txns) /\ Valid(o, db, C)
  <2>1. File' = File
    BY DEF File
  <2> QED
    BY <1>1, <2>1 DEF LossRollsBack
<1>2. CASE f \in dir.disk /\ o \in Outcomes(Of(f))
  BY <1>2 DEF RecInv, FilesRecover, LossRollsBack
<1>3. CASE ~IsHeader(o[1])
  <2>1. Valid(o, db, File)
    BY <1>3, NoneIsValid
  <2>2. FilesOK /\ SeenIsLeft
    BY DEF PagerInv, RecInv, FilesRecover
  <2>3. Over(Restores(o), File) = File
    BY <2>1, <2>2, LossIs
  <2> QED
    BY <2>1, <2>3
<1> QED
  BY <1>1, <1>2, <1>3

(* The image of a commit whose journal has lost its header.                *)
LEMMA CommittedImage ==
    ASSUME PagerInv, RecInv, Clean(db, File), IsImage(File, txns), db' = db,
           ~IsHeader(Found'[1].now), IsFile(Found'),
           \A i \in 1 .. JournalLen : Found'[i].now \in Found'[i].disk
    PROVE  Image' = File
<1> USE PagerAssumption
<1>1. /\ Now(Found')[1] = Found'[1].now
  BY NowIsLeft
<1>2. Valid(Now(Found'), db, File)
  BY <1>1, NoneIsValid
<1>3. /\ File = [p \in Pages |-> File[p]] /\ \A p \in Pages : File[p] \in db[p].disk
  BY DEF PagerInv, FilesOK, File, Now, RecInv, FilesRecover, SeenIsLeft
<1>4. ImageFrom(File, Found') = File
  BY <1>2, <1>3, ImageFromIs
<1>5. Image' = ImageFrom(File', Found')
  BY DEF Image, ImageFrom, Found, Of
<1>6. File' = File
  BY DEF File
<1> QED
  BY <1>4, <1>5, <1>6

(* A step that replaces the image, and puts only the two at risk.          *)
Commits == RecInv' /\ Risk' \subseteq {Image, Image'}

LEMMA CommittedRisk ==
    ASSUME FLP!LocksInv, PagerInv, RecInv, NEW c \in Conns, pager[c].at = "finalize", Settled,
           PagerInv', SeenIsLeft', LossRollsBack', db' = db, Image' = File,
           \A f \in dir'.disk : \A o \in Outcomes(Of(f)') :
               ~IsHeader(o[1]) \/ (f \in dir.disk /\ o \in Outcomes(Of(f)))
    PROVE  Risk' \subseteq {Image, Image'}
<1>1. FilesOK /\ FilesRecover /\ FilesOK'
  BY DEF PagerInv, RecInv
<1>2. ~Committed
  BY LeftIsValid, FinalizerOwns
<1>3. Risk = {Image}
  BY <1>1, <1>2, NothingElseAtRisk
<1>4. ASSUME NEW C, C \in Risk' PROVE C \in {Image, Image'}
  <2>1. AtRisk(C)'
    <3>1. RiskKnown'
      BY RiskIs
    <3>2. \A D : D \in Risk' <=> AtRisk(D)'
      BY <1>1, <3>1 DEF RiskKnown
    <3> QED
      BY <1>4, <3>2
  <2>2. PICK f \in dir'.disk : \E o \in Outcomes(Of(f)') : C = Over(Restores(o), File')
    BY <2>1 DEF AtRisk
  <2>3. PICK o \in Outcomes(Of(f)') : C = Over(Restores(o), File)
    BY <2>2 DEF File
  <2>4. CASE ~IsHeader(o[1])
    BY <1>1, <2>3, <2>4, FileIsLeft, NoneRestores DEF FilesRecover
  <2>5. CASE f \in dir.disk /\ o \in Outcomes(Of(f))
    <3>1. AtRisk(C)
      BY <2>3, <2>5 DEF AtRisk
    <3> QED
      BY <1>1, <1>3, <3>1, RiskIs DEF RiskKnown, FilesRecover
  <2> QED
    BY <2>4, <2>5
<1> QED
  BY <1>4

LEMMA CommitDeletes ==
    ASSUME FLP!LocksInv, PagerInv, LinkInv, RecInv, PagerInv', NEW c \in Conns,
           pager[c].at = "finalize", pager[c].job = "commit", Return(c), pager[c].mode = "delete",
           dir' = [now |-> Nothing, disk |-> dir.disk \cup {Nothing}], UNCHANGED <<db, txns, jrnl>>
    PROVE  Commits
<1> DEFINE P == pager[c]
           D == File
           Q == After(P)
<1>1. /\ PagerOK(P) /\ Owner(c) /\ SeenIsLeft /\ FilesOK /\ held[c] = EXCLUSIVE_LOCK
  BY FinalizerOwns DEF PagerInv, Good, RecInv, FilesRecover, Fits
<1>2. pager' = [pager EXCEPT ![c] = Q]
  BY DEF Return, Set, After
<1>3. OthersKeepLocks(c) /\ held'[c] = SHARED_LOCK /\ c \notin reserved'
  BY LockMoves, DownIsFree DEF Return
<1>4. /\ EndsWell(P, D) /\ Clean(db, D) /\ IsImage(D, txns) /\ FinishedOK(P, db, Image, D, txns, Settled)
  BY CommitEndsWell
<1>5. Image[1].ctr \in Nat /\ D[1].ctr = Image[1].ctr + 1
  <2>1. txns \in Nat /\ IsImage(Image, txns)
    BY DEF RecInv, FilesRecover
  <2> QED
    BY <1>4, <2>1, ImageOf DEF FinishedOK
<1>6. dir'.now = Nothing /\ dir'.disk = dir.disk \cup {Nothing} /\ Found' = Blank
  BY DEF Found, Of, Blank
<1>7. /\ IsFile(Blank) /\ NoHeader(Blank) /\ Blank[1].now # Junk /\ ~IsHeader(Blank[1].now)
      /\ \A i \in 1 .. JournalLen : Blank[i].now \in Blank[i].disk
      /\ \A o \in Outcomes(Blank) : ~IsHeader(o[1])
  <2>1. ~IsHeader(Zeros)
    BY DEF IsHeader
  <2> QED
    BY <2>1, BlankLeaves
<1>8. Image' = D
  BY <1>4, <1>6, <1>7, CommittedImage
<1>9. SeenIsLeft'
  BY <1>1, <1>6 DEF SeenIsLeft
<1>0. ASSUME NEW f \in dir'.disk, NEW o \in Outcomes(Of(f)')
      PROVE  ~IsHeader(o[1]) \/ (f \in dir.disk /\ o \in Outcomes(Of(f)))
  <2>1. CASE f = Nothing
    <3>1. Of(f)' = Blank
      BY <2>1 DEF Of, Blank
    <3> QED
      BY <1>7, <3>1
  <2>2. CASE f # Nothing
    BY <1>6, <2>2 DEF Of
  <2> QED
    BY <2>1, <2>2
<1>10. LossRollsBack' /\ Risk' \subseteq {Image, Image'}
  <2>1. LossRollsBack'
    BY <1>0, <1>4, CommittedLoss
  <2>2. Settled
    BY <1>4 DEF FinishedOK
  <2> QED
    BY <1>0, <1>8, <1>9, <2>1, <2>2, CommittedRisk
<1>11. Q.at # "zeroed" /\ Recovers(Q, held'[c], c \in reserved', Found', dir'.now, Settled', db', D, txns)
  <2> HIDE DEF D
  <2> QED
    BY <1>1, <1>3, <1>4, <1>6, <1>7, AfterRecovers
<1> HIDE DEF Q
<1>12. ~Committed'
  <2>1. \A a \in Conns : pager'[a].at = "zeroed" => a = c /\ pager'[c] = Q
    <3>1. \A a \in Conns \ {c} : pager'[a] = pager[a]
      BY <1>2 DEF PagerInv
    <3>2. \A a \in Conns \ {c} : ~Owner(a)
      BY <1>1, OneOwner
    <3>3. \A a \in Conns : pager[a].at \in {"finalize", "zeroed"} => Owner(a)
      BY FinalizerOwns
    <3>4. pager'[c] = Q
      BY <1>2 DEF PagerInv
    <3> QED
      BY <3>1, <3>2, <3>3, <3>4
  <2> QED
    BY <1>11, <2>1 DEF Committed
<1>13. FilesRecover'
  <2>1. \A o \in Outcomes(Found') : Valid(o, db', Image')
    BY <1>4, <1>6, <1>7, <1>8, NoneIsValid
  <2>2. NoHeader(Found') /\ Found'[1].now # Junk /\ IsImage(Image', txns')
    BY <1>4, <1>6, <1>7, <1>8
  <2> QED
    BY <1>9, <1>10, <1>12, <2>1, <2>2 DEF FilesRecover
<1>14. NoHeader(Found') /\ Image'[1].ctr = Image[1].ctr + 1
  BY <1>5, <1>6, <1>7, <1>8
<1>15. Recovers(Q, held'[c], c \in reserved', Found', dir'.now, Settled', db', Image', txns')
  BY <1>8, <1>11
<1>16. RecInv'
  BY <1>1, <1>2, <1>3, <1>13, <1>14, <1>15, OwnerRecovers
<1> QED
  BY <1>10, <1>16 DEF Commits

LEMMA CommitZeroes ==
    ASSUME FLP!LocksInv, PagerInv, LinkInv, RecInv, PagerInv', NEW c \in Conns,
           pager[c].at = "finalize", pager[c].job = "commit",
           jrnl' = [jrnl EXCEPT ![pager[c].jfd][1] = Put(@, Zeros)], Goto(c, "zeroed"),
           UNCHANGED <<locks, dir, db, txns>>
    PROVE  Commits
<1> USE PagerAssumption
<1> DEFINE P == pager[c]
           D == File
           J == Found
           K == Written(J, 1, Zeros)
           Q == [P EXCEPT !.at = "zeroed"]
<1>1. /\ PagerOK(P) /\ Owner(c) /\ SeenIsLeft /\ FilesOK /\ held[c] = EXCLUSIVE_LOCK
  BY FinalizerOwns DEF PagerInv, Good, RecInv, FilesRecover, Fits
<1>2. /\ pager' = [pager EXCEPT ![c] = Q]
      /\ OthersKeepLocks(c) /\ held'[c] = held[c] /\ reserved' = reserved
  BY GotoSets, LockMoves
<1>3. /\ Clean(db, D) /\ IsImage(D, txns) /\ FinishedOK(P, db, Image, D, txns, Settled)
      /\ P.jfd # Nothing /\ P.off # 0 /\ P.eState = "WRITER_FINISHED"
  BY CommitEndsWell
<1>4. /\ ConnOK(P, J, db, Image, txns, Settled)
      /\ KnowsJournal(P, held[c], c \in reserved, J, dir.now, Settled)
  BY DEF RecInv, Recovers
<1>5. /\ dir.now = P.jfd /\ P.jfd \in Journals /\ J = jrnl[P.jfd]
  BY <1>1, <1>3 DEF LinkInv, Links, Found, Of, PagerOK
<1>6. /\ IsFile(J) /\ \A i \in 1 .. JournalLen : J[i].now \in J[i].disk
  BY FoundIsFile
<1>7. /\ IsFile(K) /\ K[1].now = Zeros /\ Zeros # Junk /\ ~IsHeader(Zeros)
      /\ \A i \in 1 .. JournalLen : K[i].now \in K[i].disk
      /\ NoHeader(J) => NoHeader(K)
      /\ \A o \in Outcomes(K) : ~IsHeader(o[1]) \/ o \in Outcomes(J)
  BY <1>6, ZeroedLeaves
<1>8. /\ jrnl'[P.jfd] = K /\ \A id \in Journals : id # P.jfd => jrnl'[id] = jrnl[id]
  <2>1. jrnl' = [jrnl EXCEPT ![P.jfd] = K]
    BY <1>1, <1>5 DEF Written, FilesOK
  <2> HIDE DEF K
  <2> QED
    BY <1>1, <1>5, <2>1 DEF FilesOK
<1> HIDE DEF K
<1>9. Found' = K /\ dir' = dir /\ Settled' = Settled /\ dir.disk = {dir.now}
  BY <1>3, <1>5, <1>8 DEF Found, Of, Settled, FinishedOK
<1>10. Settled /\ Image[1].ctr \in Nat /\ D[1].ctr = Image[1].ctr + 1
  <2>1. txns \in Nat /\ IsImage(Image, txns)
    BY DEF RecInv, FilesRecover
  <2> QED
    BY <1>3, <2>1, ImageOf DEF FinishedOK
<1>11. Differs(P, Q, {"at"}) /\ Q.at = "zeroed"
  BY <1>1 DEF PagerOK, IsPager, Fields, Differs
<1> HIDE DEF Q
<1>12. /\ Q.eState = P.eState /\ Q.mode = P.mode /\ Q.jfd = P.jfd /\ Q.job = P.job /\ Q.cache = P.cache
       /\ Q.vers = P.vers /\ Q.txn = P.txn /\ Q.todo = P.todo /\ Q.dirSync = P.dirSync /\ Q.off = P.off
       /\ Q.size = P.size /\ Q.origSize = P.origSize
  BY <1>11 DEF Differs, Fields
<1>13. Image' = D
  BY <1>3, <1>7, <1>9, CommittedImage
<1>14. SeenIsLeft'
  BY <1>1, <1>7, <1>8, <1>9 DEF SeenIsLeft
<1>15. LossRollsBack' /\ Risk' \subseteq {Image, Image'}
  <2>1. ASSUME NEW f \in dir'.disk, NEW o \in Outcomes(Of(f)')
        PROVE  ~IsHeader(o[1]) \/ (f \in dir.disk /\ o \in Outcomes(Of(f)))
    <3>1. f = dir.now /\ f \in dir.disk /\ Of(f)' = K /\ Of(f) = J
      BY <1>3, <1>5, <1>8, <1>9 DEF Of
    <3> QED
      BY <1>7, <3>1
  <2>2. LossRollsBack'
    BY <1>3, <2>1, CommittedLoss
  <2> QED
    BY <1>10, <1>13, <1>14, <2>1, <2>2, CommittedRisk
<1>16. Committed' /\ \E a \in Conns : pager'[a].at = "zeroed"
  <2>1. pager'[c] = Q
    BY <1>2 DEF PagerInv
  <2> QED
    BY <1>11, <1>12, <2>1 DEF Committed
<1>17. FilesRecover'
  <2>1. Clean(db', Image') /\ IsImage(Image', txns')
    BY <1>3, <1>13
  <2>2. Settled'
    BY <1>9, <1>10
  <2> QED
    BY <1>14, <1>15, <1>16, <2>1, <2>2 DEF FilesRecover
<1>18. ConnOK(Q, K, db, D, txns, Settled)
  <2> HIDE DEF D, J
  <2>1. FinishedOK(Q, db, D, D, txns, Settled)
    BY <1>3, <1>11, <1>12 DEF FinishedOK, CacheOf
  <2>2. Q.vers \in Nat /\ IsCache(Q) /\ D = Now(db)
    BY <1>4, <1>12 DEF ConnOK, IsCache, D, File
  <2>3. FinishedOK(Q, db, D, Now(db), txns, Settled)
    BY <2>1, <2>2
  <2> QED
    BY <1>3, <1>7, <1>11, <1>12, <2>2, <2>3 DEF ConnOK, Logging
<1>19. KnowsJournal(Q, held'[c], c \in reserved', K, dir'.now, Settled')
  BY <1>1, <1>2, <1>3, <1>10, <1>9, <1>11, <1>12 DEF KnowsJournal, IsWriter
<1>20. Recovers(Q, held'[c], c \in reserved', Found', dir'.now, Settled', db', Image', txns')
  BY <1>9, <1>13, <1>18, <1>19 DEF Recovers
<1>21. Image'[1].ctr = Image[1].ctr + 1
  BY <1>10, <1>13
<1>22. RecInv'
  BY <1>1, <1>2, <1>9, <1>17, <1>20, <1>21, OwnerRecovers
<1> QED
  BY <1>15, <1>22 DEF Commits

LEMMA FinalizeJournalRecovers ==
    ASSUME FLP!LocksInv, PagerInv, LinkInv, RecInv, PagerInv', NEW c \in Conns, FinalizeJournal(c)
    PROVE  IF pager[c].job = "commit" THEN Commits ELSE Keeps
<1> DEFINE P == pager[c]
<1>1. P.at = "finalize" /\ P.job \in {"hot", "rollback", "commit"}
  BY DEF FinalizeJournal, At, PagerInv, Good, Fits
<1>2. P.job = "commit" => P.off # 0
  BY <1>1, CommitEndsWell
<1>3. UNCHANGED <<db, txns>>
  BY DEF FinalizeJournal
<1>4. CASE /\ P.mode = "delete" /\ dir' = [now |-> Nothing, disk |-> dir.disk \cup {Nothing}]
           /\ Return(c) /\ UNCHANGED jrnl
  <2>1. CASE P.job = "commit"
    BY <1>1, <1>3, <1>4, <2>1, CommitDeletes
  <2>2. CASE P.job # "commit"
    BY <1>1, <1>3, <1>4, <2>2, ReturnRecovers
  <2> QED
    BY <2>1, <2>2
<1>5. CASE /\ P.off # 0 /\ jrnl' = [jrnl EXCEPT ![P.jfd][1] = Put(@, Zeros)]
           /\ Goto(c, "zeroed") /\ UNCHANGED <<locks, dir>>
  <2>1. UNCHANGED <<locks, dir, db, txns>>
    BY <1>3, <1>5
  <2>2. CASE P.job = "commit"
    BY <1>1, <1>5, <2>1, <2>2, CommitZeroes
  <2>3. CASE P.job # "commit"
    BY <1>1, <1>5, <2>1, <2>3, ZeroRecovers
  <2> QED
    BY <2>2, <2>3
<1>6. CASE P.off = 0 /\ Return(c) /\ UNCHANGED <<dir, jrnl>>
  BY <1>1, <1>2, <1>3, <1>6, ReturnRecovers
<1> QED
  BY <1>4, <1>5, <1>6 DEF FinalizeJournal

(* The zeroed header of a journal gets to the disk.                        *)
ZeroedIsSynced(c) ==
    /\ jrnl' = [jrnl EXCEPT ![pager[c].jfd] = Fsync(@)]
    /\ dir'.now = dir.now /\ dir'.now \in dir'.disk /\ dir'.disk \subseteq dir.disk
    /\ UNCHANGED <<db, txns>>

LEMMA ZeroedEndsWell ==
    ASSUME PagerInv, RecInv, NEW c \in Conns, pager[c].at = "zeroed"
    PROVE  /\ EndsWell(pager[c], Image) /\ Clean(db, Image) /\ File = Image
           /\ pager[c].jfd # Nothing
<1>1. pager[c].job \in {"hot", "rollback", "commit"}
  BY DEF PagerInv, Good, Fits
<1>2. CASE pager[c].job = "commit"
  <2>1. /\ EndsWell(pager[c], File) /\ Clean(db, File) /\ pager[c].jfd # Nothing
        /\ FinishedOK(pager[c], db, Image, File, txns, Settled)
    BY <1>2, CommitEndsWell
  <2>2. Image = File
    BY <2>1 DEF FinishedOK
  <2> QED
    BY <2>1, <2>2
<1>3. CASE pager[c].job # "commit"
  BY <1>1, <1>3, PlayedEndsWell
<1> QED
  BY <1>2, <1>3

LEMMA ZeroedFiles ==
    ASSUME FLP!LocksInv, PagerInv, LinkInv, RecInv, NEW c \in Conns, pager[c].at = "zeroed",
           ZeroedIsSynced(c)
    PROVE  /\ NoHeader(Found') /\ Found'[1].now # Junk /\ SeenIsLeft'
           /\ \A o \in Outcomes(Found') : Valid(o, db', Image)
           /\ \A f \in dir'.disk \ {dir'.now} : f \in dir.disk /\ Of(f)' = Of(f)
           /\ dir'.now # Nothing /\ (Settled => Settled')
<1> USE PagerAssumption
<1> DEFINE P == pager[c]
           J == Found
           K == Fsync(J)
<1>1. Clean(db, Image) /\ P.jfd # Nothing
  BY ZeroedEndsWell
<1>2. PagerOK(P) /\ FilesOK /\ SeenIsLeft
  BY DEF PagerInv, Good, RecInv, FilesRecover
<1>3. /\ dir.now = P.jfd /\ P.jfd \in Journals /\ J = jrnl[P.jfd]
  BY <1>1, <1>2 DEF LinkInv, Links, Found, Of, PagerOK
<1>4. IsFile(J) /\ \A i \in 1 .. JournalLen : J[i].now \in J[i].disk
  BY FoundIsFile
<1>5. /\ IsFile(K) /\ \A i \in 1 .. JournalLen : K[i].now = J[i].now /\ K[i].disk = {J[i].now}
      /\ \A i \in 1 .. JournalLen : K[i].now \in K[i].disk
      /\ Outcomes(K) = {Now(J)}
  BY <1>4, FsyncLeaves
<1>6. /\ jrnl'[P.jfd] = K /\ \A id \in Journals : id # P.jfd => jrnl'[id] = jrnl[id]
  BY <1>2, <1>3 DEF ZeroedIsSynced, FilesOK
<1>7. J[1].now = Zeros /\ 1 \in 1 .. JournalLen
  BY DEF RecInv, Recovers, ConnOK
<1>8. Now(J)[1] = Zeros
  BY <1>4, <1>7, NowIsLeft
<1> HIDE DEF K, J
<1>9. Found' = K /\ dir'.now = dir.now /\ db' = db
  BY <1>1, <1>3, <1>6 DEF Found, Of, ZeroedIsSynced
<1>10. ~IsHeader(Zeros) /\ Zeros # Junk
  BY ValuesAssumption DEF IsHeader
<1>11. NoHeader(K) /\ K[1].now # Junk
  BY <1>5, <1>7, <1>10 DEF NoHeader
<1>12. \A o \in Outcomes(Found') : Valid(o, db', Image)
  BY <1>1, <1>5, <1>8, <1>9, <1>10, NoneIsValid
<1>13. SeenIsLeft'
  BY <1>2, <1>3, <1>5, <1>6, <1>9 DEF SeenIsLeft, ZeroedIsSynced
<1>14. ASSUME NEW f \in dir'.disk \ {dir'.now} PROVE f \in dir.disk /\ Of(f)' = Of(f)
  <2>1. f \in dir.disk /\ f \in Journals \cup {Nothing} /\ f # P.jfd
    BY <1>2, <1>3, <1>9 DEF FilesOK, ZeroedIsSynced
  <2> QED
    BY <1>6, <2>1 DEF Of
<1>15. Settled => Settled'
  BY <1>9 DEF Settled, ZeroedIsSynced
<1> QED
  BY <1>1, <1>3, <1>9, <1>11, <1>12, <1>13, <1>14, <1>15

LEMMA ZeroedRecovers ==
    ASSUME FLP!LocksInv, PagerInv, LinkInv, RecInv, PagerInv', NEW c \in Conns, NEW Q,
           pager[c].at = "zeroed", ZeroedIsSynced(c),
           pager' = [pager EXCEPT ![c] = Q], OthersKeepLocks(c), Q.at # "zeroed",
           \A J, settled : NoHeader(J) /\ (Settled => settled) /\ settled = (dir'.disk = {dir'.now}) =>
               Recovers(Q, held'[c], c \in reserved', J, dir'.now, settled, db, Image, txns)
    PROVE  Keeps
<1>1. /\ NoHeader(Found') /\ Found'[1].now # Junk /\ SeenIsLeft'
      /\ \A o \in Outcomes(Found') : Valid(o, db', Image)
      /\ \A f \in dir'.disk \ {dir'.now} : f \in dir.disk /\ Of(f)' = Of(f)
      /\ dir'.now # Nothing /\ (Settled => Settled')
  BY ZeroedFiles
<1>2. Owner(c) /\ db' = db /\ txns' = txns /\ Settled' = (dir'.disk = {dir'.now})
  BY FinalizerOwns DEF ZeroedIsSynced, Settled
<1>3. Recovers(Q, held'[c], c \in reserved', Found', dir'.now, Settled', db', Image, txns)
  BY <1>1, <1>2
<1> QED
  BY <1>1, <1>2, <1>3, OwnerWrites

LEMMA SyncZeroedHeaderRecovers ==
    ASSUME FLP!LocksInv, PagerInv, LinkInv, RecInv, PagerInv', NEW c \in Conns, SyncZeroedHeader(c)
    PROVE  Keeps
<1> DEFINE P == pager[c]
           B == Image
           R == [P EXCEPT !.dirSync = FALSE]
           Q == After(R)
<1>1. /\ PagerOK(P) /\ P.at = "zeroed" /\ SeenIsLeft /\ dir.now \in dir.disk
  BY DEF PagerInv, Good, SyncZeroedHeader, At, RecInv, FilesRecover, SeenIsLeft
<1>2. pager' = [pager EXCEPT ![c] = Q]
  BY DEF SyncZeroedHeader, Set, After
<1>3. OthersKeepLocks(c) /\ held'[c] = SHARED_LOCK /\ c \notin reserved'
  BY LockMoves, DownIsFree DEF SyncZeroedHeader
<1>4. EndsWell(P, B) /\ P.jfd # Nothing
  BY <1>1, ZeroedEndsWell
<1>5. dir' = IF P.dirSync THEN Synced(dir.now) ELSE dir
  BY DEF SyncZeroedHeader
<1>6. ZeroedIsSynced(c) /\ (P.dirSync => dir'.disk = {dir'.now})
  BY <1>1, <1>5 DEF SyncZeroedHeader, ZeroedIsSynced, Synced
<1>7. PagerOK(R) /\ Differs(P, R, {"dirSync"})
  BY <1>1 DEF PagerOK, IsPager, Fields, Differs
<1> HIDE DEF R, B
<1>8. EndsWell(R, B) /\ R.mode = P.mode /\ R.jfd = P.jfd
  BY <1>4, <1>7 DEF EndsWell, Differs, Fields, OpenOK, EmptyCache, CacheOf
<1>9. P.mode = "persist" /\ ~P.dirSync => Settled
  BY <1>4 DEF RecInv, Recovers, KnowsJournal
<1>10. ASSUME NEW J, NEW settled, NoHeader(J), Settled => settled, settled = (dir'.disk = {dir'.now})
       PROVE  Recovers(Q, held'[c], c \in reserved', J, dir'.now, settled, db, B, txns)
  <2>1. R.mode = "persist" => settled
    BY <1>6, <1>8, <1>9, <1>10
  <2> QED
    BY <1>3, <1>7, <1>8, <1>10, <2>1, AfterRecovers
<1>11. Q.at # "zeroed"
  <2>1. Ended(R).at = "idle"
    BY <1>7, EndedIsReader
  <2> QED
    BY <2>1, <1>7, EndedIsReader DEF After, PagerOK, IsPager, Fields
<1> HIDE DEF Q
<1> QED
  BY <1>1, <1>2, <1>3, <1>6, <1>10, <1>11, ZeroedRecovers DEF B

------------------------------------------------------------------------------
(* What goes wrong                                                         *)

(* A process that is opened anew knows nothing.                            *)
LEMMA FreshRecovers ==
    ASSUME NEW m, NEW Q, Q = Fresh(m), NEW B, NEW level, NEW res, ~res,
           NEW J, NEW now, NEW settled, NEW file, NEW t
    PROVE  Recovers(Q, level, res, J, now, settled, file, B, t) /\ Q.at = "idle"
<1>1. Q.vers = 0 /\ Q.txn = 0 /\ Q.todo = {} /\ EmptyCache(Q) /\ IsCache(Q)
  BY FreshFields
<1>2. Q.eState = "OPEN" /\ Q.at = "idle" /\ Q.job = "none" /\ Q.jfd = Nothing
  BY DEF Fresh
<1>3. OpenOK(Q, B) /\ Q.vers \in Nat
  BY <1>1 DEF OpenOK
<1> QED
  BY <1>1, <1>2, <1>3, ClosedRecovers

(* So does a pager whose cache is gone.                                    *)
LEMMA LostRecovers ==
    ASSUME NEW P, PagerOK(P), P.vers \in Nat, NEW Q, Q = Closed(Emptied(P)), NEW B,
           NEW level, NEW res, ~res, NEW J, NEW now, NEW settled, NEW file, NEW t
    PROVE  Recovers(Q, level, res, J, now, settled, file, B, t) /\ Q.at = "idle"
<1> DEFINE E == Emptied(P)
<1>1. Differs(P, E, {"cache"}) /\ EmptyCache(E) /\ IsCache(E)
  BY EmptiedFields
<1>2. Q.jfd = Nothing /\ Q.eState = "OPEN" /\ Q.at = "idle" /\ Q.job = "none"
  BY ClosedIsOpen
<1> HIDE DEF E
<1>3. E.vers = P.vers
  BY <1>1 DEF Differs, Fields
<1>4. Q.vers = E.vers /\ Q.txn = 0 /\ Q.todo = {} /\ Q.cache = E.cache
  BY ClosedFields DEF E
<1>5. OpenOK(Q, B) /\ Q.vers \in Nat /\ IsCache(Q)
  BY <1>1, <1>3, <1>4 DEF OpenOK, EmptyCache, IsCache
<1> QED
  BY <1>2, <1>4, <1>5, ClosedRecovers

LEMMA BrokenRecovers ==
    ASSUME NEW P, PagerOK(P), P.vers \in Nat, NEW Q, Q = Broken(P), NEW B,
           NEW level, NEW res, res => level = EXCLUSIVE_LOCK,
           NEW J, NEW now, NEW settled, NEW file, NEW t
    PROVE  Recovers(Q, level, res, J, now, settled, file, B, t) /\ Q.at = "idle"
<1>1. Q.vers = P.vers /\ Q.txn = 0 /\ EmptyCache(Q) /\ IsCache(Q)
  BY BrokenFields
<1>2. Q.eState = "ERROR" /\ Q.at = "idle" /\ Q.job = "none" /\ Q.jfd = Nothing
  BY BrokenIsError
<1>3. ConnOK(Q, J, file, B, t, settled)
  BY <1>1, <1>2 DEF ConnOK, Logging
<1>4. KnowsJournal(Q, level, res, J, now, settled)
  BY <1>2 DEF KnowsJournal, IsWriter
<1> QED
  BY <1>2, <1>3, <1>4 DEF Recovers

(* A header that a process has zeroed and not synced when it ends is on    *)
(* the disk: there is none in mode DELETE.                                 *)
ZeroesLast == AllDelete \/ Writeback

LEMMA ZeroesGetWritten ==
    ASSUME ZeroesLast, PagerInv, LinkInv, NEW c \in Conns, pager[c].at = "zeroed"
    PROVE  Writeback
<1>1. pager[c].mode = "persist"
  BY DEF PagerInv, Good, PagerOK
<1> QED
  BY <1>1 DEF ZeroesLast, LinkInv

LEMMA CrashRecovers ==
    ASSUME ZeroesLast, FLP!LocksInv, PagerInv, LinkInv, RecInv, PagerInv', NEW c \in Conns, Crash(c)
    PROVE  Keeps
<1> DEFINE P == pager[c]
           Q == Fresh(P.mode)
<1>1. pager' = [pager EXCEPT ![c] = Q] /\ UNCHANGED <<db, dir, txns>>
  BY DEF Crash, Set
<1>2. OthersKeepLocks(c) /\ c \notin reserved'
  BY LockMoves, LostIsFree DEF Crash
<1>3. \A J, settled, B : Recovers(Q, held'[c], c \in reserved', J, dir'.now, settled, db, B, txns)
  BY <1>2, FreshRecovers
<1>4. Q.at = "idle"
  BY DEF Fresh
<1> HIDE DEF Q
<1>5. CASE P.at = "zeroed"
  <2>1. dir.now \in dir.disk
    BY DEF RecInv, FilesRecover, SeenIsLeft
  <2>2. ZeroedIsSynced(c)
    BY <1>1, <1>5, <2>1, ZeroesGetWritten DEF ZeroedIsSynced, Crash, WrittenBack, At
  <2> QED
    BY <1>1, <1>2, <1>3, <1>4, <1>5, <2>2, ZeroedRecovers
<1>6. CASE P.at # "zeroed"
  <2>1. jrnl' = jrnl
    BY <1>6 DEF Crash, WrittenBack, At
  <2>2. UNCHANGED disk /\ txns' = txns
    BY <1>1, <2>1 DEF disk
  <2>3. Recovers(Q, held'[c], c \in reserved', Found, dir.now, Settled, db, Image, txns')
    BY <1>1, <1>3
  <2> QED
    BY <1>1, <1>2, <1>4, <1>6, <2>2, <2>3, QuietRecovers
<1> QED
  BY <1>5, <1>6

(* The files once all that is seen of them is on the disk, the journal o   *)
(* among them.                                                             *)
LEMMA SyncedFilesRecover ==
    ASSUME PagerInv', NEW B, NEW t \in Nat, IsImage(B, t), txns' = t,
           NEW o, IsFile(o), Valid(o, db', B),
           \A p \in Pages : OnDisk(db'[p]),
           \A i \in 1 .. JournalLen : Found'[i].now = o[i] /\ OnDisk(Found'[i]),
           \A id \in Journals : \A i \in 1 .. JournalLen : OnDisk(jrnl'[id][i]),
           dir'.disk = {dir'.now}, \A c \in Conns : pager'[c].at # "zeroed"
    PROVE  FilesRecover' /\ Image' = B /\ ~Committed'
<1> USE PagerAssumption
<1>1. SeenIsLeft'
  BY DEF SeenIsLeft, OnDisk
<1>2. IsFile(Found') /\ \A i \in 1 .. JournalLen : Found'[i].now \in Found'[i].disk
  <2>1. Found' = IF dir'.now = Nothing THEN Blank ELSE jrnl'[dir'.now]
    BY DEF Found, Of, Blank
  <2>2. dir'.now = Nothing \/ dir'.now \in Journals
    BY DEF PagerInv, FilesOK
  <2>3. IsFile(Found')
    BY <2>1, <2>2, BlankLeaves DEF PagerInv, FilesOK
  <2> QED
    BY <2>3 DEF OnDisk
<1>3. /\ IsFile(Now(Found')) /\ Now(Found') \in Outcomes(Found')
      /\ \A i \in 1 .. JournalLen : Now(Found')[i] = o[i]
  BY <1>2, NowIsLeft
<1>4. Now(Found') = o
  BY <1>3 DEF IsFile
<1>5. \A x \in Outcomes(Found') : x = o
  <2>1. SUFFICES ASSUME NEW x \in Outcomes(Found') PROVE x = o
    OBVIOUS
  <2>2. IsFile(x) /\ \A i \in 1 .. JournalLen : x[i] \in Found'[i].disk
    BY <1>2, LeftOf
  <2>3. \A i \in 1 .. JournalLen : x[i] = o[i]
    BY <2>2 DEF OnDisk
  <2> QED
    BY <2>2, <2>3 DEF IsFile
<1>6. /\ B = [p \in Pages |-> B[p]] /\ File' = [p \in Pages |-> File'[p]]
      /\ \A p \in Pages : File'[p] \in db'[p].disk
  BY <1>1 DEF IsImage, PagerInv, FilesOK, File, Now, SeenIsLeft
<1>7. ImageFrom(File', Found') = B
  BY <1>4, <1>6, ImageFromIs
<1>8. Image' = B
  <2>1. Image' = ImageFrom(File', Found')
    BY DEF Image, ImageFrom, Found, Of
  <2> QED
    BY <1>7, <2>1
<1>9. Over(Restores(o), File') = B
  BY <1>6, ValidRestores
<1>10. LossRollsBack'
  <2>1. ASSUME NEW f \in dir'.disk, NEW x \in Outcomes(Of(f)')
        PROVE  Over(Restores(x), File') = B /\ IsImage(B, txns') /\ Valid(x, db', B)
    <3>1. f = dir'.now /\ Of(f)' = Found'
      BY DEF Found, Of
    <3>2. x = o
      BY <1>5, <3>1
    <3> QED
      BY <1>9, <3>2
  <2> QED
    BY <2>1 DEF LossRollsBack
<1>11. ~Committed' /\ Settled'
  BY DEF Committed, Settled
<1>12. NoHeader(Found') \/ IsHeader(Found'[1].now)
  <2>1. 1 \in 1 .. JournalLen
    OBVIOUS
  <2> QED
    BY <2>1 DEF NoHeader, OnDisk
<1>13. \A x \in Outcomes(Found') : Valid(x, db', Image')
  BY <1>5, <1>8
<1>14. IsImage(Image', txns')
  BY <1>8
<1> QED
  BY <1>1, <1>8, <1>10, <1>11, <1>12, <1>13, <1>14 DEF FilesRecover

LEMMA FreshPagersRecover ==
    ASSUME PagerInv', txns' \in Nat, FilesRecover',
           \A c \in Conns : (\E m : pager'[c] = Fresh(m)) /\ c \notin reserved'
    PROVE  RecInv'
<1>1. ASSUME NEW c \in Conns
      PROVE  Recovers(pager'[c], held'[c], c \in reserved', Found', dir'.now, Settled',
                      db', Image', txns')
  BY FreshRecovers
<1> QED
  BY <1>1 DEF RecInv

LEMMA LegibleIs ==
    ASSUME NEW o, IsFile(o), NEW j, j = Legible(o)
    PROVE  IsFile(j) /\ (j = o \/ (~IsHeader(o[1]) /\ ~IsHeader(j[1])))
<1> USE PagerAssumption
<1>1. 1 \in 1 .. JournalLen /\ DOMAIN o = 1 .. JournalLen
  BY DEF IsFile
<1>2. ~IsHeader(Zeros) /\ ~IsHeader(Junk)
  BY DEF IsHeader
<1>3. CASE \E i \in DOMAIN o : IsHeader(o[i])
  BY <1>3 DEF Legible
<1>4. CASE ~ \E i \in DOMAIN o : IsHeader(o[i])
  <2>1. j = [i \in 1 .. JournalLen |-> IF i = 1 /\ o[1] = Junk THEN Junk ELSE Zeros]
    BY <1>1, <1>4 DEF Legible
  <2>2. IsFile(j) /\ j[1] \in {Zeros, Junk}
    BY <1>1, <2>1 DEF IsFile
  <2> QED
    BY <1>1, <1>2, <1>4, <2>2
<1> QED
  BY <1>3, <1>4

(* A step that leaves one of the images that were at risk.                 *)
Loses == RecInv' /\ Image' \in Risk /\ Risk' = {Image'}

LEMMA PowerLossRecovers ==
    ASSUME PagerInv, RecInv, PagerInv', PowerLoss
    PROVE  Loses
<1> USE PagerAssumption
<1>1. PICK d \in Outcomes(db), f \in dir.disk :
          \E j \in IF f = Nothing THEN {<<>>} ELSE {Legible(o) : o \in Outcomes(jrnl[f])} :
             /\ db' = [p \in Pages |-> Synced(d[p])]
             /\ dir' = Synced(f)
             /\ jrnl' = [id \in Journals |->
                   IF id = f THEN [i \in 1..JournalLen |-> Synced(j[i])] ELSE Blank]
  BY DEF PowerLoss
<1>2. PICK j \in IF f = Nothing THEN {<<>>} ELSE {Legible(o) : o \in Outcomes(jrnl[f])} :
             jrnl' = [id \in Journals |->
                   IF id = f THEN [i \in 1..JournalLen |-> Synced(j[i])] ELSE Blank]
  BY <1>1
<1>3. FilesOK /\ SeenIsLeft /\ LossRollsBack /\ txns \in Nat
  BY DEF PagerInv, RecInv, FilesRecover
<1>4. f = Nothing \/ f \in Journals
  BY <1>3 DEF FilesOK
<1>5. IsFile(Of(f)) /\ \A i \in 1 .. JournalLen : Of(f)[i].now \in Of(f)[i].disk
  BY <1>3, <1>4, OfIsFile
<1>6. \E o \in Outcomes(Of(f)) : f # Nothing => j = Legible(o)
  <2>1. CASE f = Nothing
    BY <1>5, <2>1, NowIsLeft
  <2>2. CASE f # Nothing
    BY <1>2, <2>2 DEF Of
  <2> QED
    BY <2>1, <2>2
<1>7. PICK o \in Outcomes(Of(f)) : f # Nothing => j = Legible(o)
  BY <1>6
<1> DEFINE B == Over(Restores(o), File)
           k == IF f = Nothing THEN Now(Blank) ELSE j
<1>8. IsImage(B, txns) /\ Valid(o, db, B)
  BY <1>3 DEF LossRollsBack
<1> HIDE DEF B
<1>9. IsFile(o)
  BY <1>5, LeftOf
<1>10. IsFile(Now(Blank)) /\ Now(Blank)[1] = Zeros /\ \A i \in 1 .. JournalLen : Now(Blank)[i] = Blank[i].now
  <2>1. IsFile(Blank) /\ Blank[1].now = Zeros /\ 1 \in 1 .. JournalLen
    BY BlankLeaves
  <2>2. \A i \in 1 .. JournalLen : Blank[i].now \in Blank[i].disk
    BY BlankLeaves
  <2> QED
    BY <2>1, <2>2, NowIsLeft
<1>11. IsFile(k) /\ (k = o \/ (~IsHeader(o[1]) /\ ~IsHeader(k[1])))
  <2>1. CASE f = Nothing
    <3>1. Of(f) = Blank
      BY <2>1 DEF Of
    <3>2. ~IsHeader(o[1]) /\ ~IsHeader(Zeros)
      BY <3>1, BlankLeaves DEF IsHeader
    <3> QED
      BY <1>10, <2>1, <3>2
  <2>2. CASE f # Nothing
    BY <1>7, <1>9, <2>2, LegibleIs
  <2> QED
    BY <2>1, <2>2
<1>12. \A p \in Pages : d[p] \in db[p].disk /\ db'[p] = Synced(d[p])
  <2>1. db = [p \in 1 .. MaxPages |-> db[p]]
    BY <1>3 DEF FilesOK, Pages
  <2>2. \A p \in 1 .. MaxPages : d[p] \in db[p].disk
    BY <2>1, OutcomesAre
  <2> QED
    BY <1>1, <2>2 DEF Pages
<1>13. \A p \in Pages : /\ OnDisk(db'[p])
                        /\ \A v : db[p].disk = {v} => db'[p].disk = {v}
  <2>1. SUFFICES ASSUME NEW p \in Pages
                 PROVE  OnDisk(db'[p]) /\ \A v : db[p].disk = {v} => db'[p].disk = {v}
    OBVIOUS
  <2>2. d[p] \in db[p].disk /\ db'[p] = Synced(d[p])
    BY <1>12
  <2>3. db'[p].now = d[p] /\ db'[p].disk = {d[p]}
    BY <2>2 DEF Synced
  <2> QED
    BY <2>2, <2>3 DEF OnDisk
<1>14. Valid(k, db', B)
  <2>1. CASE k = o
    <3>1. Clean(db, B) => Clean(db', B)
      BY <1>13 DEF Clean
    <3> QED
      BY <1>8, <1>13, <2>1, <3>1 DEF Valid
  <2>2. CASE ~IsHeader(o[1]) /\ ~IsHeader(k[1])
    <3>1. Clean(db, B)
      BY <1>8, <2>2 DEF Valid
    <3>2. Clean(db', B)
      BY <1>13, <3>1 DEF Clean
    <3> QED
      BY <2>2, <3>2 DEF Valid
  <2> QED
    BY <1>11, <2>1, <2>2
<1>15. \A i \in 1 .. JournalLen : OnDisk(Blank[i])
  BY DEF Blank, OnDisk, Synced
<1>16. \A id \in Journals : \A i \in 1 .. JournalLen : OnDisk(jrnl'[id][i])
  <2>1. \A id \in Journals : jrnl'[id] = IF id = f THEN [i \in 1..JournalLen |-> Synced(j[i])] ELSE Blank
    BY <1>2
  <2>2. \A v : OnDisk(Synced(v))
    BY DEF OnDisk, Synced
  <2>3. ASSUME NEW id \in Journals, NEW i \in 1 .. JournalLen PROVE OnDisk(jrnl'[id][i])
    <3>1. CASE id = f
      <4>1. jrnl'[id] = [n \in 1..JournalLen |-> Synced(j[n])]
        BY <2>1, <3>1
      <4>2. jrnl'[id][i] = Synced(j[i])
        BY <4>1
      <4> QED
        BY <2>2, <4>2
    <3>2. CASE id # f
      BY <1>15, <2>1, <3>2
    <3> QED
      BY <3>1, <3>2
  <2> QED
    BY <2>3
<1>17. \A i \in 1 .. JournalLen : Found'[i].now = k[i] /\ OnDisk(Found'[i])
  <2>1. dir'.now = f
    BY <1>1 DEF Synced
  <2>2. CASE f = Nothing
    <3>1. Found' = Blank
      BY <2>1, <2>2 DEF Found, Of, Blank
    <3> QED
      BY <1>10, <1>15, <2>2, <3>1
  <2>3. CASE f # Nothing
    <3>1. Found' = [i \in 1..JournalLen |-> Synced(j[i])]
      BY <1>2, <1>4, <2>1, <2>3 DEF Found, Of
    <3> QED
      BY <2>3, <3>1 DEF Synced, OnDisk
  <2> QED
    BY <2>2, <2>3
<1> HIDE DEF k
<1>18. /\ dir'.disk = {dir'.now} /\ txns' = txns
       /\ \A c \in Conns : pager'[c] = Fresh(pager[c].mode)
  BY <1>1 DEF PowerLoss, Synced
<1>19. \A c \in Conns : pager'[c].at # "zeroed"
  <2>1. \A m : Fresh(m).at = "idle"
    BY DEF Fresh
  <2> QED
    BY <1>18, <2>1
<1>20. FilesRecover' /\ Image' = B /\ ~Committed'
  BY <1>3, <1>8, <1>11, <1>13, <1>14, <1>16, <1>17, <1>18, <1>19, SyncedFilesRecover
<1>21. \A c \in Conns : c \notin reserved'
  BY DEF PowerLoss, FL!Lose
<1>22. RecInv'
  BY <1>3, <1>18, <1>20, <1>21, FreshPagersRecover
<1>23. Image' \in Risk
  <2>1. AtRisk(B)
    BY DEF AtRisk, B
  <2>2. RiskKnown
    BY RiskIs
  <2> QED
    BY <1>3, <1>20, <2>1, <2>2 DEF RiskKnown
<1>24. Risk' = {Image'}
  <2>1. OnlyAtRisk'
    BY RiskOf
  <2>2. FilesOK' /\ Settled'
    BY <1>18 DEF PagerInv, Settled
  <2> QED
    BY <1>20, <2>1, <2>2 DEF OnlyAtRisk
<1> QED
  BY <1>22, <1>23, <1>24 DEF Loses

LEMMA RecStarts == ASSUME PagerInv, Init PROVE RecInv
<1> USE PagerAssumption
<1>1. /\ dir = Synced(Nothing) /\ jrnl = [id \in Journals |-> Blank] /\ txns = 0
      /\ \A c \in Conns : c \notin reserved
  BY DEF Init, FL!Init
<1>2. PICK s \in Starts : /\ pager = [c \in Conns |-> Fresh(s.mode[c])]
                          /\ db = [p \in Pages |-> Synced(IF p <= s.size THEN Page(0, 0) ELSE Nothing)]
  BY DEF Init
<1>3. /\ dir.now = Nothing /\ dir.disk = {Nothing} /\ Found = Blank /\ Of(Nothing) = Blank
  BY <1>1 DEF Synced, Found, Of
<1>4. s.size \in Pages
  BY <1>2 DEF Pages
<1>5. \A p \in Pages : /\ db[p].now = IF p <= s.size THEN Page(0, 0) ELSE Nothing
                       /\ db[p].disk = {db[p].now}
  BY <1>2 DEF Synced
<1>6. FilesOK
  BY DEF PagerInv
<1>7. /\ IsFile(Blank) /\ NoHeader(Blank) /\ Blank[1].now = Zeros /\ Zeros # Junk
      /\ \A i \in 1 .. JournalLen : Blank[i].now \in Blank[i].disk
      /\ \A o \in Outcomes(Blank) : ~IsHeader(o[1])
  BY BlankLeaves
<1>8. SeenIsLeft
  BY <1>1, <1>3, <1>5, <1>7 DEF SeenIsLeft
<1>9. /\ File = [p \in Pages |-> File[p]] /\ \A p \in Pages : File[p] = db[p].now
  BY <1>6 DEF FilesOK, File, Now
<1> HIDE DEF File
<1>10. IsImage(File, 0)
  <2>1. Page(0, 0) # Nothing
    BY ValuesAssumption DEF Page
  <2>2. SizeIs(File, s.size)
    <3>1. \A p \in Pages : p \in Nat /\ s.size \in Nat
      BY <1>4 DEF Pages
    <3>2. \A p \in Pages : File[p] = IF p <= s.size THEN Page(0, 0) ELSE Nothing
      BY <1>5, <1>9
    <3> QED
      BY <1>4, <2>1, <3>1, <3>2 DEF SizeIs
  <2>3. \A p \in Pages : File[p] # Nothing => File[p] = Page(0, 0)
    BY <1>5, <1>9
  <2>4. IsPage(Page(0, 0), 0)
    <3>1. 0 \in 0 .. 0
      OBVIOUS
    <3> QED
      BY <3>1 DEF IsPage
  <2>5. \A p \in Pages : File[p] # Nothing => IsPage(File[p], 0)
    BY <2>3, <2>4
  <2> QED
    BY <1>4, <1>9, <2>2, <2>5 DEF IsImage
<1>11. Clean(db, File)
  BY <1>5, <1>9 DEF Clean
<1>12. \A o \in Outcomes(Blank) : Valid(o, db, File)
  BY <1>7, <1>11, NoneIsValid
<1>13. Image = File
  <2>1. Now(Blank) \in Outcomes(Blank)
    BY <1>7, NowIsLeft
  <2>2. Valid(Now(Blank), db, File) /\ \A p \in Pages : File[p] \in db[p].disk
    BY <1>5, <1>9, <1>12, <2>1
  <2>4. ImageFrom(File, Blank) = File
    BY <1>9, <2>2, ImageFromIs
  <2>3. Image = ImageFrom(File, Found)
    BY DEF Image, ImageFrom, Found, Of
  <2> QED
    BY <1>3, <2>3, <2>4
<1>14. LossRollsBack
  <2>1. ASSUME NEW f \in dir.disk, NEW o \in Outcomes(Of(f))
        PROVE  Over(Restores(o), File) = File /\ Valid(o, db, File)
    <3>1. o \in Outcomes(Blank)
      BY <1>3, <2>1
    <3>2. Valid(o, db, File)
      BY <1>12, <3>1
    <3> QED
      BY <1>1, <1>6, <1>8, <1>10, <3>2, LossIs
  <2> QED
    BY <1>1, <1>10, <2>1 DEF LossRollsBack
<1>15. \A c \in Conns : (\E m : pager[c] = Fresh(m)) /\ pager[c].at = "idle"
  <2>1. \A m : Fresh(m).at = "idle"
    BY DEF Fresh
  <2> QED
    BY <1>2, <2>1
<1>16. ~Committed
  BY <1>15 DEF Committed
<1>17. FilesRecover
  <2>1. Settled /\ (NoHeader(Found) /\ Found[1].now # Junk)
    BY <1>3, <1>7 DEF Settled
  <2>2. IsImage(Image, txns) /\ \A o \in Outcomes(Found) : Valid(o, db, Image)
    BY <1>1, <1>3, <1>10, <1>12, <1>13
  <2> QED
    BY <1>8, <1>14, <1>16, <2>1, <2>2 DEF FilesRecover
<1>18. ASSUME NEW c \in Conns
       PROVE  Recovers(pager[c], held[c], c \in reserved, Found, dir.now, Settled, db, Image, txns)
  BY <1>1, <1>15, FreshRecovers
<1> QED
  BY <1>1, <1>17, <1>18 DEF RecInv

(* What a write that fails leaves of the database.                         *)
Torn(torn) == db' = [p \in Pages |-> IF p \in torn THEN Put(db[p], Junk) ELSE db[p]]

LEMMA TornIs ==
    ASSUME SeenIsLeft, FilesOK, NEW torn, Torn(torn)
    PROVE  /\ \A p \in Pages : db'[p].now \in db'[p].disk
           /\ \A p \in Pages : p \notin torn => db'[p] = db[p]
           /\ torn = {} => db' = db
<1>1. \A p \in Pages : db'[p] = IF p \in torn THEN Put(db[p], Junk) ELSE db[p]
  BY DEF Torn
<1>2. \A p \in Pages : db'[p].now \in db'[p].disk
  <2>1. \A v, p : Put(db[p], v).now \in Put(db[p], v).disk
    BY DEF Put
  <2> QED
    BY <1>1, <2>1 DEF SeenIsLeft
<1>3. torn = {} => db' = db
  BY DEF Torn, FilesOK
<1> QED
  BY <1>1, <1>2, <1>3

(* The page that a connection was about to write is in the journal.        *)
LEMMA WriteTears ==
    ASSUME FLP!LocksInv, PagerInv, LinkInv, RecInv, NEW c \in Conns, pager[c].at = "write",
           NEW torn, torn \subseteq Target(c), Torn(torn)
    PROVE  /\ torn \subseteq pager[c].dirty /\ Settled
           /\ Untouched(pager[c], Found, db', Image)
           /\ \A o \in Outcomes(Found) : Valid(o, db', Image)
<1> DEFINE P == pager[c]
           J == Found
           B == Image
<1>1. P.eState = "WRITER_DBMOD" /\ Logging(P)
  BY DEF PagerInv, Good, Fits, Logging
<1>2. /\ IsFile(J) /\ LogOK(P, J) /\ LogMore(P, J, db, B, txns) /\ ModOK(P, db, B, txns)
      /\ P.txn = txns /\ txns \in Nat \ {0} /\ txns - 1 \in Nat
      /\ IsImage(B, txns - 1) /\ SizeIs(B, P.origSize)
  BY <1>1, LoggingFacts
<1>3. /\ HeadOK(P, J) /\ LogsOld(P, J, B) /\ Untouched(P, J, db, B) /\ PagesOK(P, db, txns)
      /\ P.hdr # 1
  BY <1>1, <1>2 DEF LogMore
<1>4. Settled
  BY <1>1, <1>3, HeadSeen
<1>5. SeenIsLeft /\ FilesOK
  BY DEF RecInv, FilesRecover, PagerInv
<1>6. P.size \in Pages /\ P.dirty \subseteq 1 .. P.size /\ P.dirty \subseteq Nat
  BY <1>2, <1>3 DEF ModOK, PagesOK, Pages
<1>7. \A p \in Target(c) : p \in P.dirty /\ p \notin P.needSync
  <2>1. \/ P.job = "commit" /\ P.needSync = {}
        \/ P.job = "spill" /\ P.spilled \notin P.needSync /\ P.spilled \in P.dirty
    BY <1>2 DEF LogOK
  <2>2. P.dirty # {} => FirstDirty(P) \in P.dirty
    BY <1>6, FirstIsDirty
  <2>3. At(c, "write") /\ ~At(c, "play")
    BY DEF At
  <2>4. CASE P.job = "spill"
    <3>1. Target(c) = {P.spilled}
      BY <2>3, <2>4 DEF Target
    <3> QED
      BY <2>1, <2>4, <3>1
  <2>5. CASE P.job = "commit"
    <3>1. Target(c) = IF P.dirty # {} THEN {FirstDirty(P)} ELSE {}
      BY <2>3, <2>5 DEF Target
    <3> QED
      BY <2>1, <2>2, <2>5, <3>1
  <2> QED
    BY <2>1, <2>4, <2>5
<1>8. ASSUME NEW p \in torn, p <= P.origSize PROVE LogsPage(J, P.hdr, p)
  <2>1. p \in P.inJournal \ P.needSync
    BY <1>2, <1>7, <1>8 DEF LogOK
  <2>2. Logged(J, p, P.hdr, P.txn)
    BY <1>2, <2>1 DEF LogOK
  <2> QED
    BY <2>2 DEF Logged, LogsPage, IsLogOf, Record
<1>9. \A p \in 1 .. P.origSize : p \in Pages /\ p <= P.origSize
  <2>1. P.origSize \in Pages
    BY <1>2 DEF SizeIs
  <2>2. \A n, m \in Nat : n \in 1 .. m => \A p \in 1 .. n : p \in 1 .. m /\ p <= n
    OBVIOUS
  <2>3. MaxPages \in Nat /\ P.origSize \in Nat
    BY <2>1, PagerAssumption DEF Pages
  <2> QED
    BY <2>1, <2>2, <2>3 DEF Pages
<1> HIDE DEF J, B
<1>10. Untouched(P, J, db', B)
  <2>1. SUFFICES ASSUME NEW p \in 1 .. P.origSize PROVE LogsPage(J, P.hdr, p) \/ db'[p].disk = {B[p]}
    BY DEF Untouched
  <2>2. LogsPage(J, P.hdr, p) \/ db[p].disk = {B[p]}
    BY <1>3 DEF Untouched
  <2>3. p \notin torn => db'[p] = db[p]
    BY <1>5, <1>9, TornIs
  <2>4. p \in torn => LogsPage(J, P.hdr, p)
    BY <1>8, <1>9
  <2> QED
    BY <2>2, <2>3, <2>4
<1>11. \A o \in Outcomes(J) : Valid(o, db', B)
  BY <1>2, <1>3, <1>10, LogIsValid
<1> QED
  BY <1>4, <1>7, <1>10, <1>11 DEF J, B

LEMMA PlayTears ==
    ASSUME FLP!LocksInv, PagerInv, LinkInv, RecInv, NEW c \in Conns, pager[c].at = "play",
           NEW torn, torn \subseteq Target(c), Torn(torn)
    PROVE  /\ torn = {} \/ Settled
           /\ \A o \in Outcomes(Found) : Valid(o, db', Image)
<1> DEFINE P == pager[c]
<1>1. PlayOK(P, Found, db, Image)
  BY DEF RecInv, Recovers, ConnOK
<1>2. Journal(c) = Found
  BY <1>1, PlayerFinds DEF PlayOK
<1>3. P.todo \subseteq Nat
  BY <1>1 DEF PlayOK
<1>4. \A p \in torn : Covers(Found, p)
  <2>1. SUFFICES ASSUME NEW p \in Target(c) PROVE Covers(Found, p)
    OBVIOUS
  <2>2. /\ P.todo # {} /\ ToFile(P, NextRecord(P)) /\ p = Found[NextRecord(P)].now.pgno
    BY <1>2, <2>1 DEF Target, At
  <2>3. NextRecord(P) \in P.todo
    BY <1>3, <2>2, NextIsLeft
  <2> QED
    BY <1>1, <2>2, <2>3 DEF PlayOK
<1>5. SeenIsLeft /\ FilesOK
  BY DEF RecInv, FilesRecover, PagerInv
<1>6. \A p \in Pages \ torn : db'[p] = db[p]
  BY <1>5, TornIs
<1>7. \A o \in Outcomes(Found) : Valid(o, db, Image)
  <2>1. Owner(c)
    BY DEF PagerInv, Good, Fits, Owner, IsWriter
  <2> QED
    BY <2>1, LeftIsValid
<1>8. \A o \in Outcomes(Found) : Valid(o, db', Image)
  BY <1>4, <1>6, <1>7, CoveredWrites
<1>9. torn = {} \/ Settled
  BY <1>4, CoveredIsHot
<1> QED
  BY <1>8, <1>9

LEMMA FailTears ==
    ASSUME FLP!LocksInv, PagerInv, LinkInv, RecInv, NEW c \in Conns,
           pager[c].at \in {"records", "header", "write", "play"},
           NEW torn, torn \subseteq Target(c), Torn(torn)
    PROVE  /\ \A p \in Pages : db'[p].now \in db'[p].disk
           /\ \A o \in Outcomes(Found) : Valid(o, db', Image)
           /\ Settled \/ db' = db
           /\ held[c] = EXCLUSIVE_LOCK /\ Owner(c)
<1>1. held[c] = EXCLUSIVE_LOCK /\ Owner(c)
  BY DEF PagerInv, Good, Fits, Owner
<1>2. SeenIsLeft /\ FilesOK
  BY DEF RecInv, FilesRecover, PagerInv
<1>3. (\A p \in Pages : db'[p].now \in db'[p].disk) /\ (torn = {} => db' = db)
  BY <1>2, TornIs
<1>4. CASE pager[c].at \in {"records", "header"}
  <2>1. Target(c) = {}
    BY <1>4 DEF Target, At
  <2>2. \A o \in Outcomes(Found) : Valid(o, db, Image)
    BY <1>1, <1>4, LeftIsValid
  <2> QED
    BY <1>1, <1>3, <2>1, <2>2
<1>5. CASE pager[c].at = "write"
  BY <1>1, <1>3, <1>5, WriteTears
<1>6. CASE pager[c].at = "play"
  BY <1>1, <1>3, <1>6, PlayTears
<1> QED
  BY <1>4, <1>5, <1>6

(* A commit that fails is to be rolled back.                               *)
LEMMA CommitFails ==
    ASSUME FLP!LocksInv, PagerInv, LinkInv, RecInv, PagerInv', NEW c \in Conns,
           pager[c].at \in {"records", "header", "write"}, pager[c].job = "commit",
           NEW torn, torn \subseteq Target(c), Torn(torn),
           UNCHANGED <<locks, dir, jrnl, txns>>,
           pager' = [pager EXCEPT ![c] = [@ EXCEPT !.at = "failed", !.job = "none"]]
    PROVE  Keeps
<1> DEFINE P == pager[c]
           J == Found
           B == Image
           Q == [P EXCEPT !.at = "failed", !.job = "none"]
<1>1. /\ \A p \in Pages : db'[p].now \in db'[p].disk
      /\ \A o \in Outcomes(Found) : Valid(o, db', Image)
      /\ Settled \/ db' = db
      /\ held[c] = EXCLUSIVE_LOCK /\ Owner(c)
  BY FailTears
<1>2. pager' = [pager EXCEPT ![c] = Q] /\ OthersKeepLocks(c) /\ held'[c] = held[c]
  BY LockMoves
<1>3. PagerOK(P) /\ Fits(P, held[c], c \in reserved) /\ FilesOK /\ SeenIsLeft
  BY DEF PagerInv, Good, RecInv, FilesRecover
<1>4. P.eState \in {"WRITER_CACHEMOD", "WRITER_DBMOD"} /\ Logging(P) /\ (P.at = "write" => P.eState = "WRITER_DBMOD")
  BY <1>3 DEF Fits, Logging
<1>5. Differs(P, Q, {"at", "job"}) /\ Q.at = "failed" /\ Q.job = "none"
  BY <1>3 DEF PagerOK, IsPager, Fields, Differs
<1> HIDE DEF Q
<1>6. /\ Q.eState = P.eState /\ Q.mode = P.mode /\ Q.jfd = P.jfd /\ Q.cache = P.cache
      /\ Q.vers = P.vers /\ Q.txn = P.txn /\ Q.dirSync = P.dirSync /\ Q.off = P.off /\ Q.hdr = P.hdr
      /\ Q.size = P.size /\ Q.origSize = P.origSize /\ Q.dirty = P.dirty /\ Q.inJournal = P.inJournal
  BY <1>5 DEF Differs, Fields
<1>7. /\ P.jfd \in Journals /\ dir.now = P.jfd /\ J = jrnl[P.jfd]
      /\ \A i \in 1 .. JournalLen : J[i].now \in J[i].disk
      /\ LogMore(P, J, db, B, txns) /\ ModOK(P, db, B, txns)
  BY <1>4, LoggingFacts
<1>8. /\ HeadOK(P, J) /\ LogsOld(P, J, B) /\ Untouched(P, J, db, B) /\ PagesOK(P, db, txns)
      /\ (P.hdr = 1 <=> P.eState = "WRITER_CACHEMOD") /\ (P.hdr = 1 => J[1].now.kind = "header")
      /\ VersOK(P, B, txns)
  BY <1>7 DEF LogMore
<1>9. /\ P.at # "write" => torn = {} /\ db' = db
      /\ torn \subseteq P.dirty
  <2>1. CASE P.at # "write"
    <3>1. Target(c) = {}
      BY <2>1, <1>3 DEF Target, At
    <3> QED
      BY <1>3, <3>1, TornIs
  <2>2. CASE P.at = "write"
    BY <2>2, WriteTears
  <2> QED
    BY <2>1, <2>2
<1>10. Untouched(P, J, db', B)
  <2>1. CASE P.at # "write"
    BY <1>8, <1>9, <2>1
  <2>2. CASE P.at = "write"
    BY <2>2, WriteTears
  <2> QED
    BY <2>1, <2>2
<1>11. \A p \in Pages \ P.dirty : db'[p] = db[p]
  BY <1>3, <1>9, TornIs
<1>12. ConnOK(P, J, db, B, txns, Settled) /\ KnowsJournal(P, held[c], c \in reserved, J, dir.now, Settled)
  BY DEF RecInv, Recovers
<1>13. P.vers \in Nat /\ IsCache(P) /\ (P.jfd # Nothing /\ ~P.dirSync => Settled)
  BY <1>4, <1>12 DEF ConnOK, KnowsJournal, IsWriter
<1>14. Settled \/ (NoHeader(J) /\ J[1].now # Junk)
  BY DEF RecInv, FilesRecover
<1>15. Settled' = Settled /\ dir' = dir /\ \A f \in dir'.disk : Of(f)' = Of(f)
  BY DEF Settled, Of
<1> HIDE DEF J, B
<1>16. ModOK(Q, db', B, txns)
  BY <1>4, <1>5, <1>6, <1>7, <1>9 DEF ModOK
<1>17. HeadOK(Q, J)
  BY <1>3, <1>5, <1>6, <1>8 DEF HeadOK, Stops
<1>18. PagesOK(Q, db', txns)
  BY <1>6, <1>8, <1>11 DEF PagesOK
<1>19. VersOK(Q, B, txns)
  BY <1>4, <1>5, <1>6, <1>8 DEF VersOK
<1>20. LogMore(Q, J, db', B, txns)
  <2>1. LogsOld(Q, J, B) /\ Untouched(Q, J, db', B)
    BY <1>6, <1>8, <1>10 DEF LogsOld, Untouched
  <2> QED
    BY <1>6, <1>8, <1>17, <1>18, <1>19, <2>1 DEF LogMore
<1>21. jrnl' = [jrnl EXCEPT ![Q.jfd] = J] /\ dir'.now = Q.jfd /\ dir'.now \in dir'.disk
  <2>1. jrnl' = [jrnl EXCEPT ![P.jfd] = jrnl[P.jfd]]
    BY <1>3 DEF FilesOK
  <2> QED
    BY <1>3, <1>6, <1>7, <1>15, <2>1 DEF SeenIsLeft
<1>22. Logging(Q) /\ Q.vers \in Nat /\ IsCache(Q) /\ (~Q.dirSync => Settled')
  <2>1. P.jfd # Nothing
    BY <1>7 DEF ModOK
  <2> QED
    BY <1>4, <1>5, <1>6, <1>13, <1>15, <2>1 DEF Logging, IsCache
<1>23. \/ Settled'
       \/ /\ NoHeader(J) /\ J[1].now # Junk /\ db' = db
          /\ \A f \in dir'.disk \ {dir'.now} : f \in dir.disk /\ Of(f)' = Of(f)
  BY <1>1, <1>14, <1>15
<1>24. Settled /\ dir.now # Nothing => Settled'
  BY <1>15
<1>25. Q.at = "failed" => J = Found /\ pager[c].at # "zeroed"
  BY DEF J
<1>26. Q.at # "lock" /\ Q.at # "open"
  BY <1>5
<1> QED
  BY <1>1, <1>2, <1>7, <1>16, <1>20, <1>21, <1>22, <1>23, <1>24, <1>25, <1>26, LogStepRecovers DEF B

(* A pager that gives up, with the files as they are.                      *)
LEMMA GivenUpRecovers ==
    ASSUME FLP!LocksInv, PagerInv, LinkInv, RecInv, PagerInv', NEW c \in Conns, NEW Q, ZeroesLast,
           pager' = [pager EXCEPT ![c] = Q], OthersKeepLocks(c), Q.at = "idle",
           \A J, now, settled, file : Recovers(Q, held'[c], c \in reserved', J, now, settled, file, Image, txns),
           pager[c].at \in {"records", "header", "write", "play", "finalize", "zeroed"},
           NEW torn, torn \subseteq Target(c), Torn(torn),
           jrnl' = WrittenBack(c), UNCHANGED <<dir, txns>>
    PROVE  Keeps
<1>1. FilesOK /\ SeenIsLeft
  BY DEF PagerInv, RecInv, FilesRecover
<1>2. CASE pager[c].at \in {"finalize", "zeroed"}
  <2>1. Target(c) = {}
    BY <1>2 DEF Target, At
  <2>2. db' = db
    BY <1>1, <2>1, TornIs
  <2>3. CASE pager[c].at = "zeroed"
    <3>1. ZeroedIsSynced(c)
      BY <1>1, <2>2, <2>3, ZeroesGetWritten DEF ZeroedIsSynced, WrittenBack, At, SeenIsLeft
    <3> QED
      BY <2>3, <3>1, ZeroedRecovers
  <2>4. CASE pager[c].at = "finalize"
    <3>1. UNCHANGED disk
      BY <2>2, <2>4 DEF disk, WrittenBack, At
    <3>2. Recovers(Q, held'[c], c \in reserved', Found, dir.now, Settled, db, Image, txns')
      OBVIOUS
    <3> QED
      BY <2>4, <3>1, <3>2, QuietRecovers
  <2> QED
    BY <1>2, <2>3, <2>4
<1>3. CASE pager[c].at \in {"records", "header", "write", "play"}
  <2>1. /\ \A p \in Pages : db'[p].now \in db'[p].disk
        /\ \A o \in Outcomes(Found) : Valid(o, db', Image)
        /\ Settled \/ db' = db
        /\ held[c] = EXCLUSIVE_LOCK
    BY <1>3, FailTears
  <2>2. UNCHANGED <<dir, jrnl, txns>>
    BY <1>3 DEF WrittenBack, At
  <2>3. Recovers(Q, held'[c], c \in reserved', Found, dir.now, Settled, db', Image, txns)
    OBVIOUS
  <2> QED
    BY <1>3, <2>1, <2>2, <2>3, FileWrites
<1> QED
  BY <1>2, <1>3

LEMMA FailRecovers ==
    ASSUME ZeroesLast, FLP!LocksInv, PagerInv, LinkInv, RecInv, PagerInv', NEW c \in Conns, Fail(c)
    PROVE  Keeps
<1> DEFINE P == pager[c]
<1>1. /\ P.at \in {"records", "header", "write", "play", "finalize", "zeroed"}
      /\ jrnl' = WrittenBack(c) /\ UNCHANGED <<dir, txns>>
  BY DEF Fail
<1>2. PICK torn \in SUBSET Target(c) : Torn(torn)
  BY DEF Fail, Torn
<1>3. PagerOK(P) /\ Fits(P, held[c], c \in reserved)
  BY DEF PagerInv, Good
<1>4. P.vers \in Nat
  BY DEF RecInv, Recovers, ConnOK
<1>5. CASE P.job = "hot"
  <2> DEFINE Q == Closed(Emptied(P))
  <2>1. pager' = [pager EXCEPT ![c] = Q] /\ OthersKeepLocks(c) /\ c \notin reserved'
    BY <1>5, LockMoves, LostIsFree DEF Fail, Set
  <2>2. /\ \A J, now, settled, file : Recovers(Q, held'[c], c \in reserved', J, now, settled, file, Image, txns)
        /\ Q.at = "idle"
    BY <1>3, <1>4, <2>1, LostRecovers
  <2> HIDE DEF Q
  <2> QED
    BY <1>1, <1>2, <2>1, <2>2, GivenUpRecovers
<1>6. CASE P.job # "hot" /\ (P.at \in {"finalize", "zeroed"} \/ P.job # "commit")
  <2> DEFINE Q == Broken(P)
  <2>1. /\ pager' = [pager EXCEPT ![c] = Q]
        /\ P.at \in {"finalize", "zeroed"} => FL!Downgrade(c)
        /\ P.at \notin {"finalize", "zeroed"} => UNCHANGED locks
    BY <1>6 DEF Fail, Set
  <2>2. OthersKeepLocks(c) /\ (c \in reserved' => held'[c] = EXCLUSIVE_LOCK)
    BY <1>1, <1>3, <2>1, LockMoves, DownIsFree DEF Fits
  <2>3. /\ \A J, now, settled, file : Recovers(Q, held'[c], c \in reserved', J, now, settled, file, Image, txns)
        /\ Q.at = "idle"
    BY <1>3, <1>4, <2>2, BrokenRecovers
  <2> HIDE DEF Q
  <2> QED
    BY <1>1, <1>2, <2>1, <2>2, <2>3, GivenUpRecovers
<1>7. CASE P.job = "commit" /\ P.at \notin {"finalize", "zeroed"}
  <2>1. P.at \in {"records", "header", "write"}
    BY <1>1, <1>3, <1>7 DEF Fits
  <2>2. UNCHANGED <<locks, dir, jrnl, txns>>
    BY <1>1, <1>7, <2>1 DEF Fail, WrittenBack, At
  <2>3. pager' = [pager EXCEPT ![c] = [@ EXCEPT !.at = "failed", !.job = "none"]]
    BY <1>7 DEF Fail, Set
  <2> QED
    BY <1>2, <1>7, <2>1, <2>2, <2>3, CommitFails
<1> QED
  BY <1>5, <1>6, <1>7

(* The steps of one connection that commit nothing.                        *)
Ordinary(c) ==
    \/ Share(c) \/ LookForJournal(c) \/ CheckReservedLock(c) \/ PeekAtJournal(c)
    \/ LockForRollback(c) \/ GiveUpRollback(c) \/ OpenHotJournal(c) \/ Validate(c)
    \/ Unlock(c) \/ Begin(c) \/ EndUnwritten(c) \/ BeginCommit(c)
    \/ \E p \in Pages : ReadPage(c, p) \/ Write(c, p) \/ Spill(c, p)
    \/ ExclusiveLock(c) \/ SyncRecords(c) \/ SyncHeader(c) \/ WriteOut(c)
    \/ SpillOut(c) \/ SyncDatabase(c) \/ SyncZeroedHeader(c)
    \/ RollbackCache(c) \/ RollbackDatabase(c) \/ PlayRecord(c)
    \/ Fail(c) \/ Crash(c)

LEMMA OrdinaryKeeps ==
    ASSUME ZeroesLast, FLP!LocksInv, PagerInv, PagerInv', LinkInv, RecInv, NEW c \in Conns, Ordinary(c)
    PROVE  Keeps
<1>1. CASE \/ Share(c) \/ LookForJournal(c) \/ CheckReservedLock(c) \/ PeekAtJournal(c)
           \/ LockForRollback(c) \/ GiveUpRollback(c) \/ OpenHotJournal(c) \/ Validate(c)
           \/ Unlock(c)
  BY <1>1, SharedLockRecovers, GiveUpRecovers, OpenHotJournalRecovers, ValidateRecovers
<1>2. CASE Begin(c) \/ EndUnwritten(c)
  BY <1>2, BeginRecovers, EndUnwrittenRecovers
<1>3. CASE BeginCommit(c) \/ \E p \in Pages : Write(c, p)
  BY <1>3, WriteRecovers
<1>4. CASE \E p \in Pages : ReadPage(c, p) \/ Spill(c, p)
  BY <1>4, ReadPageRecovers, SpillRecovers
<1>5. CASE \/ ExclusiveLock(c) \/ SyncRecords(c) \/ SyncHeader(c) \/ WriteOut(c)
           \/ SpillOut(c) \/ SyncDatabase(c) \/ SyncZeroedHeader(c)
  BY <1>5, ExclusiveLockRecovers, SyncRecordsRecovers, SyncHeaderRecovers, WriteOutRecovers,
     SyncDatabaseRecovers, SyncZeroedHeaderRecovers
<1>6. CASE \/ RollbackCache(c) \/ RollbackDatabase(c) \/ PlayRecord(c) \/ Fail(c) \/ Crash(c)
  BY <1>6, RollbackCacheRecovers, RollbackDatabaseRecovers, PlayRecordRecovers, FailRecovers,
     CrashRecovers
<1>7. Ordinary(c) <=> \/ Share(c) \/ LookForJournal(c) \/ CheckReservedLock(c) \/ PeekAtJournal(c)
                        \/ LockForRollback(c) \/ GiveUpRollback(c) \/ OpenHotJournal(c) \/ Validate(c)
                        \/ Unlock(c) \/ (Begin(c) \/ EndUnwritten(c))
                        \/ (BeginCommit(c) \/ \E p \in Pages : Write(c, p))
                        \/ (\E p \in Pages : ReadPage(c, p) \/ Spill(c, p))
                        \/ ExclusiveLock(c) \/ SyncRecords(c) \/ SyncHeader(c) \/ WriteOut(c)
                        \/ SpillOut(c) \/ SyncDatabase(c) \/ SyncZeroedHeader(c)
                        \/ RollbackCache(c) \/ RollbackDatabase(c) \/ PlayRecord(c)
                        \/ Fail(c) \/ Crash(c)
  BY Zenon DEF Ordinary
<1> QED
  BY <1>1, <1>2, <1>3, <1>4, <1>5, <1>6, <1>7

LEMMA StillRecovers ==
    ASSUME RecInv, UNCHANGED vars
    PROVE  RecInv'
<1>1. Image' = Image /\ Found' = Found /\ File' = File
  BY DEF vars, disk, Image, Found, Of, File
<1>2. FilesRecover'
  <2>1. Settled' = Settled /\ Committed' = Committed /\ SeenIsLeft' = SeenIsLeft /\ LossRollsBack' = LossRollsBack
    BY <1>1 DEF vars, disk, Settled, Committed, SeenIsLeft, LossRollsBack, Of
  <2> QED
    BY <1>1, <2>1 DEF vars, disk, RecInv, FilesRecover
<1> QED
  BY <1>1, <1>2 DEF vars, disk, locks, RecInv, Settled

LEMMA NextIs ==
    [Next]_vars <=> \/ \E c \in Conns : Ordinary(c) \/ FinalizeJournal(c)
                    \/ PowerLoss
                    \/ UNCHANGED vars
  BY Zenon DEF Next, Ordinary

(* Every step leads from a state that recovers to another.                 *)
LEMMA RecStep == ZeroesLast /\ FLP!LocksInv /\ PagerInv /\ PagerInv' /\ LinkInv /\ RecInv /\ [Next]_vars => RecInv'
<1> SUFFICES ASSUME ZeroesLast, FLP!LocksInv, PagerInv, PagerInv', LinkInv, RecInv, [Next]_vars PROVE RecInv'
  OBVIOUS
<1>1. ASSUME NEW c \in Conns, Ordinary(c) PROVE RecInv'
  BY <1>1, OrdinaryKeeps DEF Keeps
<1>2. ASSUME NEW c \in Conns, FinalizeJournal(c) PROVE RecInv'
  BY <1>2, FinalizeJournalRecovers DEF Keeps, Commits
<1>3. CASE PowerLoss
  BY <1>3, PowerLossRecovers DEF Loses
<1>4. CASE UNCHANGED vars
  BY <1>4, StillRecovers
<1> QED
  BY <1>1, <1>2, <1>3, <1>4, NextIs

------------------------------------------------------------------------------
(* The properties                                                          *)

(* RecInv is inductive, given the other invariants: the locks, the stages  *)
(* of the calls and the journals' links.                                   *)
LEMMA RecInvariant == ASSUME Alike, ZeroesLast PROVE Spec => []RecInv
<1>1. Spec => []PagerInv
  BY PagerInvariant
<1>2. Spec => []FLP!LocksInv
  BY PagersShareLocks
<1>3. Spec => []LinkInv
  BY LinkInvariant
<1>4. PagerInv /\ Init => RecInv
  BY RecStarts
<1>5. FLP!LocksInv /\ PagerInv /\ PagerInv' /\ LinkInv /\ RecInv /\ [Next]_vars => RecInv'
  BY RecStep
<1> QED
  BY <1>1, <1>2, <1>3, <1>4, <1>5, PTL DEF Spec

(* Note (7) of pager.c: whatever of the unsynced changes to a journal is   *)
(* lost, rolling it back leaves the database that the transaction started  *)
(* from.  All connections use one journal mode, or their journals may lose *)
(* their name (run pager_mixed); in mode PERSIST, a header that a process  *)
(* has zeroed before it ended is on the disk, or an old journal may come   *)
(* back with records of a new one (run pager_persist).                     *)
THEOREM JournalsRollBack == ASSUME Alike, ZeroesLast PROVE Spec => []AnyJournalRollsBack
<1>1. FLP!LocksInv /\ PagerInv /\ LinkInv /\ RecInv => AnyJournalRollsBack
  <2> SUFFICES ASSUME FLP!LocksInv, PagerInv, LinkInv, RecInv, NEW c \in Conns, Writing(c)
               PROVE  Recoveries({File}, Outcomes(Journal(c))) = {Image}
    BY DEF AnyJournalRollsBack
  <2>1. ModOK(pager[c], db, Image, txns)
    BY DEF RecInv, Recovers, ConnOK, Writing
  <2>2. Journal(c) = Found
    BY <2>1, PlayerFinds DEF ModOK
  <2>3. Owner(c) /\ (pager[c].at # "zeroed" \/ pager[c].job # "commit")
    BY DEF PagerInv, Good, Fits, Owner, IsWriter, Writing
  <2>4. \A o \in Outcomes(Found) : Valid(o, db, Image)
    BY <2>3, LeftIsValid
  <2>5. /\ File = [p \in Pages |-> File[p]] /\ \A p \in Pages : File[p] \in db[p].disk
        /\ Image = [p \in Pages |-> Image[p]]
    <3>1. FilesOK /\ SeenIsLeft /\ IsImage(Image, txns)
      BY FoundIsFile
    <3>2. File = [p \in Pages |-> db[p].now]
      BY <3>1, FileIs
    <3> QED
      BY <3>1, <3>2 DEF SeenIsLeft, IsImage
  <2> HIDE DEF File, Image, Found
  <2>6. \A o \in Outcomes(Found) : Over(Restores(o), File) = Image
    BY <2>4, <2>5, ValidRestores
  <2>7. \E o \in Outcomes(Found) : TRUE
    BY FoundIsFile, NowIsLeft
  <2> DEFINE files == {File}
             journals == Outcomes(Found)
  <2>8. /\ \E i \in files : TRUE
        /\ \E o \in journals : TRUE
        /\ \A i \in files : \A o \in journals : Over(Restores(o), i) = Image
    BY <2>6, <2>7
  <2> HIDE DEF files, journals
  <2>9. Recoveries(files, journals) = {Image}
    BY <2>8, RecoveriesAre
  <2> QED
    BY <2>2, <2>9 DEF files, journals
<1> QED
  BY <1>1, PagerInvariant, PagersShareLocks, LinkInvariant, RecInvariant, PTL

(* Note (9) of pager.c: a cache kept from an earlier transaction that has  *)
(* the change counter of the database has pages of that database, whatever *)
(* was committed and rolled back meanwhile, and by whom.                   *)
THEOREM CachesStayRecognized == ASSUME Alike, ZeroesLast PROVE Spec => []CachesAreRecognized
<1>1. PagerInv /\ RecInv => CachesAreRecognized
  <2> SUFFICES ASSUME RecInv, NEW c \in Conns, pager[c].eState = "OPEN",
                      pager[c].vers = Counter(Image[1]), NEW p \in Pages
               PROVE  pager[c].cache[p] \in {Nothing, Image[p]}
    BY DEF CachesAreRecognized
  <2>1. OpenOK(pager[c], Image) /\ IsImage(Image, txns) /\ txns \in Nat
    BY DEF RecInv, Recovers, ConnOK, FilesRecover
  <2>2. Image[1] \in [by : Nat, ctr : Nat]
    BY <2>1, ImageOf
  <2>3. Counter(Image[1]) = Image[1].ctr
    BY <2>2, ValuesAssumption DEF Counter
  <2> QED
    BY <2>1, <2>3 DEF OpenOK, EmptyCache, CacheOf
<1> QED
  BY <1>1, PagerInvariant, RecInvariant, PTL

------------------------------------------------------------------------------
(* The refinement                                                          *)

Reads(c) == pager[c].eState \notin {"OPEN", "ERROR"}

(* What page p is for a connection that takes its own writes for B.        *)
Sights(P, file, B, p) ==
    IF p > P.size THEN B[p] = Nothing
    ELSE Seen(P, file, p) = B[p] \/ (P.txn # 0 /\ By(Seen(P, file, p)) = P.txn)

LEMMA OwnIsOwn ==
    ASSUME NEW t \in Nat \ {0}, NEW v, Own(v, t)
    PROVE  t # 0 /\ By(v) = t /\ v # Nothing
<1>1. PICK n \in 0 .. t : v = Page(t, n)
  BY DEF Own
<1>2. v \in [by : Nat, ctr : Nat] /\ v.by = t
  BY <1>1 DEF Page
<1>3. v \notin {Nothing, Junk}
  BY <1>2, ValuesAssumption
<1> QED
  BY <1>2, <1>3 DEF By

(* Of a connection that reads the file as it is.                           *)
LEMMA CacheSights ==
    ASSUME NEW P, NEW file, NEW B, CacheOf(P, B), SizeIs(B, P.size),
           \A p \in Pages : file[p].now = B[p], NEW p \in Pages
    PROVE  Sights(P, file, B, p)
  BY DEF Sights, CacheOf, SizeIs, Seen

(* Of one that sees what it has written itself.                            *)
LEMMA OwnSights ==
    ASSUME NEW P, NEW file, NEW B, SeesOwn(P, file, B), SizeIs(B, P.origSize),
           P.size \in Pages, P.origSize <= P.size, P.txn \in Nat \ {0}, NEW p \in Pages
    PROVE  Sights(P, file, B, p)
<1> USE PagerAssumption DEF Pages
<1>1. CASE p > P.size
  BY <1>1 DEF Sights, SizeIs
<1>2. CASE ~(p > P.size)
  <2>1. p \in 1 .. P.size
    BY <1>2
  <2>2. CASE Seen(P, file, p) = B[p]
    BY <1>2, <2>2 DEF Sights
  <2>3. CASE Own(Seen(P, file, p), P.txn)
    BY <1>2, <2>3, OwnIsOwn DEF Sights
  <2> QED
    BY <2>1, <2>2, <2>3 DEF SeesOwn
<1> QED
  BY <1>1, <1>2

(* Of one whose transaction goes on.                                       *)
LEMMA LogSights ==
    ASSUME NEW P, NEW J, NEW file, NEW B, NEW t \in Nat \ {0}, P.txn = t, LogsOld(P, J, B),
           Untouched(P, J, file, B), PagesOK(P, file, t), SizeIs(B, P.origSize),
           P.size \in Pages, P.origSize <= P.size, P.hdr \in Nat, P.off \in Nat, P.hdr <= P.off,
           \A p \in Pages : file[p].now \in file[p].disk, NEW p \in Pages
    PROVE  Sights(P, file, B, p)
<1> USE PagerAssumption DEF Pages
<1>1. CASE p > P.size
  BY <1>1 DEF Sights, SizeIs
<1>2. CASE ~(p > P.size) /\ p \in P.dirty
  <2>1. Own(P.cache[p], t)
    BY <1>2 DEF PagesOK
  <2>2. Seen(P, file, p) = P.cache[p] /\ By(P.cache[p]) = t
    BY <2>1, OwnIsOwn DEF Seen
  <2> QED
    BY <1>2, <2>2 DEF Sights
<1>3. CASE ~(p > P.size) /\ p \notin P.dirty
  <2>1. /\ P.cache[p] \in {Nothing, file[p].now}
        /\ p \in P.inJournal \/ p \in P.origSize + 1 .. P.size => Own(file[p].now, t)
    BY <1>3 DEF PagesOK
  <2>2. Seen(P, file, p) = file[p].now
    BY <2>1 DEF Seen
  <2>3. CASE Own(file[p].now, t)
    BY <1>3, <2>2, <2>3, OwnIsOwn DEF Sights
  <2>4. CASE p \notin P.inJournal /\ p \in 1 .. P.origSize
    <3>1. ~LogsPage(J, P.hdr, p)
      <4>1. SUFFICES ASSUME NEW i \in 1 .. P.hdr - 1, J[i].now.kind = "record", J[i].now.pgno = p
                     PROVE  FALSE
        BY DEF LogsPage
      <4>2. i \in 1 .. P.off - 1
        OBVIOUS
      <4> QED
        BY <2>4, <4>1, <4>2 DEF LogsOld
    <3>2. file[p].disk = {B[p]}
      BY <2>4, <3>1 DEF Untouched
    <3> QED
      BY <1>3, <2>2, <3>2 DEF Sights
  <2>5. p \in P.origSize + 1 .. P.size \/ p \in 1 .. P.origSize
    BY <1>3 DEF SizeIs
  <2> QED
    BY <2>1, <2>3, <2>4, <2>5
<1> QED
  BY <1>1, <1>2, <1>3

LEMMA ReaderSights ==
    ASSUME PagerInv, RecInv, NEW c \in Conns, Reads(c), NEW p \in Pages
    PROVE  Sights(pager[c], db, Image, p)
<1> DEFINE P == pager[c]
           B == Image
           J == Found
<1>1. Fits(P, held[c], c \in reserved) /\ (Logging(P) => P.jfd \in Journals /\ LogOK(P, Journal(c)))
  BY DEF PagerInv, Good, JournalOK, Journal
<1>2. /\ ConnOK(P, J, db, B, txns, Settled)
      /\ KnowsJournal(P, held[c], c \in reserved, J, dir.now, Settled)
      /\ SeenIsLeft /\ FilesOK
  BY DEF PagerInv, RecInv, FilesRecover, Recovers
<1>3. CASE P.eState \in {"READER", "WRITER_LOCKED"}
  <2>1. ReadOK(P, B) /\ NoHeader(J)
    BY <1>2, <1>3 DEF ConnOK, KnowsJournal
  <2>2. Clean(db, B)
    BY <2>1, CleanIfNone
  <2>3. \A q \in Pages : db[q].now = B[q]
    BY <1>2, <2>2 DEF Clean, SeenIsLeft
  <2> HIDE DEF B
  <2> QED
    BY <2>1, <2>3, CacheSights DEF ReadOK, B
<1>4. CASE P.eState \in {"WRITER_CACHEMOD", "WRITER_DBMOD"}
  <2>1. ModOK(P, db, B, txns)
    BY <1>2, <1>4 DEF ConnOK
  <2>2. /\ P.txn = txns /\ txns \in Nat \ {0} /\ SizeIs(B, P.origSize)
        /\ P.size \in Pages /\ P.origSize <= P.size
    BY <2>1 DEF ModOK
  <2>3. CASE P.job = "rollback"
    <3>1. SeesOwn(P, db, B)
      BY <2>1, <2>3 DEF ModOK
    <3> HIDE DEF B, P
    <3> QED
      BY <2>2, <3>1, OwnSights DEF B, P
  <2>4. CASE P.job # "rollback"
    <3>1. LogMore(P, J, db, B, txns) /\ LogOK(P, Journal(c))
      BY <1>1, <1>2, <1>4, <2>4 DEF ConnOK, Logging
    <3>2. LogsOld(P, J, B) /\ Untouched(P, J, db, B) /\ PagesOK(P, db, txns)
      BY <3>1 DEF LogMore
    <3>3. P.hdr \in Nat /\ P.off \in Nat /\ P.hdr <= P.off
      BY <3>1, PagerAssumption DEF LogOK
    <3>4. \A q \in Pages : db[q].now \in db[q].disk
      BY <1>2 DEF SeenIsLeft
    <3> HIDE DEF B, P, J
    <3> QED
      BY <2>2, <3>2, <3>3, <3>4, LogSights DEF B, P
  <2> QED
    BY <2>3, <2>4
<1>5. CASE P.eState = "WRITER_FINISHED"
  <2>1. FinishedOK(P, db, B, Now(db), txns, Settled) /\ P.at \in {"finalize", "zeroed"}
    BY <1>1, <1>2, <1>5 DEF ConnOK, Fits
  <2>2. CASE P.at = "finalize"
    <3>1. /\ SeesOwn(P, db, B) /\ SizeIs(B, P.origSize) /\ P.origSize <= P.size
          /\ P.size \in Pages /\ P.txn \in Nat \ {0}
      BY <2>1, <2>2 DEF FinishedOK, SizeIs
    <3> HIDE DEF B, P
    <3> QED
      BY <3>1, OwnSights DEF B, P
  <2>3. CASE P.at = "zeroed"
    <3>1. B = Now(db) /\ SizeIs(Now(db), P.size) /\ CacheOf(P, Now(db)) /\ Clean(db, Now(db))
      BY <2>1, <2>3 DEF FinishedOK
    <3>2. SizeIs(B, P.size) /\ CacheOf(P, B) /\ Clean(db, B)
      BY <3>1
    <3>3. \A q \in Pages : db[q].now = B[q]
      BY <1>2, <3>2 DEF Clean, SeenIsLeft
    <3> HIDE DEF B, P
    <3> QED
      BY <3>2, <3>3, CacheSights DEF B, P
  <2> QED
    BY <2>1, <2>2, <2>3
<1> QED
  BY <1>1, <1>3, <1>4, <1>5 DEF Fits, Reads

(* Whoever reads sees the image of the recovered database, but for what it *)
(* has written itself.                                                     *)
LEMMA SnapshotIsImage ==
    ASSUME PagerInv, RecInv, NEW c \in Conns
    PROVE  Snapshot(c, Image) = IF Reads(c) THEN Image ELSE Nothing
<1>1. CASE ~Reads(c)
  BY <1>1 DEF Reads, Snapshot
<1>2. CASE Reads(c)
  <2> DEFINE B == Image
             P == pager[c]
  <2>1. B = [p \in Pages |-> B[p]]
    BY DEF RecInv, FilesRecover, IsImage
  <2>2. \A p \in Pages : Sights(P, db, B, p)
    BY <1>2, ReaderSights
  <2>3. \A p \in Pages : Sees(c, p) = Seen(P, db, p)
    BY DEF Sees, Seen
  <2> HIDE DEF B
  <2>4. ASSUME NEW p \in Pages
        PROVE  (IF p > P.size THEN Nothing
                ELSE IF P.txn # 0 /\ By(Sees(c, p)) = P.txn THEN B[p]
                ELSE Sees(c, p)) = B[p]
    BY <2>2, <2>3 DEF Sights
  <2>5. Snapshot(c, B) = [p \in Pages |-> IF p > P.size THEN Nothing
                ELSE IF P.txn # 0 /\ By(Sees(c, p)) = P.txn THEN B[p]
                ELSE Sees(c, p)]
    BY <1>2 DEF Snapshot, Reads
  <2> QED
    BY <1>2, <2>1, <2>4, <2>5 DEF B
<1> QED
  BY <1>1, <1>2

(* The snapshots of AtomicStore, by who reads.                             *)
Snapshots == LET image == Image IN [c \in Conns |-> Snapshot(c, image)]
Readers == {c \in Conns : Reads(c)}
ReadersSeeImage == Snapshots = [c \in Conns |-> IF c \in Readers THEN Image ELSE Nothing]
SnapshotsKnown == PagerInv /\ RecInv => ReadersSeeImage

LEMMA SnapshotsAre == SnapshotsKnown /\ SnapshotsKnown'
<1>1. PagerInv /\ RecInv => ReadersSeeImage
  <2> SUFFICES ASSUME PagerInv, RecInv PROVE ReadersSeeImage
    OBVIOUS
  <2>1. \A c \in Conns : Snapshot(c, Image) = IF c \in Readers THEN Image ELSE Nothing
    BY SnapshotIsImage DEF Readers
  <2>2. Snapshots = [c \in Conns |-> Snapshot(c, Image)]
    BY DEF Snapshots
  <2> HIDE DEF Image, Snapshot
  <2> QED
    BY <2>1, <2>2 DEF ReadersSeeImage
<1>2. SnapshotsKnown
  BY <1>1 DEF SnapshotsKnown
<1> QED
  BY <1>2, PTL

(* The steps of AtomicStore, by what becomes of the image, of what is at   *)
(* risk and of the readers.                                                *)
LEMMA StepSettles ==
    ASSUME ReadersSeeImage, ReadersSeeImage', Image' = Image, Image' \in Risk', Risk' \subseteq Risk,
           Readers' = Readers
    PROVE  AS!Next
<1>1. Snapshots' = Snapshots
  BY DEF ReadersSeeImage
<1> QED
  BY <1>1 DEF AS!Next, AS!Settle, Snapshots

LEMMA StepBegins ==
    ASSUME ReadersSeeImage, ReadersSeeImage', Image' = Image, Risk' = Risk,
           NEW c \in Conns, c \notin Readers, Readers' = Readers \cup {c}
    PROVE  AS!Next
<1>1. Snapshots[c] = Nothing /\ Snapshots' = [Snapshots EXCEPT ![c] = Image]
  BY DEF ReadersSeeImage
<1> QED
  BY <1>1 DEF AS!Next, AS!Begin, Snapshots

LEMMA StepEnds ==
    ASSUME ReadersSeeImage, ReadersSeeImage', Image' = Image, Risk' = Risk,
           NEW c \in Conns, c \in Readers, Readers' = Readers \ {c}
    PROVE  [AS!Next]_(AS!vars)
<1>1. Snapshots[c] = Image /\ Snapshots' = [Snapshots EXCEPT ![c] = Nothing]
  BY DEF ReadersSeeImage
<1>2. CASE Image # Nothing
  BY <1>1, <1>2 DEF AS!Next, AS!End, Snapshots
<1>3. CASE Image = Nothing
  <2>1. Snapshots' = Snapshots
    BY <1>1, <1>3 DEF ReadersSeeImage
  <2> QED
    BY <2>1 DEF AS!vars, Snapshots
<1> QED
  BY <1>2, <1>3

AllImages == [Pages -> PageValues \cup {Nothing}]

LEMMA StepCommits ==
    ASSUME ReadersSeeImage, ReadersSeeImage', Image' \in AllImages,
           Risk' = {Image'} \/ Risk' = {Image, Image'},
           NEW c \in Conns, Readers = {c}, Readers' \subseteq {c}
    PROVE  AS!Next
<1>1. Snapshots[c] = Image /\ \A o \in Conns \ {c} : Snapshots[o] = Nothing
  BY DEF ReadersSeeImage
<1>2. \/ Snapshots' = [Snapshots EXCEPT ![c] = Image']
      \/ Snapshots' = [Snapshots EXCEPT ![c] = Nothing]
  BY DEF ReadersSeeImage
<1> QED
  BY <1>1, <1>2 DEF AS!Next, AS!Commit, Snapshots, AllImages

LEMMA StepLoses ==
    ASSUME ReadersSeeImage', Image' \in Risk, Risk' = {Image'}, Readers' = {}
    PROVE  AS!Next
<1>1. Snapshots' = [c \in Conns |-> Nothing]
  BY DEF ReadersSeeImage
<1> QED
  BY <1>1 DEF AS!Next, AS!PowerLoss, Snapshots

(* Who reads after a step of connection c.                                 *)
LEMMA ReadersMove ==
    ASSUME PagerInv, NEW c \in Conns, pager' = [pager EXCEPT ![c] = pager'[c]]
    PROVE  Readers' = IF pager'[c].eState \in {"OPEN", "ERROR"} THEN Readers \ {c}
                      ELSE Readers \cup {c}
<1>1. pager = [o \in Conns |-> pager[o]]
  BY DEF PagerInv
<1>2. \A o \in Conns \ {c} : pager'[o] = pager[o]
  BY <1>1
<1> QED
  BY <1>2 DEF Readers, Reads

LEMMA ReturnReads ==
    ASSUME PagerInv, NEW c \in Conns, NEW R, PagerOK(R), NEW Q,
           Q = IF R.job = "hot" THEN [Ended(R) EXCEPT !.eState = "OPEN", !.at = "validate"]
               ELSE Ended(R),
           pager' = [pager EXCEPT ![c] = Q]
    PROVE  /\ pager' = [pager EXCEPT ![c] = pager'[c]]
           /\ pager'[c].eState = IF R.job = "hot" THEN "OPEN" ELSE "READER"
<1> DEFINE E == Ended(R)
<1>1. PagerOK(E) /\ E.eState = "READER"
  BY EndedIsReader
<1>2. Q = IF R.job = "hot" THEN [E EXCEPT !.eState = "OPEN", !.at = "validate"] ELSE E
  OBVIOUS
<1> HIDE DEF E
<1>3. Q.eState = IF R.job = "hot" THEN "OPEN" ELSE "READER"
  BY <1>1, <1>2 DEF PagerOK, IsPager, Fields
<1>4. pager'[c] = Q /\ pager' = [pager EXCEPT ![c] = pager'[c]]
  <2>1. \A new : pager' = [pager EXCEPT ![c] = new] =>
                   pager'[c] = new /\ pager' = [pager EXCEPT ![c] = pager'[c]]
    BY SetIs
  <2> QED
    BY <2>1, Zenon
<1> QED
  BY <1>3, <1>4

(* The steps at which nobody begins to read, and nobody ends.              *)
LEMMA ReadersStay ==
    ASSUME PagerInv, NEW c \in Conns,
           \/ Share(c) \/ LookForJournal(c) \/ CheckReservedLock(c) \/ PeekAtJournal(c)
           \/ LockForRollback(c) \/ GiveUpRollback(c) \/ OpenHotJournal(c)
           \/ Begin(c) \/ EndUnwritten(c) \/ BeginCommit(c)
           \/ \E p \in Pages : ReadPage(c, p) \/ Write(c, p) \/ Spill(c, p)
           \/ ExclusiveLock(c) \/ SyncRecords(c) \/ SyncHeader(c) \/ WriteOut(c)
           \/ SpillOut(c) \/ SyncDatabase(c) \/ FinalizeJournal(c) \/ SyncZeroedHeader(c)
           \/ RollbackCache(c) \/ RollbackDatabase(c) \/ PlayRecord(c)
    PROVE  Readers' = Readers
<1> DEFINE P == pager[c]
<1>1. PagerOK(P) /\ Fits(P, held[c], c \in reserved)
  BY DEF PagerInv, Good
<1>2. ASSUME Same(c) PROVE Readers' = Readers
  BY <1>2, ReadersMove DEF Same, Readers, Reads
<1>3. ASSUME pager' = [pager EXCEPT ![c] = pager'[c]], P.eState \notin {"OPEN", "ERROR"},
             pager'[c].eState \notin {"OPEN", "ERROR"}
      PROVE  Readers' = Readers
  BY <1>3, ReadersMove DEF Readers, Reads
<1>4. ASSUME pager' = [pager EXCEPT ![c] = pager'[c]], P.eState = "OPEN", pager'[c].eState = "OPEN"
      PROVE  Readers' = Readers
  BY <1>4, ReadersMove DEF Readers, Reads
<1>5. CASE \/ Share(c) \/ LookForJournal(c) \/ CheckReservedLock(c) \/ PeekAtJournal(c)
           \/ LockForRollback(c) \/ ExclusiveLock(c) \/ SyncRecords(c)
           \/ WriteOut(c) \/ SpillOut(c) \/ RollbackCache(c) \/ RollbackDatabase(c)
           \/ PlayRecord(c) \/ \E p \in Pages : ReadPage(c, p) \/ Spill(c, p)
  BY <1>2, <1>5, SameSteps
<1>6. CASE GiveUpRollback(c)
  <2> DEFINE Q == Closed(P)
  <2>1. P.eState = "OPEN" /\ pager' = [pager EXCEPT ![c] = Q]
    BY <1>1, <1>6 DEF GiveUpRollback, At, Fits, Set
  <2>2. Q.eState = "OPEN"
    BY <1>1, ClosedIsOpen
  <2> HIDE DEF Q
  <2> QED
    BY <1>4, <2>1, <2>2, SetIs
<1>7. CASE OpenHotJournal(c)
  BY <1>1, <1>4, <1>7, OpenHotSets DEF OpenHotJournal, At, Fits
<1>8. CASE Begin(c) \/ SyncHeader(c)
  <2>1. P.eState \notin {"OPEN", "ERROR"}
    BY <1>1, <1>8 DEF Begin, SyncHeader, At, Fits
  <2>2. Moves(c, {"WRITER_LOCKED"}) \/ Moves(c, {"WRITER_DBMOD"})
    BY <1>8, StateSteps
  <2> QED
    BY <1>3, <2>1, <2>2 DEF Moves
<1>9. CASE SyncDatabase(c)
  <2>1. Moves(c, IF P.job = "commit" THEN {"WRITER_FINISHED"} ELSE {P.eState})
    BY <1>9, StateSteps
  <2>2. P.job = "commit" => P.eState \notin {"OPEN", "ERROR"}
    BY <1>1 DEF Fits
  <2>3. Same(c) \/ (P.eState \notin {"OPEN", "ERROR"} /\ pager'[c].eState = "WRITER_FINISHED")
    BY <2>1, <2>2 DEF Moves, Same
  <2>4. pager' = [pager EXCEPT ![c] = pager'[c]]
    BY <2>1 DEF Moves
  <2> QED
    BY <1>2, <1>3, <2>3, <2>4
<1>10. CASE BeginCommit(c) \/ \E p \in Pages : Write(c, p)
  <2>1. P.eState \in {"WRITER_LOCKED", "WRITER_CACHEMOD", "WRITER_DBMOD"}
    BY <1>10 DEF BeginCommit, Write, Writing
  <2>2. \E p, value, job, at : PutPage(c, p, value, job, at)
    BY <1>10 DEF BeginCommit, Write
  <2>3. /\ pager' = [pager EXCEPT ![c] = pager'[c]]
        /\ pager'[c].eState = IF P.eState = "WRITER_LOCKED" THEN "WRITER_CACHEMOD" ELSE P.eState
    BY <2>2, PutPageSets
  <2> QED
    BY <1>3, <2>1, <2>3
<1>11. CASE EndUnwritten(c)
  <2>1. P.job # "hot" /\ P.eState = "WRITER_LOCKED" /\ pager' = [pager EXCEPT ![c] = Ended(P)]
    BY <1>1, <1>11 DEF EndUnwritten, Set, Fits
  <2>2. /\ pager' = [pager EXCEPT ![c] = pager'[c]]
        /\ pager'[c].eState = IF P.job = "hot" THEN "OPEN" ELSE "READER"
    BY <1>1, <2>1, ReturnReads
  <2> QED
    BY <1>3, <2>1, <2>2
<1>12. ASSUME P.at \in {"finalize", "zeroed"}
       PROVE  P.job # "hot" => P.eState \notin {"OPEN", "ERROR"}
  BY <1>1, <1>12 DEF Fits
<1>13. P.job = "hot" => P.eState = "OPEN"
  BY <1>1 DEF Fits
<1>14. CASE SyncZeroedHeader(c)
  <2> DEFINE R == [P EXCEPT !.dirSync = FALSE]
  <2>1. pager' = [pager EXCEPT ![c] =
            IF R.job = "hot" THEN [Ended(R) EXCEPT !.eState = "OPEN", !.at = "validate"]
            ELSE Ended(R)]
    BY <1>14 DEF SyncZeroedHeader, Set
  <2>2. PagerOK(R) /\ R.job = P.job
    BY <1>1 DEF PagerOK, IsPager, Fields
  <2> HIDE DEF R
  <2>3. /\ pager' = [pager EXCEPT ![c] = pager'[c]]
        /\ pager'[c].eState = IF P.job = "hot" THEN "OPEN" ELSE "READER"
    <3>1. /\ pager' = [pager EXCEPT ![c] = pager'[c]]
          /\ pager'[c].eState = IF R.job = "hot" THEN "OPEN" ELSE "READER"
      <4> HIDE DEF P
      <4> QED
        BY <2>1, <2>2, ReturnReads
    <3> QED
      BY <2>2, <3>1
  <2>4. P.at = "zeroed"
    BY <1>14 DEF SyncZeroedHeader, At
  <2> QED
    BY <1>3, <1>4, <1>12, <1>13, <2>3, <2>4
<1>15. CASE FinalizeJournal(c)
  <2>1. P.at = "finalize" /\ (Return(c) \/ Goto(c, "zeroed"))
    BY <1>15 DEF FinalizeJournal, At
  <2>2. CASE Return(c)
    <3>1. pager' = [pager EXCEPT ![c] =
            IF P.job = "hot" THEN [Ended(P) EXCEPT !.eState = "OPEN", !.at = "validate"]
            ELSE Ended(P)]
      BY <2>2 DEF Return, Set
    <3>2. /\ pager' = [pager EXCEPT ![c] = pager'[c]]
          /\ pager'[c].eState = IF P.job = "hot" THEN "OPEN" ELSE "READER"
      BY <1>1, <3>1, ReturnReads
    <3> QED
      BY <1>3, <1>4, <1>12, <1>13, <2>1, <3>2
  <2>3. CASE Goto(c, "zeroed")
    <3> DEFINE Q == [P EXCEPT !.at = "zeroed"]
    <3>1. pager' = [pager EXCEPT ![c] = Q]
      BY <2>3, GotoSets
    <3>2. Q.mode = P.mode /\ Q.jfd = P.jfd /\ Q.eState = P.eState
      BY <1>1 DEF PagerOK, IsPager, Fields
    <3> HIDE DEF Q
    <3>3. Same(c)
      BY <3>1, <3>2, SetIs DEF Same
    <3> QED
      BY <1>2, <3>3
  <2> QED
    BY <2>1, <2>2, <2>3
<1> QED
  BY <1>5, <1>6, <1>7, <1>8, <1>9, <1>10, <1>11, <1>14, <1>15

LEMMA OneReader ==
    ASSUME FLP!LocksInv, PagerInv, NEW c \in Conns, held[c] = EXCLUSIVE_LOCK
    PROVE  Readers \subseteq {c}
<1>1. \A o \in Conns \ {c} : held[o] = NO_LOCK
  BY DEF FLP!LocksInv, FLP!ExclusiveMeansAlone, FLP!EXCLUSIVE_LOCK, FLP!NO_LOCK
<1>2. \A o \in Conns : Reads(o) => held[o] # NO_LOCK
  BY DEF PagerInv, Good, Fits, IsWriter, Reads
<1> QED
  BY <1>1, <1>2 DEF Readers

(* What is at risk depends on what may be left of the journals.            *)
RiskKeeps == Risk = Recoveries(Outcomes(db), UNION {MayBe(f) : f \in dir.disk})

LEMMA RiskComes == RiskKeeps /\ RiskKeeps'
<1>1. RiskKeeps
  BY DEF RiskKeeps, Risk, MayBe
<1> QED
  BY <1>1, PTL

LEMMA SameRisk ==
    ASSUME UNCHANGED <<db, dir>>, \A f \in dir.disk : MayBe(f)' = MayBe(f)
    PROVE  Risk' = Risk
<1>1. {MayBe(f) : f \in dir.disk}' = {MayBe(f) : f \in dir.disk}
  OBVIOUS
<1> QED
  BY <1>1, RiskComes DEF RiskKeeps

LEMMA QuietRisk ==
    ASSUME UNCHANGED disk
    PROVE  Risk' = Risk
  BY SameRisk DEF disk, MayBe

(* A connection that was about to sync a zeroed header is gone: there was  *)
(* no header before, or there is none now.                                 *)
LEMMA ZeroedRisk ==
    ASSUME FLP!LocksInv, PagerInv, LinkInv, RecInv, NEW c \in Conns, pager[c].at = "zeroed",
           NoHeader(Found), jrnl' = [jrnl EXCEPT ![pager[c].jfd] = Fsync(@)], UNCHANGED <<db, dir>>
    PROVE  Risk' = Risk
<1>1. pager[c].jfd # Nothing
  BY ZeroedEndsWell
<1>2. Found = jrnl[pager[c].jfd]
  BY <1>1, PlayerFinds DEF Journal
<1>3. /\ IsFile(Found) /\ Found[1].now \in Found[1].disk
      /\ jrnl = [id \in Journals |-> jrnl[id]] /\ 1 \in 1 .. JournalLen
      /\ dir.disk \subseteq Journals \cup {Nothing}
  BY FoundIsFile, PagerAssumption DEF FilesOK
<1>4. \A e \in Fsync(Found)[1].disk : ~IsHeader(e)
  BY <1>3 DEF Fsync, IsFile, Synced, NoHeader
<1>5. ASSUME NEW f \in dir.disk PROVE MayBe(f)' = MayBe(f)
  <2>1. CASE f = pager[c].jfd
    <3>1. MayBe(f) = {Now(Blank)}
      BY <1>2, <2>1 DEF MayBe, NoHeader
    <3>2. MayBe(f)' = {Now(Blank)}
      <4>1. f \in Journals
        BY <1>1, <1>3, <2>1
      <4>2. jrnl'[f] = Fsync(Found)
        BY <1>2, <1>3, <2>1, <4>1
      <4> QED
        BY <1>4, <4>2 DEF MayBe
    <3> QED
      BY <3>1, <3>2
  <2>2. CASE f # pager[c].jfd
    <3>1. f = Nothing \/ jrnl'[f] = jrnl[f]
      BY <1>3, <2>2
    <3> QED
      BY <3>1 DEF MayBe
  <2> QED
    BY <2>1, <2>2
<1> QED
  BY <1>5, SameRisk

TxnsFit == txns \in 0 .. MaxTxns

(* An image has pages of the transactions that there have been.            *)
ImagesFit == PagerInv /\ RecInv /\ TxnsFit => Image \in AllImages

LEMMA ImagesAre == ImagesFit /\ ImagesFit'
<1>1. PagerInv /\ RecInv /\ TxnsFit => Image \in AllImages
  <2> SUFFICES ASSUME RecInv, TxnsFit PROVE Image \in AllImages
    OBVIOUS
  <2> DEFINE B == Image
  <2>1. IsImage(B, txns)
    BY DEF RecInv, FilesRecover
  <2> HIDE DEF B
  <2>2. ASSUME NEW p \in Pages PROVE B[p] \in PageValues \cup {Nothing}
    <3>1. CASE B[p] # Nothing
      <4>1. PICK t, n \in 0 .. txns : B[p] = Page(t, n)
        BY <2>1, <3>1 DEF IsImage, IsPage
      <4>2. t \in 0 .. MaxTxns /\ n \in 0 .. MaxTxns
        BY PagerAssumption DEF TxnsFit
      <4> QED
        BY <4>1, <4>2 DEF PageValues
    <3> QED
      BY <3>1
  <2>3. B = [p \in Pages |-> B[p]]
    BY <2>1 DEF IsImage
  <2> QED
    BY <2>2, <2>3 DEF AllImages, B
<1>2. ImagesFit
  BY <1>1 DEF ImagesFit
<1> QED
  BY <1>2, PTL

LEMMA TxnsAreBounded == Spec => []TxnsFit
<1>1. Init => TxnsFit
  BY PagerAssumption DEF Init, TxnsFit
<1>2. TxnsFit /\ [Next]_vars => TxnsFit'
  <2> SUFFICES ASSUME TxnsFit, [Next]_vars PROVE TxnsFit'
    OBVIOUS
  <2>1. ASSUME NEW c \in Conns, Begin(c) PROVE TxnsFit'
    BY <2>1, PagerAssumption DEF Begin, TxnsFit
  <2>2. ASSUME NEW c \in Conns, ~Begin(c), Ordinary(c) \/ FinalizeJournal(c) PROVE txns' = txns
    <3>1. CASE \/ Share(c) \/ LookForJournal(c) \/ CheckReservedLock(c) \/ PeekAtJournal(c)
               \/ LockForRollback(c) \/ GiveUpRollback(c) \/ OpenHotJournal(c) \/ Validate(c)
               \/ Unlock(c) \/ EndUnwritten(c) \/ BeginCommit(c)
      BY <3>1 DEF Share, LookForJournal, CheckReservedLock, PeekAtJournal, LockForRollback,
         GiveUpRollback, OpenHotJournal, Validate, Unlock, EndUnwritten, BeginCommit
    <3>2. CASE \/ \E p \in Pages : ReadPage(c, p) \/ Write(c, p) \/ Spill(c, p)
               \/ ExclusiveLock(c) \/ SyncRecords(c) \/ SyncHeader(c) \/ WriteOut(c)
      BY <3>2 DEF ReadPage, Write, Spill, ExclusiveLock, SyncRecords, SyncHeader, WriteOut
    <3>3. CASE \/ SpillOut(c) \/ SyncDatabase(c) \/ SyncZeroedHeader(c) \/ FinalizeJournal(c)
               \/ RollbackCache(c) \/ RollbackDatabase(c) \/ PlayRecord(c)
               \/ Fail(c) \/ Crash(c)
      BY <3>3 DEF SpillOut, SyncDatabase, SyncZeroedHeader, FinalizeJournal, RollbackCache,
         RollbackDatabase, PlayRecord, Fail, Crash
    <3> QED
      BY <2>2, <3>1, <3>2, <3>3, Zenon DEF Ordinary
  <2>3. CASE PowerLoss \/ UNCHANGED vars
    BY <2>3 DEF PowerLoss, vars, TxnsFit
  <2> QED
    BY <2>1, <2>2, <2>3, NextIs DEF TxnsFit
<1> QED
  BY <1>1, <1>2, PTL DEF Spec

(* What a step has before it and after.                                    *)
Around ==
    /\ FLP!LocksInv /\ PagerInv /\ LinkInv /\ RecInv /\ TxnsFit
    /\ PagerInv' /\ RecInv' /\ TxnsFit'

LEMMA AroundHas ==
    ASSUME Around
    PROVE  ReadersSeeImage /\ ReadersSeeImage' /\ Image' \in AllImages /\ Image' \in Risk'
  BY SnapshotsAre, ImagesAre, RiskOf
     DEF Around, SnapshotsKnown, ImagesFit, AlwaysAtRisk, PagerInv, RecInv

(* A connection goes, with all that it was about to do.                    *)
LEMMA StepLeaves ==
    ASSUME Around, Keeps, NEW c \in Conns, Readers' = Readers \ {c},
           Risk' = Risk \/ (Readers \subseteq {c} /\ Risk' = {Image'})
    PROVE  [AS!Next]_(AS!vars)
<1>1. Image' = Image /\ Risk' \subseteq Risk
  BY DEF Keeps
<1>2. CASE c \notin Readers
  <2>1. Readers' = Readers
    BY <1>2
  <2> QED
    BY <1>1, <2>1, AroundHas, StepSettles
<1>3. CASE c \in Readers /\ Risk' = Risk
  BY <1>1, <1>3, AroundHas, StepEnds
<1>4. CASE c \in Readers /\ Readers \subseteq {c} /\ Risk' = {Image'}
  <2>1. Readers = {c} /\ Readers' \subseteq {c}
    BY <1>4
  <2> QED
    BY <1>4, <2>1, AroundHas, StepCommits
<1> QED
  BY <1>2, <1>3, <1>4

(* Nothing but the image is at risk once nobody is about to finish a commit *)
(* and the directory entry is on the disk.                                 *)
LEMMA OnlyImageLeft ==
    ASSUME Around, NEW c \in Conns, Owner(c), Settled, UNCHANGED dir,
           pager' = [pager EXCEPT ![c] = pager'[c]], pager'[c].at # "zeroed"
    PROVE  Risk' = {Image'}
<1>1. FilesOK' /\ FilesRecover' /\ Settled'
  BY DEF Around, PagerInv, RecInv, Settled
<1>2. ASSUME NEW o \in Conns PROVE pager'[o].at # "zeroed"
  <2>1. o # c => ~Owner(o)
    BY OneOwner DEF Around
  <2>2. o # c => pager'[o] = pager[o] /\ pager[o].at # "zeroed"
    BY <2>1, FinalizerOwns DEF Around, PagerInv
  <2> QED
    BY <2>2
<1>3. ~Committed'
  BY <1>2 DEF Committed
<1> QED
  BY <1>1, <1>3, RiskOf DEF OnlyAtRisk

LEMMA GoneRisk ==
    ASSUME Around, NEW c \in Conns, Owner(c), jrnl' = WrittenBack(c), UNCHANGED dir,
           pager' = [pager EXCEPT ![c] = pager'[c]], pager'[c].at # "zeroed",
           db' = db \/ (Settled /\ held[c] = EXCLUSIVE_LOCK)
    PROVE  Risk' = Risk \/ (Readers \subseteq {c} /\ Risk' = {Image'})
<1>1. CASE Settled /\ held[c] = EXCLUSIVE_LOCK
  BY <1>1, OnlyImageLeft, OneReader DEF Around
<1>2. CASE UNCHANGED disk
  BY <1>2, QuietRisk
<1>3. CASE db' = db /\ pager[c].at = "zeroed" /\ jrnl' # jrnl
  <2>1. jrnl' = [jrnl EXCEPT ![pager[c].jfd] = Fsync(@)]
    BY <1>3 DEF WrittenBack
  <2>2. CASE NoHeader(Found)
    BY <1>3, <2>1, <2>2, ZeroedRisk DEF Around
  <2>3. CASE ~NoHeader(Found)
    <3>1. Settled
      BY <2>3 DEF Around, RecInv, FilesRecover
    <3>2. held[c] = EXCLUSIVE_LOCK
      BY <2>3 DEF Around, RecInv, Recovers, KnowsJournal, Owner
    <3> QED
      BY <1>1, <3>1, <3>2
  <2> QED
    BY <2>2, <2>3
<1> QED
  BY <1>1, <1>2, <1>3 DEF WrittenBack, At, disk

LEMMA UnlockEnds ==
    ASSUME Around, Keeps, NEW c \in Conns, Unlock(c)
    PROVE  [AS!Next]_(AS!vars)
<1> DEFINE Q == Closed(pager[c])
<1>1. pager' = [pager EXCEPT ![c] = Q] /\ UNCHANGED disk
  BY DEF Unlock, Set
<1>2. Q.eState = "OPEN"
  BY ClosedIsOpen DEF Around, PagerInv, Good
<1> HIDE DEF Q
<1>3. Readers' = Readers \ {c}
  <2>1. pager'[c] = Q /\ PagerInv
    BY <1>1, SetIs DEF Around
  <2>2. pager' = [pager EXCEPT ![c] = pager'[c]]
    BY <1>1, <2>1
  <2> QED
    BY <1>2, <2>1, <2>2, ReadersMove
<1> QED
  BY <1>1, <1>3, QuietRisk, StepLeaves

LEMMA ValidateBegins ==
    ASSUME Around, Keeps, NEW c \in Conns, Validate(c)
    PROVE  AS!Next
<1>1. Moves(c, {"READER"}) /\ pager[c].eState = "OPEN"
  BY StateSteps DEF Around, PagerInv, Good, Fits, Validate, At
<1>2. Readers' = Readers \cup {c} /\ c \notin Readers
  BY <1>1, ReadersMove DEF Around, Moves, Readers, Reads
<1>3. Risk' = Risk /\ Image' = Image
  BY QuietRisk DEF Validate, Keeps
<1> QED
  BY <1>2, <1>3, AroundHas, StepBegins

LEMMA CrashEnds ==
    ASSUME Around, Keeps, NEW c \in Conns, Crash(c)
    PROVE  [AS!Next]_(AS!vars)
<1> DEFINE Q == Fresh(pager[c].mode)
<1>1. pager' = [pager EXCEPT ![c] = Q] /\ UNCHANGED <<db, dir>> /\ jrnl' = WrittenBack(c)
  BY DEF Crash, Set
<1>2. Q.eState = "OPEN" /\ Q.at = "idle"
  BY Reopened DEF Around, PagerInv, Good, PagerOK
<1> HIDE DEF Q
<1>3. /\ pager' = [pager EXCEPT ![c] = pager'[c]]
      /\ pager'[c].eState = "OPEN" /\ pager'[c].at = "idle"
  BY <1>1, <1>2, SetIs DEF Around
<1>4. Readers' = Readers \ {c}
  BY <1>3, ReadersMove DEF Around
<1>5. Risk' = Risk \/ (Readers \subseteq {c} /\ Risk' = {Image'})
  <2>1. CASE Owner(c)
    BY <1>1, <1>3, <2>1, GoneRisk
  <2>2. CASE ~Owner(c)
    <3>1. pager[c].at # "zeroed"
      BY <2>2, FinalizerOwns DEF Around
    <3>2. UNCHANGED disk
      BY <1>1, <3>1 DEF WrittenBack, At, disk
    <3> QED
      BY <3>2, QuietRisk
  <2> QED
    BY <2>1, <2>2
<1> QED
  BY <1>4, <1>5, StepLeaves

LEMMA FailEnds ==
    ASSUME Around, Keeps, NEW c \in Conns, Fail(c)
    PROVE  [AS!Next]_(AS!vars)
<1> DEFINE P == pager[c]
<1>1. /\ P.at \in {"records", "header", "write", "play", "finalize", "zeroed"}
      /\ jrnl' = WrittenBack(c) /\ UNCHANGED dir
  BY DEF Fail
<1>2. PagerOK(P) /\ Fits(P, held[c], c \in reserved)
  BY DEF Around, PagerInv, Good
<1>3. CASE \E Q \in {Closed(Emptied(P)), Broken(P)} : pager' = [pager EXCEPT ![c] = Q]
  <2>1. PICK Q \in {Closed(Emptied(P)), Broken(P)} : pager' = [pager EXCEPT ![c] = Q]
    BY <1>3
  <2>2. Q.eState \in {"OPEN", "ERROR"} /\ Q.at = "idle"
    BY <1>2, <2>1, ClosedIsOpen, BrokenIsError
  <2>3. /\ pager' = [pager EXCEPT ![c] = pager'[c]]
        /\ pager'[c].eState \in {"OPEN", "ERROR"} /\ pager'[c].at = "idle"
    BY <2>1, <2>2, SetIs DEF Around
  <2>4. Readers' = Readers \ {c}
    BY <2>3, ReadersMove DEF Around
  <2>5. PICK torn \in SUBSET Target(c) : Torn(torn)
    BY DEF Fail, Torn
  <2>6. Owner(c) /\ (db' = db \/ (Settled /\ held[c] = EXCLUSIVE_LOCK))
    <3>1. CASE P.at \in {"finalize", "zeroed"}
      <4>1. Target(c) = {}
        BY <3>1 DEF Target, At
      <4>2. db' = db
        BY <2>5, <4>1, TornIs DEF Around, PagerInv, RecInv, FilesRecover
      <4> QED
        BY <3>1, <4>2, FinalizerOwns DEF Around
    <3>2. CASE P.at \notin {"finalize", "zeroed"}
      BY <1>1, <2>5, <3>2, FailTears DEF Around
    <3> QED
      BY <3>1, <3>2
  <2>7. Risk' = Risk \/ (Readers \subseteq {c} /\ Risk' = {Image'})
    BY <1>1, <2>3, <2>6, GoneRisk
  <2> QED
    BY <2>4, <2>7, StepLeaves
<1>4. CASE pager' = [pager EXCEPT ![c] = [P EXCEPT !.at = "failed", !.job = "none"]]
  <2> DEFINE Q == [P EXCEPT !.at = "failed", !.job = "none"]
  <2>1. Q.eState = P.eState
    BY <1>2 DEF PagerOK, IsPager, Fields
  <2>2. pager' = [pager EXCEPT ![c] = Q]
    BY <1>4
  <2> HIDE DEF Q
  <2>3. Readers' = IF P.eState \in {"OPEN", "ERROR"} THEN Readers \ {c} ELSE Readers \cup {c}
    BY <2>1, <2>2, SetIs, ReadersMove DEF Around
  <2>4. Readers' = Readers
    BY <2>3 DEF Readers, Reads
  <2> QED
    BY <2>4, AroundHas, StepSettles DEF Keeps
<1> QED
  BY <1>3, <1>4 DEF Fail, Set

(* The header of its journal is gone: the transaction is committed.        *)
LEMMA FinalizeCommits ==
    ASSUME Around, NEW c \in Conns, FinalizeJournal(c), pager[c].job = "commit", Commits
    PROVE  AS!Next
<1>1. pager[c].eState = "WRITER_FINISHED" /\ held[c] = EXCLUSIVE_LOCK
  BY DEF Around, PagerInv, Good, Fits, FinalizeJournal, At
<1>2. Readers = {c}
  BY <1>1, OneReader DEF Around, Readers, Reads
<1>3. Readers' \subseteq {c}
  BY <1>2, ReadersStay DEF Around
<1>4. Image' \in Risk' /\ Risk' \subseteq {Image, Image'}
  BY AroundHas DEF Commits
<1>5. Risk' = {Image'} \/ Risk' = {Image, Image'}
  BY <1>4
<1> QED
  BY <1>2, <1>3, <1>5, AroundHas, StepCommits

LEMMA PowerLossLoses ==
    ASSUME Around, PowerLoss, Loses
    PROVE  AS!Next
<1>1. \A c \in Conns : pager'[c] = Fresh(pager[c].mode)
  BY DEF PowerLoss
<1>2. \A c \in Conns : pager'[c].eState = "OPEN"
  BY <1>1, Reopened DEF Around, PagerInv, Good, PagerOK
<1>3. Readers' = {}
  BY <1>2 DEF Readers, Reads
<1> QED
  BY <1>3, AroundHas, StepLoses DEF Loses

LEMMA OrdinarySteps ==
    ASSUME Around, Keeps, NEW c \in Conns, Ordinary(c)
    PROVE  [AS!Next]_(AS!vars)
<1>1. CASE Unlock(c) \/ Validate(c) \/ Fail(c) \/ Crash(c)
  BY <1>1, UnlockEnds, ValidateBegins, FailEnds, CrashEnds
<1>2. CASE ~(Unlock(c) \/ Validate(c) \/ Fail(c) \/ Crash(c))
  <2>1. Readers' = Readers
    <3>1. \/ Share(c) \/ LookForJournal(c) \/ CheckReservedLock(c) \/ PeekAtJournal(c)
          \/ LockForRollback(c) \/ GiveUpRollback(c) \/ OpenHotJournal(c)
          \/ Begin(c) \/ EndUnwritten(c) \/ BeginCommit(c)
          \/ \E p \in Pages : ReadPage(c, p) \/ Write(c, p) \/ Spill(c, p)
          \/ ExclusiveLock(c) \/ SyncRecords(c) \/ SyncHeader(c) \/ WriteOut(c)
          \/ SpillOut(c) \/ SyncDatabase(c) \/ FinalizeJournal(c) \/ SyncZeroedHeader(c)
          \/ RollbackCache(c) \/ RollbackDatabase(c) \/ PlayRecord(c)
      BY <1>2, Zenon DEF Ordinary
    <3> QED
      BY <3>1, ReadersStay DEF Around
  <2> QED
    BY <2>1, AroundHas, StepSettles DEF Keeps
<1> QED
  BY <1>1, <1>2

LEMMA StoreStep == ZeroesLast /\ Around /\ [Next]_vars => [AS!Next]_(AS!vars)
<1> SUFFICES ASSUME ZeroesLast, Around, [Next]_vars PROVE [AS!Next]_(AS!vars)
  OBVIOUS
<1>1. ASSUME NEW c \in Conns, Ordinary(c) PROVE [AS!Next]_(AS!vars)
  <2>1. Keeps
    BY <1>1, OrdinaryKeeps DEF Around
  <2> QED
    BY <1>1, <2>1, OrdinarySteps
<1>2. ASSUME NEW c \in Conns, FinalizeJournal(c) PROVE [AS!Next]_(AS!vars)
  <2>1. IF pager[c].job = "commit" THEN Commits ELSE Keeps
    BY <1>2, FinalizeJournalRecovers DEF Around
  <2>2. CASE pager[c].job = "commit"
    BY <1>2, <2>1, <2>2, FinalizeCommits
  <2>3. CASE pager[c].job # "commit"
    <3>1. Readers' = Readers
      BY <1>2, ReadersStay DEF Around
    <3> QED
      BY <2>1, <2>3, <3>1, AroundHas, StepSettles DEF Keeps
  <2> QED
    BY <2>2, <2>3
<1>3. CASE PowerLoss
  BY <1>3, PowerLossRecovers, PowerLossLoses DEF Around
<1>4. CASE UNCHANGED vars
  <2>1. Image' = Image
    BY <1>4 DEF vars, disk, Image, File
  <2>2. Readers' = Readers
    BY <1>4 DEF vars, Readers, Reads
  <2>3. Risk' = Risk
    BY <1>4, QuietRisk DEF vars, disk
  <2> QED
    BY <2>1, <2>2, <2>3, AroundHas, StepSettles
<1> QED
  BY <1>1, <1>2, <1>3, <1>4, NextIs

LEMMA StoreStarts == PagerInv /\ RecInv /\ TxnsFit /\ Init => AS!Init
<1> SUFFICES ASSUME PagerInv, RecInv, TxnsFit, Init PROVE AS!Init
  OBVIOUS
<1>1. Image \in AllImages
  BY ImagesAre DEF ImagesFit
<1>2. \A c \in Conns : pager[c].eState = "OPEN" /\ pager[c].at = "idle"
  <2>1. PICK s \in Starts : pager = [c \in Conns |-> Fresh(s.mode[c])]
    BY DEF Init
  <2> QED
    BY <2>1 DEF Fresh
<1>3. Settled /\ ~Committed
  BY <1>2 DEF Init, Synced, Settled, Committed
<1>4. Risk = {Image}
  BY <1>3, RiskOf DEF OnlyAtRisk, PagerInv, RecInv
<1>5. Snapshots = [c \in Conns |-> Nothing]
  BY <1>2, SnapshotsAre DEF SnapshotsKnown, ReadersSeeImage, Readers, Reads
<1> QED
  BY <1>1, <1>4, <1>5 DEF AS!Init, Snapshots, AllImages

(* Whatever calls fail, whichever processes end and whatever a power loss  *)
(* leaves of the files, the connections read and replace the database as a *)
(* whole: every step of the pagers is one of AtomicStore, or none.         *)
THEOREM PagerIsAtomic == ASSUME Alike, ZeroesLast PROVE Spec => Implements
<1>1. Spec => []FLP!LocksInv
  BY PagersShareLocks
<1>2. Spec => []PagerInv
  BY PagerInvariant
<1>3. Spec => []LinkInv
  BY LinkInvariant
<1>4. Spec => []RecInv
  BY RecInvariant
<1>5. Spec => []TxnsFit
  BY TxnsAreBounded
<1>6. PagerInv /\ RecInv /\ TxnsFit /\ Init => AS!Init
  BY StoreStarts
<1>7. FLP!LocksInv /\ PagerInv /\ LinkInv /\ RecInv /\ TxnsFit
      /\ PagerInv' /\ RecInv' /\ TxnsFit' /\ [Next]_vars => [AS!Next]_(AS!vars)
  BY StoreStep DEF Around
<1> QED
  BY <1>1, <1>2, <1>3, <1>4, <1>5, <1>6, <1>7, PTL DEF Spec, Implements, AS!Spec
================================================================================
