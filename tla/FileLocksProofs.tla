--------------------------- MODULE FileLocksProofs ---------------------------
(* Theorems about FileLocks, for any handles of any processes.  UnixLocks  *)
(* implements FileLocks, so that they hold of its locks as well.           *)
EXTENDS FileLocks, TLAPS

(* OneReserves is not inductive: what keeps a second handle from RESERVED  *)
(* is that it stays taken on the way up to EXCLUSIVE, and what keeps a     *)
(* second one from EXCLUSIVE is that PENDING has one holder.               *)
ReservedIsTaken ==
    /\ \A h \in Handles : held[h] = RESERVED_LOCK => h \in reserved
    /\ \A h, o \in reserved : h = o
OnePending ==
    \A h, o \in Handles :
        held[h] >= PENDING_LOCK /\ held[o] >= PENDING_LOCK => h = o
LocksInv == TypeOK /\ ExclusiveMeansAlone /\ ReservedIsTaken /\ OnePending

USE DEF NO_LOCK, SHARED_LOCK, RESERVED_LOCK, PENDING_LOCK, EXCLUSIVE_LOCK, Levels

(* A request for one lock, and giving it back. *)
LEMMA RequestKeeps ==
    ASSUME LocksInv, NEW h \in Handles,
           Share(h) \/ Reserve(h) \/ Pend(h) \/ Exclude(h) \/ Downgrade(h)
    PROVE  LocksInv'
<1> USE DEF LocksInv, TypeOK, ExclusiveMeansAlone, ReservedIsTaken, OnePending
<1>1. CASE Share(h)
  BY <1>1 DEF Share
<1>2. CASE Reserve(h)
  BY <1>2 DEF Reserve
<1>3. CASE Pend(h)
  BY <1>3 DEF Pend
<1>4. CASE Exclude(h)
  BY <1>4 DEF Exclude
<1>5. CASE Downgrade(h)
  BY <1>5 DEF Downgrade
<1> QED
  BY <1>1, <1>2, <1>3, <1>4, <1>5

(* A process that ends, or closes. *)
LEMMA LoseKeeps == ASSUME LocksInv, NEW lost \in SUBSET Handles, Lose(lost) PROVE LocksInv'
  BY DEF LocksInv, TypeOK, ExclusiveMeansAlone, ReservedIsTaken, OnePending, Lose

(* The strengthened invariant holds in every reachable state. *)
THEOREM LocksInvariant == Spec => []LocksInv
<1>1. Init => LocksInv
  BY DEF Init, LocksInv, TypeOK, ExclusiveMeansAlone, ReservedIsTaken, OnePending
<1>2. LocksInv /\ [Next]_vars => LocksInv'
  <2>1. ASSUME LocksInv, UNCHANGED vars PROVE LocksInv'
    BY <2>1 DEF vars, LocksInv, TypeOK, ExclusiveMeansAlone, ReservedIsTaken, OnePending
  <2> QED
    BY <2>1, RequestKeeps, LoseKeeps DEF Next
<1> QED
  BY <1>1, <1>2, PTL DEF Spec

(* Nobody holds any lock beside an EXCLUSIVE one. *)
THEOREM WritersAreAlone == Spec => []ExclusiveMeansAlone
<1>1. LocksInv => ExclusiveMeansAlone
  BY DEF LocksInv
<1> QED
  BY <1>1, LocksInvariant, PTL

(* At most one connection prepares a write. *)
THEOREM WritersDoNotMeet == Spec => []OneReserves
<1>1. LocksInv => OneReserves
  BY DEF LocksInv, ReservedIsTaken, OneReserves
<1> QED
  BY <1>1, LocksInvariant, PTL
================================================================================
