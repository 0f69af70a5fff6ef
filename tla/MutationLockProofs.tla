-------------------------- MODULE MutationLockProofs --------------------------
(***************************************************************************)
(* Proofs about MutationLock for every set of processes: type correctness  *)
(* and the reclaimer election for every environment, mutual exclusion, the *)
(* stability of a live lock and the implementation of RepositoryMutex in   *)
(* the environment of QuietSpec.                                           *)
(***************************************************************************)
EXTENDS MutationLock, TLAPS

USE NoneAssumption

(***************************************************************************)
(* Type correctness: the lock and .reclaim names only ever hold inodes of  *)
(* owner files, and every process is at a point of the protocol.           *)
(***************************************************************************)
THEOREM TypeCorrect == Spec => []TypeOK
<1> USE DEF TypeOK, Inode, Points, Reclaiming, OwnerOf, Goto, At
<1>1. Init => TypeOK
  BY DEF Init
<1>2. TypeOK /\ [Next]_vars => TypeOK'
  <2> SUFFICES ASSUME TypeOK, [Next]_vars PROVE TypeOK'
    OBVIOUS
  <2>1. ASSUME NEW p \in Process, Call(p) PROVE TypeOK'
    BY <2>1 DEF Call
  <2>2. ASSUME NEW p \in Process, LinkLock(p) PROVE TypeOK'
    <3>1. PICK bit \in {0, 1} : /\ owned' = [owned EXCEPT ![p] = <<p, bit>>]
                                /\ lock' = <<p, bit>>
      BY <2>2 DEF LinkLock
    <3>2. /\ pc' \in [Process -> Points] /\ lock' \in Inode \cup {None}
          /\ UNCHANGED <<reclaim, running>>
      BY <2>2, <3>1 DEF LinkLock
    <3>3. owned' \in [Process -> Inode] /\ \A q \in Process : OwnerOf(owned'[q]) = q
      BY <3>1
    <3> QED
      BY <3>2, <3>3
  <2>3. ASSUME NEW p \in Process, LockExists(p) PROVE TypeOK'
    BY <2>3 DEF LockExists
  <2>4. ASSUME NEW p \in Process, ClaimReclaim(p) PROVE TypeOK'
    BY <2>4 DEF ClaimReclaim
  <2>5. ASSUME NEW p \in Process, CompareInodes(p) PROVE TypeOK'
    BY <2>5 DEF CompareInodes
  <2>6. ASSUME NEW p \in Process, ProbeOwner(p) PROVE TypeOK'
    BY <2>6 DEF ProbeOwner
  <2>7. ASSUME NEW p \in Process, UnlinkLock(p) PROVE TypeOK'
    BY <2>7 DEF UnlinkLock
  <2>8. ASSUME NEW p \in Process, DropReclaim(p) PROVE TypeOK'
    BY <2>8 DEF DropReclaim
  <2>9. ASSUME NEW p \in Process, ReleaseLock(p) PROVE TypeOK'
    BY <2>9 DEF ReleaseLock
  <2>10. ASSUME NEW p \in Process, End(p) PROVE TypeOK'
    BY <2>10 DEF End
  <2>11. CASE UNCHANGED vars
    BY <2>11 DEF vars
  <2> QED
    BY <2>1, <2>2, <2>3, <2>4, <2>5, <2>6, <2>7, <2>8, <2>9, <2>10, <2>11
       DEF Next, Step
<1> QED
  BY <1>1, <1>2, PTL DEF Spec

(***************************************************************************)
(* The create-only .reclaim link elects one reclaimer whatever ends where. *)
(***************************************************************************)
THEOREM ElectionCorrect == Spec => []OneReclaimer
<1> USE DEF Goto, At, Reclaiming, Points
<1>1. Init => OneReclaimer
  BY DEF Init, OneReclaimer
<1>2. TypeOK /\ OneReclaimer /\ [Next]_vars => OneReclaimer'
  <2> SUFFICES ASSUME TypeOK, OneReclaimer, [Next]_vars PROVE OneReclaimer'
    OBVIOUS
  <2> USE DEF TypeOK, OneReclaimer
  <2>1. ASSUME NEW p \in Process,
               pc'[p] \notin Reclaiming, pc[p] \notin Reclaiming,
               reclaim' = reclaim, pc' = [pc EXCEPT ![p] = pc'[p]]
        PROVE  OneReclaimer'
    BY <2>1
  <2>2. ASSUME NEW p \in Process,
               pc'[p] \in Reclaiming, pc[p] \in Reclaiming,
               reclaim' = reclaim, pc' = [pc EXCEPT ![p] = pc'[p]]
        PROVE  OneReclaimer'
    BY <2>2
  <2>3. ASSUME NEW p \in Process, Call(p) PROVE OneReclaimer'
    BY <2>1, <2>3 DEF Call
  <2>4. ASSUME NEW p \in Process, LinkLock(p) PROVE OneReclaimer'
    BY <2>1, <2>4 DEF LinkLock
  <2>5. ASSUME NEW p \in Process, LockExists(p) PROVE OneReclaimer'
    BY <2>1, <2>5 DEF LockExists
  <2>6. ASSUME NEW p \in Process, ClaimReclaim(p) PROVE OneReclaimer'
    BY <2>1, <2>6 DEF ClaimReclaim
  <2>7. ASSUME NEW p \in Process, CompareInodes(p) PROVE OneReclaimer'
    BY <2>2, <2>7 DEF CompareInodes
  <2>8. ASSUME NEW p \in Process, ProbeOwner(p) PROVE OneReclaimer'
    BY <2>2, <2>8 DEF ProbeOwner
  <2>9. ASSUME NEW p \in Process, UnlinkLock(p) PROVE OneReclaimer'
    BY <2>2, <2>9 DEF UnlinkLock
  <2>10. ASSUME NEW p \in Process, DropReclaim(p) PROVE OneReclaimer'
    BY <2>10 DEF DropReclaim
  <2>11. ASSUME NEW p \in Process, ReleaseLock(p) PROVE OneReclaimer'
    BY <2>1, <2>11 DEF ReleaseLock
  <2>12. ASSUME NEW p \in Process, End(p) PROVE OneReclaimer'
    BY <2>12 DEF End
  <2>13. CASE UNCHANGED vars
    BY <2>13 DEF vars
  <2> QED
    BY <2>3, <2>4, <2>5, <2>6, <2>7, <2>8, <2>9, <2>10, <2>11, <2>12, <2>13
       DEF Next, Step
<1> QED
  BY <1>1, <1>2, TypeCorrect, PTL DEF Spec

(***************************************************************************)
(* The lock's own promises, in the environment of QuietSpec.               *)
(***************************************************************************)
LEMMA ClaimedLockExists ==
  ASSUME TypeOK, OneReclaimer, NEW p \in Process, pc[p] \in Reclaiming
  PROVE  reclaim \in Inode
BY DEF TypeOK, OneReclaimer

LEMMA InsideOwnsLockStep ==
  ASSUME SafeInv, [Next]_vars PROVE InsideOwnsLock'
<1> USE DEF SafeInv, TypeOK, InsideOwnsLock, Goto, At, Reclaiming, Points
<1>1. ASSUME NEW p \in Process, Call(p) PROVE InsideOwnsLock'
  BY <1>1 DEF Call
<1>2. ASSUME NEW p \in Process, LinkLock(p) PROVE InsideOwnsLock'
  BY <1>2, NoneAssumption DEF LinkLock, Inode
<1>3. ASSUME NEW p \in Process, LockExists(p) PROVE InsideOwnsLock'
  BY <1>3 DEF LockExists
<1>4. ASSUME NEW p \in Process, ClaimReclaim(p) PROVE InsideOwnsLock'
  BY <1>4 DEF ClaimReclaim
<1>5. ASSUME NEW p \in Process, CompareInodes(p) PROVE InsideOwnsLock'
  BY <1>5 DEF CompareInodes
<1>6. ASSUME NEW p \in Process, ProbeOwner(p) PROVE InsideOwnsLock'
  BY <1>6 DEF ProbeOwner
<1>7. ASSUME NEW p \in Process, UnlinkLock(p) PROVE InsideOwnsLock'
  BY <1>7 DEF UnlinkLock, UnlinksStaleLock, StaleLock, Dead
<1>8. ASSUME NEW p \in Process, DropReclaim(p) PROVE InsideOwnsLock'
  BY <1>8 DEF DropReclaim
<1>9. ASSUME NEW p \in Process, ReleaseLock(p) PROVE InsideOwnsLock'
  BY <1>9 DEF ReleaseLock
<1>10. ASSUME NEW p \in Process, End(p) PROVE InsideOwnsLock'
  BY <1>10 DEF End
<1>11. CASE UNCHANGED vars
  BY <1>11 DEF vars
<1> QED
  BY <1>1, <1>2, <1>3, <1>4, <1>5, <1>6, <1>7, <1>8, <1>9, <1>10, <1>11
     DEF Next, Step

LEMMA ClaimIsCurrentStep ==
  ASSUME SafeInv, [QuietNext]_vars PROVE ClaimIsCurrent'
<1> USE DEF SafeInv, TypeOK, ClaimIsCurrent, Goto, At, Reclaiming, Points, Dead
<1>0. ASSUME NEW q \in Process, pc[q] = "probe"
      PROVE  reclaim \in Inode /\ OwnerOf(reclaim) \in Process
  BY <1>0, ClaimedLockExists DEF Inode, OwnerOf
<1>1. ASSUME NEW p \in Process, Call(p) PROVE ClaimIsCurrent'
  BY <1>1 DEF Call
<1>2. ASSUME NEW p \in Process, LinkLock(p) PROVE ClaimIsCurrent'
  BY <1>0, <1>2, NoneAssumption DEF LinkLock
<1>3. ASSUME NEW p \in Process, LockExists(p) PROVE ClaimIsCurrent'
  BY <1>3 DEF LockExists
<1>4. ASSUME NEW p \in Process, ClaimReclaim(p) PROVE ClaimIsCurrent'
  BY <1>4 DEF ClaimReclaim, OneReclaimer
<1>5. ASSUME NEW p \in Process, CompareInodes(p) PROVE ClaimIsCurrent'
  BY <1>5, ClaimedLockExists, NoneAssumption DEF CompareInodes
<1>6. ASSUME NEW p \in Process, ProbeOwner(p) PROVE ClaimIsCurrent'
  BY <1>6 DEF ProbeOwner
<1>7. ASSUME NEW p \in Process, UnlinkLock(p) PROVE ClaimIsCurrent'
  BY <1>7 DEF UnlinkLock, OneReclaimer
<1>8. ASSUME NEW p \in Process, DropReclaim(p) PROVE ClaimIsCurrent'
  BY <1>8 DEF DropReclaim, OneReclaimer
<1>9. ASSUME NEW p \in Process, ReleaseLock(p) PROVE ClaimIsCurrent'
  BY <1>0, <1>9 DEF ReleaseLock, InsideOwnsLock
<1>10. ASSUME NEW p \in Process, End(p), ~MissedByProbe(p) PROVE ClaimIsCurrent'
  <2>1. SUFFICES ASSUME NEW q \in running, pc[q] = "probe", OwnerOf(reclaim) = p
                 PROVE  lock # None /\ OwnerOf(lock) = p
    BY <1>0, <1>10 DEF End
  <2> QED
    BY <1>10, <2>1 DEF MissedByProbe
<1>11. CASE UNCHANGED vars
  BY <1>11 DEF vars
<1> QED
  BY <1>1, <1>2, <1>3, <1>4, <1>5, <1>6, <1>7, <1>8, <1>9, <1>10, <1>11
     DEF QuietNext, Step

LEMMA UnlinksStaleLockStep ==
  ASSUME SafeInv, [Next]_vars PROVE UnlinksStaleLock'
<1> USE DEF SafeInv, TypeOK, UnlinksStaleLock, StaleLock, Goto, At, Reclaiming,
            Points, Dead
<1>1. ASSUME NEW p \in Process, Call(p) PROVE UnlinksStaleLock'
  BY <1>1 DEF Call
<1>2. ASSUME NEW p \in Process, LinkLock(p) PROVE UnlinksStaleLock'
  BY <1>2 DEF LinkLock
<1>3. ASSUME NEW p \in Process, LockExists(p) PROVE UnlinksStaleLock'
  BY <1>3 DEF LockExists
<1>4. ASSUME NEW p \in Process, ClaimReclaim(p) PROVE UnlinksStaleLock'
  BY <1>4 DEF ClaimReclaim
<1>5. ASSUME NEW p \in Process, CompareInodes(p) PROVE UnlinksStaleLock'
  BY <1>5 DEF CompareInodes
<1>6. ASSUME NEW p \in Process, ProbeOwner(p) PROVE UnlinksStaleLock'
  BY <1>6 DEF ProbeOwner, ClaimIsCurrent
<1>7. ASSUME NEW p \in Process, UnlinkLock(p) PROVE UnlinksStaleLock'
  BY <1>7 DEF UnlinkLock, OneReclaimer
<1>8. ASSUME NEW p \in Process, DropReclaim(p) PROVE UnlinksStaleLock'
  BY <1>8 DEF DropReclaim
<1>9. ASSUME NEW p \in Process, ReleaseLock(p) PROVE UnlinksStaleLock'
  BY <1>9 DEF ReleaseLock, InsideOwnsLock
<1>10. ASSUME NEW p \in Process, End(p) PROVE UnlinksStaleLock'
  BY <1>10 DEF End
<1>11. CASE UNCHANGED vars
  BY <1>11 DEF vars
<1> QED
  BY <1>1, <1>2, <1>3, <1>4, <1>5, <1>6, <1>7, <1>8, <1>9, <1>10, <1>11
     DEF Next, Step

LEMMA QuietSteps == [QuietNext]_vars => [Next]_vars
BY DEF QuietNext, Next

LEMMA QuietBehaviours == QuietSpec => Spec
BY QuietSteps, PTL DEF QuietSpec, Spec

LEMMA SafeInvariant == QuietSpec => []SafeInv
<1>1. Init => SafeInv
  BY DEF Init, SafeInv, TypeOK, Inode, Points, Reclaiming, OwnerOf,
         OneReclaimer, InsideOwnsLock, ClaimIsCurrent, UnlinksStaleLock
<1>2. SafeInv /\ [QuietNext]_vars /\ TypeOK' /\ OneReclaimer' => SafeInv'
  BY QuietSteps, InsideOwnsLockStep, ClaimIsCurrentStep, UnlinksStaleLockStep
     DEF SafeInv
<1> QED
  BY <1>1, <1>2, QuietBehaviours, TypeCorrect, ElectionCorrect, PTL DEF QuietSpec

(***************************************************************************)
(* Admission, archiving and retirement publication of one repository never *)
(* run in two live processes at once.                                      *)
(***************************************************************************)
THEOREM MutualExclusionCorrect == QuietSpec => []MutualExclusion
<1>1. SafeInv => MutualExclusion
  BY DEF SafeInv, TypeOK, InsideOwnsLock, MutualExclusion
<1> QED
  BY <1>1, SafeInvariant, PTL

(***************************************************************************)
(* A contender never unlinks the lock of a live owner.                     *)
(***************************************************************************)
THEOREM LiveLockKeptCorrect == QuietSpec => LiveLockKept
<1>1. ASSUME SafeInv, [Next]_vars,
             lock # None, OwnerOf(lock) \in running, lock' # lock
      PROVE  ReleaseLock(OwnerOf(lock))
  <2> USE DEF SafeInv, TypeOK, At
  <2>1. CASE UNCHANGED vars
    BY <1>1, <2>1 DEF vars
  <2>2. ASSUME NEW p \in Process, UnlinkLock(p) PROVE FALSE
    BY <1>1, <2>2 DEF UnlinkLock, UnlinksStaleLock, StaleLock, Dead
  <2>3. ASSUME NEW p \in Process, ReleaseLock(p) PROVE OwnerOf(lock) = p
    BY <1>1, <2>3 DEF ReleaseLock, InsideOwnsLock
  <2>4. \E p \in Process : UnlinkLock(p) \/ ReleaseLock(p) \/ UNCHANGED vars
    BY <1>1 DEF Next, Step, Call, LinkLock, LockExists, ClaimReclaim,
                CompareInodes, ProbeOwner, DropReclaim, End, vars
  <2> QED
    BY <2>1, <2>2, <2>3, <2>4
<1>2. SafeInv /\ [Next]_vars =>
        [lock # None /\ OwnerOf(lock) \in running /\ lock' # lock
           => ReleaseLock(OwnerOf(lock))]_vars
  BY <1>1
<1> QED
  BY <1>2, QuietBehaviours, SafeInvariant, PTL DEF LiveLockKept, Spec

(***************************************************************************)
(* The protocol implements the abstract lock: whoever is inside holds it.  *)
(***************************************************************************)
LEMMA HolderInside ==
  ASSUME SafeInv, NEW p \in Process, p \in running, pc[p] = "inside"
  PROVE  Inside = {p} /\ Holder = p
<1>1. Inside = {p}
  BY DEF SafeInv, TypeOK, InsideOwnsLock, Inside
<1> QED
  BY <1>1 DEF Holder

THEOREM LockImplementsMutex == QuietSpec => ImplementsMutex
<1>1. Init => Mutex!Init
  BY DEF Init, Mutex!Init, Holder, Inside
<1>2. ASSUME SafeInv, SafeInv', [Next]_vars PROVE [Mutex!Next]_Holder
  <2> USE DEF Mutex!Next, Mutex!Acquire, Mutex!Release, Mutex!HolderEnds
  <2>1. ASSUME NEW p \in Process, LinkLock(p) PROVE Mutex!Acquire(p)
    <3>1. Inside = {}
      BY <1>2, <2>1, NoneAssumption
         DEF LinkLock, SafeInv, TypeOK, InsideOwnsLock, Inside
    <3>2. p \in running' /\ pc'[p] = "inside"
      BY <1>2, <2>1 DEF LinkLock, At, Goto, SafeInv, TypeOK
    <3>3. Inside' = {p}
      BY <1>2, <3>2 DEF SafeInv, TypeOK, InsideOwnsLock, Inside
    <3> QED
      BY <3>1, <3>3 DEF Holder
  <2>2. ASSUME NEW p \in Process, ReleaseLock(p) PROVE Mutex!Release(p)
    <3>1. Inside = {p} /\ Holder = p
      BY <1>2, <2>2, HolderInside DEF ReleaseLock, At
    <3>2. Inside' = {}
      BY <1>2, <2>2, <3>1 DEF ReleaseLock, Goto, SafeInv, TypeOK, Inside
    <3> QED
      BY <3>1, <3>2 DEF Holder
  <2>3. ASSUME NEW p \in Process, End(p), pc[p] = "inside" PROVE Mutex!HolderEnds(p)
    <3>1. Inside = {p} /\ Holder = p
      BY <1>2, <2>3, HolderInside DEF End
    <3>2. Inside' = {}
      BY <2>3, <3>1 DEF End, Inside
    <3> QED
      BY <3>1, <3>2 DEF Holder
  <2>4. ASSUME Inside' = Inside PROVE Holder' = Holder
    BY <2>4 DEF Holder
  <2>5. ASSUME NEW p \in Process, End(p), pc[p] # "inside" PROVE Inside' = Inside
    BY <2>5 DEF End, Inside
  <2>6. ASSUME NEW p \in Process,
               \/ Call(p) \/ LockExists(p) \/ ClaimReclaim(p) \/ CompareInodes(p)
               \/ ProbeOwner(p) \/ UnlinkLock(p) \/ DropReclaim(p)
        PROVE  Inside' = Inside
    BY <1>2, <2>6 DEF Call, LockExists, ClaimReclaim, CompareInodes, ProbeOwner,
         UnlinkLock, DropReclaim, At, Goto, Inside, SafeInv, TypeOK
  <2>7. CASE UNCHANGED vars
    BY <2>7 DEF vars, Inside, Holder
  <2> QED
    BY <1>2, <2>1, <2>2, <2>3, <2>4, <2>5, <2>6, <2>7 DEF Next, Step
<1> QED
  BY <1>1, <1>2, QuietBehaviours, SafeInvariant, PTL DEF ImplementsMutex, Mutex!Spec, Spec
=============================================================================
