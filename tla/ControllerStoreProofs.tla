------------------------- MODULE ControllerStoreProofs -------------------------
(***************************************************************************)
(* Proofs about ControllerStore for every set of processes and updates and *)
(* every clock bound: type correctness for every environment; mutual       *)
(* exclusion of the record lock, no lost update, the separation of         *)
(* progress and retirement, and the implementation of RetirableRecord      *)
(* under QuietSpec.                                                        *)
(***************************************************************************)
EXTENDS ControllerStore, TLAPS

USE NoneIsNew, OpsAreNotMarkers, EndPointsArePoints, ClockBound

LEMMA TypeStep == ASSUME TypeOK, [Next]_vars PROVE TypeOK'
<1> USE DEF TypeOK, Points, Acquiring, Locked, Marker, At, Goto, Continue, Return, files, locals
<1>1. ASSUME Tick PROVE TypeOK'
  BY <1>1 DEF Tick
<1>2. ASSUME NEW p \in Process, NEW op \in Op, Prepare(p, op) PROVE TypeOK'
  BY <1>2 DEF Prepare, New
<1>3. ASSUME NEW p \in Process, ReadPersisted(p) PROVE TypeOK'
  BY <1>3 DEF ReadPersisted
<1>4. ASSUME NEW p \in Process, PreCheckRetired(p) PROVE TypeOK'
  BY <1>4 DEF PreCheckRetired
<1>5. ASSUME NEW p \in Process, CheckRetired(p) PROVE TypeOK'
  BY <1>5 DEF CheckRetired
<1>6. ASSUME NEW p \in Process, CompareDigest(p) PROVE TypeOK'
  BY <1>6 DEF CompareDigest
<1>7. ASSUME NEW p \in Process, RenameRecord(p) PROVE TypeOK'
  BY <1>7 DEF RenameRecord
<1>8. ASSUME NEW p \in Process, LinkLock(p) PROVE TypeOK'
  BY <1>8 DEF LinkLock
<1>9. ASSUME NEW p \in Process, LockExists(p) PROVE TypeOK'
  BY <1>9 DEF LockExists
<1>10. ASSUME NEW p \in Process, InspectLock(p) PROVE TypeOK'
  BY <1>10 DEF InspectLock
<1>11. ASSUME NEW p \in Process, ProbeOwner(p) PROVE TypeOK'
  BY <1>11 DEF ProbeOwner
<1>12. ASSUME NEW p \in Process, UnlinkLock(p) PROVE TypeOK'
  BY <1>12 DEF UnlinkLock
<1>13. ASSUME NEW p \in Process, ReleaseLock(p) PROVE TypeOK'
  BY <1>13 DEF ReleaseLock
<1>14. ASSUME NEW p \in Process, CheckBaseline(p) PROVE TypeOK'
  BY <1>14 DEF CheckBaseline, AtBaseline
<1>15. ASSUME NEW p \in Process, PublishRetirement(p) PROVE TypeOK'
  BY <1>15 DEF PublishRetirement
<1>16. ASSUME NEW p \in Process, PublishTerminal(p) PROVE TypeOK'
  BY <1>16 DEF PublishTerminal
<1>17. ASSUME NEW p \in Process, ArchiveRun(p) PROVE TypeOK'
  BY <1>17 DEF ArchiveRun
<1>18. ASSUME NEW p \in Process, Retire(p) PROVE TypeOK'
  BY <1>18 DEF Retire, AtBaseline, ProgressArtifacts
<1>19. ASSUME NEW p \in Process, End(p) PROVE TypeOK'
  BY <1>19 DEF End
<1>20. ASSUME NEW p \in Process, PublishReceipt(p) PROVE TypeOK'
  BY <1>20 DEF PublishReceipt
<1>21. CASE UNCHANGED vars
  BY <1>21 DEF vars
<1> QED
  BY <1>1, <1>2, <1>3, <1>4, <1>5, <1>6, <1>7, <1>8, <1>9, <1>10, <1>11,
     <1>12, <1>13, <1>14, <1>15, <1>16, <1>17, <1>18, <1>19, <1>20, <1>21
     DEF Next, Call, PrepareAny, Step

LEMMA InitTyped == Init => TypeOK
<1> SUFFICES ASSUME Init PROVE TypeOK
  OBVIOUS
<1>1. /\ clock \in 1..MaxClock /\ retiring \in 0..MaxClock
      /\ receipt \in 0..MaxClock /\ archived \in 0..MaxClock
  BY DEF Init
<1>2. now \in [Process -> 0..MaxClock]
  BY DEF Init
<1>3. base \in [Process -> SUBSET Op] /\ record \subseteq Op
  BY DEF Init
<1>4. /\ pc \in [Process -> Points]
      /\ \A p \in Process : pc[p] = "idle"
  BY DEF Init, Points
<1>5. /\ intent \in [Process -> Op \cup Marker \cup {None}]
      /\ seen \in [Process -> Process \cup {None}]
      /\ terminal \in BOOLEAN /\ lock \in Process \cup {None}
      /\ running \subseteq Process
  BY DEF Init
<1> QED
  BY <1>1, <1>2, <1>3, <1>4, <1>5 DEF TypeOK

(***************************************************************************)
(* Type correctness: the record, the marker files and the lock only ever   *)
(* hold what the operations write, and every process is at a point of an   *)
(* operation.                                                              *)
(***************************************************************************)
THEOREM TypeCorrect == Spec => []TypeOK
<1>1. Init => TypeOK
  BY InitTyped
<1>2. TypeOK /\ [Next]_vars => TypeOK'
  BY TypeStep
<1> QED
  BY <1>1, <1>2, PTL DEF Spec

LEMMA HolderOwnsLockStep ==
  ASSUME SafeInv, [Next]_vars PROVE HolderOwnsLock'
<1> USE DEF SafeInv, TypeOK, HolderOwnsLock, Acquiring, Locked, At, Goto, Continue, Return, files, locals
<1>1. ASSUME Tick PROVE HolderOwnsLock'
  BY <1>1 DEF Tick
<1>2. ASSUME NEW p \in Process, NEW op \in Op, Prepare(p, op) PROVE HolderOwnsLock'
  BY <1>2 DEF Prepare, New
<1>3. ASSUME NEW p \in Process, ReadPersisted(p) PROVE HolderOwnsLock'
  BY <1>3 DEF ReadPersisted
<1>4. ASSUME NEW p \in Process, PreCheckRetired(p) PROVE HolderOwnsLock'
  BY <1>4 DEF PreCheckRetired
<1>5. ASSUME NEW p \in Process, CheckRetired(p) PROVE HolderOwnsLock'
  BY <1>5 DEF CheckRetired
<1>6. ASSUME NEW p \in Process, CompareDigest(p) PROVE HolderOwnsLock'
  BY <1>6 DEF CompareDigest
<1>7. ASSUME NEW p \in Process, RenameRecord(p) PROVE HolderOwnsLock'
  BY <1>7 DEF RenameRecord
<1>8. ASSUME NEW p \in Process, LinkLock(p) PROVE HolderOwnsLock'
  BY <1>8 DEF LinkLock
<1>9. ASSUME NEW p \in Process, LockExists(p) PROVE HolderOwnsLock'
  BY <1>9 DEF LockExists
<1>10. ASSUME NEW p \in Process, InspectLock(p) PROVE HolderOwnsLock'
  BY <1>10 DEF InspectLock
<1>11. ASSUME NEW p \in Process, ProbeOwner(p) PROVE HolderOwnsLock'
  BY <1>11 DEF ProbeOwner
<1>12. ASSUME NEW p \in Process, UnlinkLock(p) PROVE HolderOwnsLock'
  BY <1>12 DEF UnlinkLock, UnlinksDeadOwner, QuietReclaim
<1>13. ASSUME NEW p \in Process, ReleaseLock(p) PROVE HolderOwnsLock'
  BY <1>13 DEF ReleaseLock
<1>14. ASSUME NEW p \in Process, CheckBaseline(p) PROVE HolderOwnsLock'
  BY <1>14 DEF CheckBaseline, AtBaseline
<1>15. ASSUME NEW p \in Process, PublishRetirement(p) PROVE HolderOwnsLock'
  BY <1>15 DEF PublishRetirement
<1>16. ASSUME NEW p \in Process, PublishTerminal(p) PROVE HolderOwnsLock'
  BY <1>16 DEF PublishTerminal
<1>17. ASSUME NEW p \in Process, ArchiveRun(p) PROVE HolderOwnsLock'
  BY <1>17 DEF ArchiveRun
<1>18. ASSUME NEW p \in Process, Retire(p) PROVE HolderOwnsLock'
  BY <1>18 DEF Retire, AtBaseline, ProgressArtifacts
<1>19. ASSUME NEW p \in Process, End(p) PROVE HolderOwnsLock'
  BY <1>19 DEF End
<1>20. ASSUME NEW p \in Process, PublishReceipt(p) PROVE HolderOwnsLock'
  BY <1>20 DEF PublishReceipt
<1>21. CASE UNCHANGED vars
  BY <1>21 DEF vars
<1> QED
  BY <1>1, <1>2, <1>3, <1>4, <1>5, <1>6, <1>7, <1>8, <1>9, <1>10, <1>11,
     <1>12, <1>13, <1>14, <1>15, <1>16, <1>17, <1>18, <1>19, <1>20, <1>21
     DEF Next, Call, PrepareAny, Step

LEMMA UnlinksDeadOwnerStep ==
  ASSUME SafeInv, [Next]_vars PROVE UnlinksDeadOwner'
<1> USE DEF SafeInv, TypeOK, UnlinksDeadOwner, Dead, At, Goto, Continue, Return, files, locals
<1>1. ASSUME Tick PROVE UnlinksDeadOwner'
  BY <1>1 DEF Tick
<1>2. ASSUME NEW p \in Process, NEW op \in Op, Prepare(p, op) PROVE UnlinksDeadOwner'
  BY <1>2 DEF Prepare, New
<1>3. ASSUME NEW p \in Process, ReadPersisted(p) PROVE UnlinksDeadOwner'
  BY <1>3 DEF ReadPersisted
<1>4. ASSUME NEW p \in Process, PreCheckRetired(p) PROVE UnlinksDeadOwner'
  BY <1>4 DEF PreCheckRetired
<1>5. ASSUME NEW p \in Process, CheckRetired(p) PROVE UnlinksDeadOwner'
  BY <1>5 DEF CheckRetired
<1>6. ASSUME NEW p \in Process, CompareDigest(p) PROVE UnlinksDeadOwner'
  BY <1>6 DEF CompareDigest
<1>7. ASSUME NEW p \in Process, RenameRecord(p) PROVE UnlinksDeadOwner'
  BY <1>7 DEF RenameRecord
<1>8. ASSUME NEW p \in Process, LinkLock(p) PROVE UnlinksDeadOwner'
  BY <1>8 DEF LinkLock
<1>9. ASSUME NEW p \in Process, LockExists(p) PROVE UnlinksDeadOwner'
  BY <1>9 DEF LockExists
<1>10. ASSUME NEW p \in Process, InspectLock(p) PROVE UnlinksDeadOwner'
  BY <1>10 DEF InspectLock
<1>11. ASSUME NEW p \in Process, ProbeOwner(p) PROVE UnlinksDeadOwner'
  BY <1>11 DEF ProbeOwner
<1>12. ASSUME NEW p \in Process, UnlinkLock(p) PROVE UnlinksDeadOwner'
  BY <1>12 DEF UnlinkLock
<1>13. ASSUME NEW p \in Process, ReleaseLock(p) PROVE UnlinksDeadOwner'
  BY <1>13 DEF ReleaseLock
<1>14. ASSUME NEW p \in Process, CheckBaseline(p) PROVE UnlinksDeadOwner'
  BY <1>14 DEF CheckBaseline, AtBaseline
<1>15. ASSUME NEW p \in Process, PublishRetirement(p) PROVE UnlinksDeadOwner'
  BY <1>15 DEF PublishRetirement
<1>16. ASSUME NEW p \in Process, PublishTerminal(p) PROVE UnlinksDeadOwner'
  BY <1>16 DEF PublishTerminal
<1>17. ASSUME NEW p \in Process, ArchiveRun(p) PROVE UnlinksDeadOwner'
  BY <1>17 DEF ArchiveRun
<1>18. ASSUME NEW p \in Process, Retire(p) PROVE UnlinksDeadOwner'
  BY <1>18 DEF Retire, AtBaseline, ProgressArtifacts
<1>19. ASSUME NEW p \in Process, End(p) PROVE UnlinksDeadOwner'
  BY <1>19 DEF End
<1>20. ASSUME NEW p \in Process, PublishReceipt(p) PROVE UnlinksDeadOwner'
  BY <1>20 DEF PublishReceipt
<1>21. CASE UNCHANGED vars
  BY <1>21 DEF vars
<1> QED
  BY <1>1, <1>2, <1>3, <1>4, <1>5, <1>6, <1>7, <1>8, <1>9, <1>10, <1>11,
     <1>12, <1>13, <1>14, <1>15, <1>16, <1>17, <1>18, <1>19, <1>20, <1>21
     DEF Next, Call, PrepareAny, Step

LEMMA IntentNewStep ==
  ASSUME SafeInv, [Next]_vars PROVE IntentNew'
<1> USE DEF SafeInv, TypeOK, IntentNew, Marker, At, Goto, Continue, Return, files, locals
<1>1. ASSUME Tick PROVE IntentNew'
  BY <1>1 DEF Tick
<1>2. ASSUME NEW p \in Process, NEW op \in Op, Prepare(p, op) PROVE IntentNew'
  BY <1>2 DEF Prepare, New
<1>3. ASSUME NEW p \in Process, ReadPersisted(p) PROVE IntentNew'
  BY <1>3 DEF ReadPersisted
<1>4. ASSUME NEW p \in Process, PreCheckRetired(p) PROVE IntentNew'
  BY <1>4 DEF PreCheckRetired
<1>5. ASSUME NEW p \in Process, CheckRetired(p) PROVE IntentNew'
  BY <1>5 DEF CheckRetired
<1>6. ASSUME NEW p \in Process, CompareDigest(p) PROVE IntentNew'
  BY <1>6 DEF CompareDigest
<1>7. ASSUME NEW p \in Process, RenameRecord(p) PROVE IntentNew'
  BY <1>7 DEF RenameRecord
<1>8. ASSUME NEW p \in Process, LinkLock(p) PROVE IntentNew'
  BY <1>8 DEF LinkLock
<1>9. ASSUME NEW p \in Process, LockExists(p) PROVE IntentNew'
  BY <1>9 DEF LockExists
<1>10. ASSUME NEW p \in Process, InspectLock(p) PROVE IntentNew'
  BY <1>10 DEF InspectLock
<1>11. ASSUME NEW p \in Process, ProbeOwner(p) PROVE IntentNew'
  BY <1>11 DEF ProbeOwner
<1>12. ASSUME NEW p \in Process, UnlinkLock(p) PROVE IntentNew'
  BY <1>12 DEF UnlinkLock
<1>13. ASSUME NEW p \in Process, ReleaseLock(p) PROVE IntentNew'
  BY <1>13 DEF ReleaseLock
<1>14. ASSUME NEW p \in Process, CheckBaseline(p) PROVE IntentNew'
  BY <1>14 DEF CheckBaseline, AtBaseline
<1>15. ASSUME NEW p \in Process, PublishRetirement(p) PROVE IntentNew'
  BY <1>15 DEF PublishRetirement
<1>16. ASSUME NEW p \in Process, PublishTerminal(p) PROVE IntentNew'
  BY <1>16 DEF PublishTerminal
<1>17. ASSUME NEW p \in Process, ArchiveRun(p) PROVE IntentNew'
  BY <1>17 DEF ArchiveRun, MarkersInOrder
<1>18. ASSUME NEW p \in Process, Retire(p) PROVE IntentNew'
  BY <1>18 DEF Retire, AtBaseline, ProgressArtifacts
<1>19. ASSUME NEW p \in Process, End(p) PROVE IntentNew'
  BY <1>19 DEF End
<1>20. ASSUME NEW p \in Process, PublishReceipt(p) PROVE IntentNew'
  BY <1>20 DEF PublishReceipt
<1>21. CASE UNCHANGED vars
  BY <1>21 DEF vars
<1> QED
  BY <1>1, <1>2, <1>3, <1>4, <1>5, <1>6, <1>7, <1>8, <1>9, <1>10, <1>11,
     <1>12, <1>13, <1>14, <1>15, <1>16, <1>17, <1>18, <1>19, <1>20, <1>21
     DEF Next, Call, PrepareAny, Step

LEMMA CheckedUnderLockStep ==
  ASSUME SafeInv, [Next]_vars PROVE CheckedUnderLock'
<1> USE DEF SafeInv, TypeOK, CheckedUnderLock, InRetirement, At, Goto, Continue, Return, files, locals
<1>1. ASSUME Tick PROVE CheckedUnderLock'
  BY <1>1 DEF Tick
<1>2. ASSUME NEW p \in Process, NEW op \in Op, Prepare(p, op) PROVE CheckedUnderLock'
  BY <1>2 DEF Prepare, New
<1>3. ASSUME NEW p \in Process, ReadPersisted(p) PROVE CheckedUnderLock'
  BY <1>3 DEF ReadPersisted
<1>4. ASSUME NEW p \in Process, PreCheckRetired(p) PROVE CheckedUnderLock'
  BY <1>4 DEF PreCheckRetired
<1>5. ASSUME NEW p \in Process, CheckRetired(p) PROVE CheckedUnderLock'
  BY <1>5 DEF CheckRetired
<1>6. ASSUME NEW p \in Process, CompareDigest(p) PROVE CheckedUnderLock'
  BY <1>6 DEF CompareDigest
<1>7. ASSUME NEW p \in Process, RenameRecord(p) PROVE CheckedUnderLock'
  BY <1>7 DEF RenameRecord, HolderOwnsLock, Locked
<1>8. ASSUME NEW p \in Process, LinkLock(p) PROVE CheckedUnderLock'
  BY <1>8 DEF LinkLock
<1>9. ASSUME NEW p \in Process, LockExists(p) PROVE CheckedUnderLock'
  BY <1>9 DEF LockExists
<1>10. ASSUME NEW p \in Process, InspectLock(p) PROVE CheckedUnderLock'
  BY <1>10 DEF InspectLock
<1>11. ASSUME NEW p \in Process, ProbeOwner(p) PROVE CheckedUnderLock'
  BY <1>11 DEF ProbeOwner
<1>12. ASSUME NEW p \in Process, UnlinkLock(p) PROVE CheckedUnderLock'
  BY <1>12 DEF UnlinkLock
<1>13. ASSUME NEW p \in Process, ReleaseLock(p) PROVE CheckedUnderLock'
  BY <1>13 DEF ReleaseLock
<1>14. ASSUME NEW p \in Process, CheckBaseline(p) PROVE CheckedUnderLock'
  BY <1>14 DEF CheckBaseline, AtBaseline
<1>15. ASSUME NEW p \in Process, PublishRetirement(p) PROVE CheckedUnderLock'
  BY <1>15 DEF PublishRetirement, HolderOwnsLock, Locked, IntentNew
<1>16. ASSUME NEW p \in Process, PublishTerminal(p) PROVE CheckedUnderLock'
  BY <1>16 DEF PublishTerminal, HolderOwnsLock, Locked
<1>17. ASSUME NEW p \in Process, ArchiveRun(p) PROVE CheckedUnderLock'
  BY <1>17 DEF ArchiveRun
<1>18. ASSUME NEW p \in Process, Retire(p) PROVE CheckedUnderLock'
  BY <1>18 DEF Retire, AtBaseline, ProgressArtifacts
<1>19. ASSUME NEW p \in Process, End(p) PROVE CheckedUnderLock'
  BY <1>19 DEF End
<1>20. ASSUME NEW p \in Process, PublishReceipt(p) PROVE CheckedUnderLock'
  BY <1>20 DEF PublishReceipt
<1>21. CASE UNCHANGED vars
  BY <1>21 DEF vars
<1> QED
  BY <1>1, <1>2, <1>3, <1>4, <1>5, <1>6, <1>7, <1>8, <1>9, <1>10, <1>11,
     <1>12, <1>13, <1>14, <1>15, <1>16, <1>17, <1>18, <1>19, <1>20, <1>21
     DEF Next, Call, PrepareAny, Step

LEMMA MarkersInOrderStep ==
  ASSUME SafeInv, [Next]_vars PROVE MarkersInOrder'
<1> USE DEF SafeInv, TypeOK, MarkersInOrder, InRetirement, At, Goto, Continue, Return, files, locals
<1>1. ASSUME Tick PROVE MarkersInOrder'
  BY <1>1 DEF Tick
<1>2. ASSUME NEW p \in Process, NEW op \in Op, Prepare(p, op) PROVE MarkersInOrder'
  BY <1>2 DEF Prepare, New
<1>3. ASSUME NEW p \in Process, ReadPersisted(p) PROVE MarkersInOrder'
  BY <1>3 DEF ReadPersisted
<1>4. ASSUME NEW p \in Process, PreCheckRetired(p) PROVE MarkersInOrder'
  BY <1>4 DEF PreCheckRetired
<1>5. ASSUME NEW p \in Process, CheckRetired(p) PROVE MarkersInOrder'
  BY <1>5 DEF CheckRetired
<1>6. ASSUME NEW p \in Process, CompareDigest(p) PROVE MarkersInOrder'
  BY <1>6 DEF CompareDigest
<1>7. ASSUME NEW p \in Process, RenameRecord(p) PROVE MarkersInOrder'
  BY <1>7 DEF RenameRecord, CheckedUnderLock
<1>8. ASSUME NEW p \in Process, LinkLock(p) PROVE MarkersInOrder'
  BY <1>8 DEF LinkLock
<1>9. ASSUME NEW p \in Process, LockExists(p) PROVE MarkersInOrder'
  BY <1>9 DEF LockExists
<1>10. ASSUME NEW p \in Process, InspectLock(p) PROVE MarkersInOrder'
  BY <1>10 DEF InspectLock
<1>11. ASSUME NEW p \in Process, ProbeOwner(p) PROVE MarkersInOrder'
  BY <1>11 DEF ProbeOwner
<1>12. ASSUME NEW p \in Process, UnlinkLock(p) PROVE MarkersInOrder'
  BY <1>12 DEF UnlinkLock
<1>13. ASSUME NEW p \in Process, ReleaseLock(p) PROVE MarkersInOrder'
  BY <1>13 DEF ReleaseLock
<1>14. ASSUME NEW p \in Process, CheckBaseline(p) PROVE MarkersInOrder'
  BY <1>14 DEF CheckBaseline, AtBaseline
<1>15. ASSUME NEW p \in Process, PublishRetirement(p) PROVE MarkersInOrder'
  BY <1>15 DEF PublishRetirement, CheckedUnderLock, IntentNew
<1>16. ASSUME NEW p \in Process, PublishTerminal(p) PROVE MarkersInOrder'
  BY <1>16 DEF PublishTerminal, CheckedUnderLock
<1>17. ASSUME NEW p \in Process, ArchiveRun(p) PROVE MarkersInOrder'
  BY <1>17 DEF ArchiveRun
<1>18. ASSUME NEW p \in Process, Retire(p) PROVE MarkersInOrder'
  BY <1>18 DEF Retire, AtBaseline, ProgressArtifacts
<1>19. ASSUME NEW p \in Process, End(p) PROVE MarkersInOrder'
  BY <1>19 DEF End
<1>20. ASSUME NEW p \in Process, PublishReceipt(p) PROVE MarkersInOrder'
  BY <1>20 DEF PublishReceipt
<1>21. CASE UNCHANGED vars
  BY <1>21 DEF vars
<1> QED
  BY <1>1, <1>2, <1>3, <1>4, <1>5, <1>6, <1>7, <1>8, <1>9, <1>10, <1>11,
     <1>12, <1>13, <1>14, <1>15, <1>16, <1>17, <1>18, <1>19, <1>20, <1>21
     DEF Next, Call, PrepareAny, Step

LEMMA SafeInvariant == QuietSpec => []SafeInv
<1>1. Init => SafeInv
  BY InitTyped DEF Init, SafeInv, Acquiring, Locked, QuietReclaim,
         HolderOwnsLock, UnlinksDeadOwner, IntentNew, CheckedUnderLock, MarkersInOrder
<1>2. SafeInv /\ [Next /\ QuietReclaim']_vars => SafeInv'
  <2> SUFFICES ASSUME SafeInv, [Next /\ QuietReclaim']_vars PROVE SafeInv'
    OBVIOUS
  <2>1. [Next]_vars /\ TypeOK
    BY DEF SafeInv
  <2>2. QuietReclaim'
    BY DEF SafeInv, QuietReclaim, vars, Dead
  <2> QED
    BY <2>1, <2>2, TypeStep, HolderOwnsLockStep, UnlinksDeadOwnerStep, IntentNewStep,
       CheckedUnderLockStep, MarkersInOrderStep DEF SafeInv
<1> QED
  BY <1>1, <1>2, PTL DEF QuietSpec

(***************************************************************************)
(* The record lock excludes: no two live processes are inside it.          *)
(***************************************************************************)
THEOREM OneHolderCorrect == QuietSpec => []OneHolder
<1>1. SafeInv => OneHolder
  BY DEF SafeInv, HolderOwnsLock, OneHolder
<1> QED
  BY <1>1, SafeInvariant, PTL

(***************************************************************************)
(* Early retirement and progress exclude each other.                       *)
(***************************************************************************)
THEOREM RetirementCorrect == QuietSpec => []RetiredMadeNoProgress
<1>1. SafeInv => RetiredMadeNoProgress
  BY DEF SafeInv, MarkersInOrder, RetiredMadeNoProgress
<1> QED
  BY <1>1, SafeInvariant, PTL

\* Only three actions touch the record and its markers; under SafeInv each is
\* the abstract action of the same name.
LEMMA FilesStep ==
  ASSUME SafeInv, [Next]_vars
  PROVE  \/ \E op \in Op : Store!Update(op)
         \/ Store!StartRetirement
         \/ Store!FinishRetirement
         \/ UNCHANGED <<record, State>>
<1>1. ASSUME NEW p \in Process, RenameRecord(p) PROVE Store!Update(intent[p])
  BY <1>1 DEF SafeInv, TypeOK, CheckedUnderLock, IntentNew, InRetirement,
              RenameRecord, At, Store!Update, State
<1>2. ASSUME NEW p \in Process, PublishRetirement(p)
      PROVE  Store!StartRetirement \/ UNCHANGED <<record, State>>
  <2>1. CASE retiring = 0
    <3>1. now[p] # 0 /\ record = {} /\ ~terminal
      BY <1>2, <2>1 DEF SafeInv, CheckedUnderLock, IntentNew, MarkersInOrder,
                        PublishRetirement, At
    <3> QED
      BY <1>2, <2>1, <3>1 DEF PublishRetirement, Store!StartRetirement, State
  <2>2. CASE retiring # 0
    BY <1>2, <2>2 DEF PublishRetirement, State
  <2> QED
    BY <2>1, <2>2
<1>3. ASSUME NEW p \in Process, PublishTerminal(p)
      PROVE  Store!FinishRetirement \/ UNCHANGED <<record, State>>
  BY <1>3 DEF SafeInv, CheckedUnderLock, PublishTerminal, At, TypeOK,
              Store!FinishRetirement, State
<1>4. \/ \E p \in Process : RenameRecord(p) \/ PublishRetirement(p) \/ PublishTerminal(p)
      \/ UNCHANGED <<record, retiring, terminal>>
  BY DEF Next, Call, PrepareAny, Step, Tick, Prepare, New, ReadPersisted, PreCheckRetired,
         CheckRetired, CompareDigest, LinkLock, LockExists, InspectLock, ProbeOwner,
         UnlinkLock, ReleaseLock, CheckBaseline, PublishReceipt, ArchiveRun, Retire, End, vars, files
<1>5. ASSUME NEW p \in Process, RenameRecord(p) PROVE intent[p] \in Op
  BY <1>5 DEF SafeInv, TypeOK, RenameRecord, At
<1> QED
  BY <1>1, <1>2, <1>3, <1>4, <1>5 DEF State

(***************************************************************************)
(* No process's older copy of the record erases an update that another     *)
(* process completed.                                                      *)
(***************************************************************************)
THEOREM NoLostUpdateCorrect == QuietSpec => NoLostUpdate
<1>1. SafeInv /\ [Next /\ QuietReclaim']_vars => [record \subseteq record']_record
  <2> SUFFICES ASSUME SafeInv, [Next /\ QuietReclaim']_vars
               PROVE  record \subseteq record'
    OBVIOUS
  <2> QED
    BY FilesStep DEF Store!Update, Store!StartRetirement, Store!FinishRetirement
<1> QED
  BY <1>1, SafeInvariant, PTL DEF QuietSpec, NoLostUpdate

(***************************************************************************)
(* The store implements the abstract retirable record.                     *)
(***************************************************************************)
THEOREM StoreImplementsRecord == QuietSpec => ImplementsRecord
<1>1. Init => Store!Init
  BY DEF Init, Store!Init, State
<1>2. SafeInv /\ [Next /\ QuietReclaim']_vars => [Store!Next]_<<record, State>>
  BY FilesStep DEF Store!Next
<1> QED
  BY <1>1, <1>2, SafeInvariant, PTL DEF QuietSpec, ImplementsRecord, Store!Spec
=============================================================================
