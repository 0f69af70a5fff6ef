--------------------------- MODULE RunLifecycleProofs ---------------------------
(***************************************************************************)
(* Proofs about RunLifecycle for every set of processes, runs and          *)
(* deadlines and every bound: type correctness and at most one active run, *)
(* whatever the operators' discipline; a bound controller has its run, if  *)
(* no process dies while it stages one; a claim is tracked, if runs are    *)
(* admitted by the initializer; records are immutable and archives         *)
(* coherent, if one command at a time works on a run and in one way; and   *)
(* with the whole discipline closed runs verify and the directories        *)
(* implement RepositoryClaim.                                              *)
(***************************************************************************)
EXTENDS RunLifecycle, TLAPS

USE NoneIsNew, PointsArePoints, Times, Failures, Disciplines

-----------------------------------------------------------------------------
\* Types: what the files hold, and where the calls are.

FilesOK ==
    /\ controller \in [Run -> {"absent", "pending", "admitted", "done"}]
    /\ retired \in [Run -> 0..MaxClock]
    /\ staging \in [Process -> [run : Run, complete : BOOLEAN] \cup {None}]
    /\ active \in [Run -> Bundle \cup {None}]
    /\ archive \in [Day -> [Run -> Bundle \cup {None}]]
    /\ index \in [Run -> {None, "active", "archived"}]
    /\ holder \in Process \cup {None}
    /\ failures \in 0..MaxFailures
    /\ clock \in 1..MaxClock

CallsOK ==
    /\ pc \in [Process -> Points]
    /\ run \in [Process -> Run \cup {None}]
    /\ kind \in [Process -> Kind \cup {None}]
    /\ now \in [Process -> 0..MaxClock]
    /\ name \in [Process -> Published \cup {None}]
    /\ base \in [Process -> {"absent", "pending", "admitted", "done", None}]
    /\ running \subseteq Process
    /\ \A p \in running :
          /\ pc[p] # "idle" => run[p] \in Run /\ now[p] \in Day
          /\ pc[p] \in Closing => kind[p] \in Kind
          /\ pc[p] \in {"check", "write"} => name[p] \in Published

LEMMA TypeParts == TypeOK <=> FilesOK /\ CallsOK
BY DEF TypeOK, FilesOK, CallsOK

LEMMA TypePartsNext == TypeOK' <=> FilesOK' /\ CallsOK'
BY DEF TypeOK, FilesOK, CallsOK

LEMMA ReturnTyped ==
    ASSUME CallsOK, NEW p \in Process, Return(p), running' \subseteq running
    PROVE  CallsOK'
<1>1. /\ pc' \in [Process -> Points] /\ run' \in [Process -> Run \cup {None}]
      /\ kind' \in [Process -> Kind \cup {None}] /\ now' \in [Process -> 0..MaxClock]
  BY DEF CallsOK, Return, Goto, Points
<1>2. /\ name' \in [Process -> Published \cup {None}]
      /\ base' \in [Process -> {"absent", "pending", "admitted", "done", None}]
  BY DEF CallsOK, Return
<1>3. \A q \in running' :
          /\ pc'[q] # "idle" => run'[q] \in Run /\ now'[q] \in Day
          /\ pc'[q] \in Closing => kind'[q] \in Kind
          /\ pc'[q] \in {"check", "write"} => name'[q] \in Published
  BY DEF CallsOK, Return, Goto, Closing
<1> QED
  BY <1>1, <1>2, <1>3 DEF CallsOK

LEMMA ContinueTyped ==
    ASSUME CallsOK, NEW p \in running, pc[p] # "idle", NEW point \in Points,
           Continue(p, point), running' = running,
           point \in Closing => kind[p] \in Kind,
           point \in {"check", "write"} => name[p] \in Published
    PROVE  CallsOK'
BY DEF CallsOK, Continue, Goto, locals

LEMMA NextRecordTyped ==
    ASSUME CallsOK, NEW p \in running, pc[p] \in {"check", "write"},
           NextRecord(p), running' = running
    PROVE  CallsOK'
<1>1. /\ pc' \in [Process -> Points]
      /\ pc'[p] \in {"check", "archive"}
      /\ pc'[p] = "check" => name'[p] \in Published
      /\ \A q \in Process \ {p} : pc'[q] = pc[q] /\ name'[q] = name[q]
  BY DEF CallsOK, NextRecord, Goto, Points, Closing, Published
<1>2. name' \in [Process -> Published \cup {None}]
  BY DEF CallsOK, NextRecord, Published
<1>3. UNCHANGED <<run, kind, now, base>>
  BY DEF NextRecord
<1> QED
  BY <1>1, <1>2, <1>3 DEF CallsOK, Closing

\* A record written into a directory that is there.
LEMMA RecordWritten ==
    ASSUME FilesOK, NEW r \in Run, active[r] # None, NEW n \in Name, NEW c \in Content
    PROVE  /\ [active EXCEPT ![r][n] = c] \in [Run -> Bundle \cup {None}]
           /\ [active EXCEPT ![r][n] = c][r] \in Bundle
<1>1. active[r] \in Bundle
  BY DEF FilesOK
<1>2. [active[r] EXCEPT ![n] = c] \in Bundle
  BY <1>1 DEF Bundle
<1> QED
  BY <1>2 DEF FilesOK

LEMMA EmptyDirTyped == EmptyDir \in Bundle /\ Admission \in Bundle
BY DEF EmptyDir, Admission, Bundle, Content, Name, Published, Receipts

LEMMA TypeStep ==
    ASSUME TypeOK, StagesOwn, [Next]_vars PROVE TypeOK'
<1>1. ASSUME Tick
      PROVE  TypeOK'
  BY <1>1 DEF Tick, TypeOK, At, Goto, Continue, Return, files, locals, Points, Initializing, Closing, Day, Published, Receipts, Kind, Receipt
<1>2. ASSUME NEW r \in Run, CompleteController(r)
      PROVE  TypeOK'
  BY <1>2 DEF CompleteController, TypeOK, At, Goto, Continue, Return, files, locals, Points, Initializing, Closing, Day, Published, Receipts, Kind, Receipt
<1>3. ASSUME NEW r \in Run, RetirePending(r)
      PROVE  TypeOK'
  BY <1>3 DEF RetirePending, PendingBaseline, RunAbsent, PublishRetirement, TypeOK, At, Goto, Continue, Return, files, locals, Points, Initializing, Closing, Day, Published, Receipts, Kind, Receipt
<1>4. ASSUME NEW p \in Process, NEW r \in Run, Initialize(p, r)
      PROVE  TypeOK'
  BY <1>4 DEF Initialize, TypeOK, At, Goto, Continue, Return, files, locals, Points, Initializing, Closing, Day, Published, Receipts, Kind, Receipt
<1>5. ASSUME NEW p \in Process, NEW r \in Run, AdmitV2Run(p, r)
      PROVE  TypeOK'
  BY <1>5 DEF AdmitV2Run, TypeOK, At, Goto, Continue, Return, files, locals, Points, Initializing, Closing, Day, Published, Receipts, Kind, Receipt
<1>6. ASSUME NEW p \in Process, NEW r \in Run, NEW k \in Kind, NEW t \in 1..clock, BeginClose(p, r, k, t)
      PROVE  TypeOK'
  BY <1>6 DEF BeginClose, TypeOK, At, Goto, Continue, Return, files, locals, Points, Initializing, Closing, Day, Published, Receipts, Kind, Receipt
<1>7. ASSUME NEW p \in Process, EnsureController(p)
      PROVE  TypeOK'
  BY <1>7 DEF EnsureController, TypeOK, At, Goto, Continue, Return, files, locals, Points, Initializing, Closing, Day, Published, Receipts, Kind, Receipt
<1>8. ASSUME NEW p \in Process, Admit(p)
      PROVE  TypeOK'
  <2>1. p \in running /\ pc[p] = "admit" /\ running' = running
    BY <1>8 DEF Admit, At
  <2>2. CallsOK'
    <3>1. ASSUME NEW point \in {"bind", "stage"}, Continue(p, point) PROVE CallsOK'
      BY <2>1, <3>1, ContinueTyped, TypeParts DEF Points, Initializing, Closing
    <3> QED
      BY <1>8, <2>1, <3>1, ReturnTyped, TypeParts DEF Admit, Finish
  <2>3. FilesOK'
    BY <1>8 DEF Admit, TypeOK, FilesOK, files
  <2> QED
    BY <2>2, <2>3, TypePartsNext
<1>9. ASSUME NEW p \in Process, Stage(p)
      PROVE  TypeOK'
  <2>1. p \in running /\ pc[p] = "stage" /\ running' = running
    BY <1>9 DEF Stage, At
  <2>2. CallsOK'
    <3>1. CASE Continue(p, "publishStaged")
      BY <2>1, <3>1, ContinueTyped, TypeParts DEF Points, Initializing, Closing
    <3> QED
      BY <1>9, <2>1, <3>1, ReturnTyped, TypeParts DEF Stage
  <2>3. run[p] \in Run
    BY <2>1 DEF TypeOK
  <2>4. staging' \in [Process -> [run : Run, complete : BOOLEAN] \cup {None}]
    <3>1. [run |-> run[p], complete |-> FALSE] \in [run : Run, complete : BOOLEAN]
      BY <2>3
    <3> QED
      BY <1>9, <3>1, TypeParts DEF Stage, FilesOK
  <2>5. FilesOK'
    BY <1>9, <2>4 DEF Stage, TypeOK, FilesOK
  <2> QED
    BY <2>2, <2>5, TypePartsNext
<1>10. ASSUME NEW p \in Process, PublishStaged(p)
      PROVE  TypeOK'
  <2>1. p \in running /\ pc[p] = "publishStaged" /\ running' = running
    BY <1>10 DEF PublishStaged, At
  <2>2. CallsOK'
    BY <1>10, <2>1, ContinueTyped, TypeParts DEF PublishStaged, Points, Initializing, Closing
  <2>3. staging[p] \in [run : Run, complete : BOOLEAN]
    BY <2>1 DEF TypeOK, StagesOwn
  <2>4. [staging[p] EXCEPT !.complete = TRUE] \in [run : Run, complete : BOOLEAN]
    BY <2>3
  <2>5. staging' \in [Process -> [run : Run, complete : BOOLEAN] \cup {None}]
    BY <1>10, <2>4 DEF PublishStaged, TypeOK
  <2>6. FilesOK'
    BY <1>10, <2>5 DEF PublishStaged, TypeOK, FilesOK
  <2> QED
    BY <2>2, <2>6, TypePartsNext
<1>11. ASSUME NEW p \in Process, RenameStaged(p)
      PROVE  TypeOK'
  <2>1. p \in running /\ pc[p] = "renameStaged" /\ running' = running
    BY <1>11 DEF RenameStaged, At
  <2>2. CallsOK'
    <3>1. CASE Continue(p, "indexActive")
      BY <2>1, <3>1, ContinueTyped, TypeParts DEF Points, Initializing, Closing
    <3> QED
      BY <1>11, <2>1, <3>1, ReturnTyped, TypeParts DEF RenameStaged
  <2>3. active' \in [Run -> Bundle \cup {None}]
    BY <1>11, EmptyDirTyped DEF RenameStaged, TypeOK
  <2>4. FilesOK'
    BY <1>11, <2>3 DEF RenameStaged, TypeOK, FilesOK
  <2> QED
    BY <2>2, <2>4, TypePartsNext
<1>12. ASSUME NEW p \in Process, IndexActive(p)
      PROVE  TypeOK'
  <2>1. p \in running /\ pc[p] = "indexActive" /\ running' = running
    BY <1>12 DEF IndexActive, At
  <2>2. CallsOK'
    <3>1. CASE Continue(p, "bind")
      BY <2>1, <3>1, ContinueTyped, TypeParts DEF Points, Initializing, Closing
    <3> QED
      BY <1>12, <2>1, <3>1, ReturnTyped, TypeParts DEF IndexActive, Finish
  <2>3. FilesOK'
    BY <1>12 DEF IndexActive, TypeOK, FilesOK
  <2> QED
    BY <2>2, <2>3, TypePartsNext
<1>13. ASSUME NEW p \in Process, Bind(p)
      PROVE  TypeOK'
  BY <1>13 DEF Bind, TypeOK, At, Goto, Continue, Return, files, locals, Points, Initializing, Closing, Day, Published, Receipts, Kind, Receipt
<1>14. ASSUME NEW p \in Process, CheckRecord(p)
      PROVE  TypeOK'
  <2>1. p \in running /\ pc[p] = "check" /\ running' = running
    BY <1>14 DEF CheckRecord, At
  <2>2. CallsOK'
    <3>1. CASE Continue(p, "write")
      <4>1. kind[p] \in Kind /\ name[p] \in Published
        BY <2>1 DEF TypeOK, Closing
      <4> QED
        BY <2>1, <3>1, <4>1, ContinueTyped, TypeParts DEF Points, Closing
    <3> QED
      BY <1>14, <2>1, <3>1, ReturnTyped, NextRecordTyped, TypeParts DEF CheckRecord
  <2>3. active' \in [Run -> Bundle \cup {None}]
    BY <1>14, EmptyDirTyped DEF CheckRecord, TypeOK
  <2>4. FilesOK'
    BY <1>14, <2>3 DEF CheckRecord, TypeOK, FilesOK
  <2> QED
    BY <2>2, <2>4, TypePartsNext
<1>15. ASSUME NEW p \in Process, WriteRecord(p)
      PROVE  TypeOK'
  <2>1. p \in running /\ pc[p] = "write" /\ running' = running
    BY <1>15 DEF WriteRecord, At
  <2>2. CallsOK'
    BY <1>15, <2>1, ReturnTyped, NextRecordTyped, TypeParts DEF WriteRecord
  <2>3. /\ run[p] \in Run /\ name[p] \in Name
        /\ Record(p, name[p]) \in Content
    BY <2>1 DEF TypeOK, Closing, Name, Record, Content, Day
  <2>4. active' \in [Run -> Bundle \cup {None}]
    <3>1. CASE active[run[p]] = None
      BY <1>15, <3>1 DEF WriteRecord, TypeOK
    <3>2. CASE active[run[p]] # None
      <4>1. active' = [active EXCEPT ![run[p]][name[p]] = Record(p, name[p])]
        BY <1>15, <3>2 DEF WriteRecord
      <4>2. [active EXCEPT ![run[p]][name[p]] = Record(p, name[p])]
               \in [Run -> Bundle \cup {None}]
        BY <2>3, <3>2, RecordWritten, TypeParts
      <4> QED
        BY <4>1, <4>2
    <3> QED
      BY <3>1, <3>2
  <2>5. FilesOK'
    BY <1>15, <2>4 DEF WriteRecord, TypeOK, FilesOK
  <2> QED
    BY <2>2, <2>5, TypePartsNext
<1>16. ASSUME NEW p \in Process, Archive(p)
      PROVE  TypeOK'
  <2>1. p \in running /\ pc[p] = "archive" /\ running' = running
    BY <1>16 DEF Archive, At
  <2>2. kind[p] \in Kind /\ run[p] \in Run /\ now[p] \in 0..MaxClock
    BY <2>1 DEF TypeOK, Closing
  <2>3. CallsOK'
    <3>1. CASE Continue(p, "move")
      BY <2>1, <2>2, <3>1, ContinueTyped, TypeParts DEF Points, Closing
    <3> QED
      BY <1>16, <2>1, <3>1, ReturnTyped, TypeParts DEF Archive
  <2>4. <<kind[p], now[p]>> \in Content /\ "archive-manifest" \in Name
    BY <2>2 DEF Content, Name
  <2>5. active' \in [Run -> Bundle \cup {None}]
    <3>1. CASE UNCHANGED active
      BY <3>1 DEF TypeOK
    <3>2. CASE active[run[p]] # None
               /\ active' = [active EXCEPT ![run[p]]["archive-manifest"] =
                                <<kind[p], now[p]>>]
      BY <2>2, <2>4, <3>2, RecordWritten, TypeParts
    <3> QED
      BY <1>16, <3>1, <3>2 DEF Archive
  <2>6. FilesOK'
    BY <1>16, <2>5 DEF Archive, TypeOK, FilesOK
  <2> QED
    BY <2>3, <2>6, TypePartsNext
<1>17. ASSUME NEW p \in Process, Move(p)
      PROVE  TypeOK'
  BY <1>17 DEF Move, TypeOK, At, Goto, Continue, Return, files, locals, Points, Initializing, Closing, Day, Published, Receipts, Kind, Receipt
<1>18. ASSUME NEW p \in Process, IndexArchived(p)
      PROVE  TypeOK'
  BY <1>18 DEF IndexArchived, TypeOK, At, Goto, Continue, Return, files, locals, Points, Initializing, Closing, Day, Published, Receipts, Kind, Receipt
<1>19. ASSUME NEW p \in Process, IoFailure(p)
      PROVE  TypeOK'
  BY <1>19 DEF IoFailure, TypeOK, At, Goto, Continue, Return, files, locals, Points, Initializing, Closing, Day, Published, Receipts, Kind, Receipt
<1>20. ASSUME NEW p \in Process, End(p)
      PROVE  TypeOK'
  BY <1>20 DEF End, TypeOK, At, Goto, Continue, Return, files, locals, Points, Initializing, Closing, Day, Published, Receipts, Kind, Receipt
<1>21. CASE UNCHANGED vars
  BY <1>21 DEF vars, TypeOK, At, Goto, Continue, Return, files, locals, Points, Initializing, Closing, Day, Published, Receipts, Kind, Receipt
<1> QED
  BY <1>1, <1>2, <1>3, <1>4, <1>5, <1>6, <1>7, <1>8, <1>9, <1>10, <1>11,
     <1>12, <1>13, <1>14, <1>15, <1>16, <1>17, <1>18, <1>19, <1>20, <1>21
     DEF Next, Step, InitializeAny, AdmitAny, Close

LEMMA InitTyped == Init => TypeOK
<1> SUFFICES ASSUME Init PROVE TypeOK
  OBVIOUS
<1>1. FilesOK
  BY DEF Init, FilesOK, Day
<1>2. CallsOK
  BY DEF Init, CallsOK, Points, Closing
<1> QED
  BY <1>1, <1>2, TypeParts

-----------------------------------------------------------------------------
\* One active run.

\* What the records of a closing are written over.
LEMMA RecordStep ==
    ASSUME TypeOK, NEW p \in Process, WriteRecord(p) \/ Archive(p)
    PROVE  /\ run[p] \in Run
           /\ \/ UNCHANGED active
              \/ \E n \in Name \ {"admission"}, c \in Content :
                    /\ active[run[p]] # None
                    /\ active' = [active EXCEPT ![run[p]][n] = c]
<1>1. run[p] \in Run /\ kind[p] \in Kind /\ now[p] \in Day
  BY DEF WriteRecord, Archive, At, TypeOK, Closing
<1>2. CASE WriteRecord(p)
  <2>1. name[p] \in Published
    BY <1>2 DEF WriteRecord, At, TypeOK
  <2>2. name[p] \in Name \ {"admission"} /\ Record(p, name[p]) \in Content
    BY <1>1, <2>1 DEF Published, Receipts, Receipt, Kind, Name, Record, Content, Day
  <2>3. \/ UNCHANGED active
        \/ active[run[p]] # None
           /\ active' = [active EXCEPT ![run[p]][name[p]] = Record(p, name[p])]
    BY <1>2 DEF WriteRecord
  <2> QED
    BY <1>1, <2>2, <2>3
<1>3. CASE Archive(p)
  <2>1. "archive-manifest" \in Name \ {"admission"} /\ <<kind[p], now[p]>> \in Content
    BY <1>1 DEF Name, Content, Day
  <2>2. \/ UNCHANGED active
        \/ active[run[p]] # None
           /\ active' = [active EXCEPT ![run[p]]["archive-manifest"] = <<kind[p], now[p]>>]
    BY <1>3 DEF Archive
  <2> QED
    BY <1>1, <2>1, <2>2
<1> QED
  BY <1>2, <1>3

\* The records of a closing neither admit a run nor take its admission away.
LEMMA ClosingKeepsAdmissions ==
    ASSUME TypeOK, NEW p \in Process, CheckRecord(p) \/ WriteRecord(p) \/ Archive(p),
           NEW r \in Run
    PROVE  Admitted(r)' <=> Admitted(r)
<1> DEFINE q == run[p]
<1>1. active \in [Run -> Bundle \cup {None}]
  BY DEF TypeOK
<1>2. CASE CheckRecord(p)
  <2>1. q \in Run
    BY <1>2 DEF CheckRecord, At, TypeOK
  <2>2. active' = [active EXCEPT ![q] = IF active[q] = None THEN EmptyDir ELSE active[q]]
    BY <1>2 DEF CheckRecord
  <2>3. EmptyDir["admission"] = None
    BY DEF EmptyDir, Name
  <2> QED
    BY <1>1, <2>1, <2>2, <2>3 DEF Admitted
<1>3. CASE WriteRecord(p) \/ Archive(p)
  <2>1. q \in Run
    BY <1>3, RecordStep
  <2>2. CASE UNCHANGED active
    BY <2>2 DEF Admitted
  <2>3. ASSUME NEW n \in Name \ {"admission"}, NEW c \in Content,
               active[q] # None, active' = [active EXCEPT ![q][n] = c]
        PROVE  Admitted(r)' <=> Admitted(r)
    <3>1. active[q] \in Bundle /\ active'[q] = [active[q] EXCEPT ![n] = c]
      BY <1>1, <2>1, <2>3
    <3>2. active'[q]["admission"] = active[q]["admission"] /\ active'[q] \in Bundle
      BY <2>3, <3>1 DEF Bundle, Name
    <3>3. r # q => active'[r] = active[r]
      BY <1>1, <2>1, <2>3
    <3> QED
      BY <2>3, <3>2, <3>3, NoneIsNew DEF Admitted
  <2> QED
    BY <1>3, <2>2, <2>3, RecordStep
<1> QED
  BY <1>2, <1>3

LEMMA HoldsLockStep ==
    ASSUME ClaimInv, [Next]_vars PROVE HoldsLock'
<1>1. ASSUME Tick
      PROVE  HoldsLock'
  BY <1>1 DEF Tick, HoldsLock, ClaimInv, TypeOK, At, Goto, Continue, Return, files, locals, LockPoints, Closing, Published, Receipts, Receipt
<1>2. ASSUME NEW r \in Run, CompleteController(r)
      PROVE  HoldsLock'
  BY <1>2 DEF CompleteController, HoldsLock, ClaimInv, TypeOK, At, Goto, Continue, Return, files, locals, LockPoints, Closing, Published, Receipts, Receipt
<1>3. ASSUME NEW r \in Run, RetirePending(r)
      PROVE  HoldsLock'
  BY <1>3 DEF RetirePending, PendingBaseline, RunAbsent, PublishRetirement, HoldsLock, ClaimInv, TypeOK, At, Goto, Continue, Return, files, locals, LockPoints, Closing, Published, Receipts, Receipt
<1>4. ASSUME NEW p \in Process, NEW r \in Run, Initialize(p, r)
      PROVE  HoldsLock'
  BY <1>4 DEF Initialize, HoldsLock, ClaimInv, TypeOK, At, Goto, Continue, Return, files, locals, LockPoints, Closing, Published, Receipts, Receipt
<1>5. ASSUME NEW p \in Process, NEW r \in Run, AdmitV2Run(p, r)
      PROVE  HoldsLock'
  BY <1>5 DEF AdmitV2Run, HoldsLock, ClaimInv, TypeOK, At, Goto, Continue, Return, files, locals, LockPoints, Closing, Published, Receipts, Receipt
<1>6. ASSUME NEW p \in Process, NEW r \in Run, NEW k \in Kind, NEW t \in 1..clock, BeginClose(p, r, k, t)
      PROVE  HoldsLock'
  BY <1>6 DEF BeginClose, HoldsLock, ClaimInv, TypeOK, At, Goto, Continue, Return, files, locals, LockPoints, Closing, Published, Receipts, Receipt
<1>7. ASSUME NEW p \in Process, EnsureController(p)
      PROVE  HoldsLock'
  BY <1>7 DEF EnsureController, HoldsLock, ClaimInv, TypeOK, At, Goto, Continue, Return, files, locals, LockPoints, Closing, Published, Receipts, Receipt
<1>8. ASSUME NEW p \in Process, Admit(p)
      PROVE  HoldsLock'
  BY <1>8 DEF Admit, Finish, HoldsLock, ClaimInv, TypeOK, At, Goto, Continue, Return, files, locals, LockPoints, Closing, Published, Receipts, Receipt
<1>9. ASSUME NEW p \in Process, Stage(p)
      PROVE  HoldsLock'
  BY <1>9 DEF Stage, HoldsLock, ClaimInv, TypeOK, At, Goto, Continue, Return, files, locals, LockPoints, Closing, Published, Receipts, Receipt
<1>10. ASSUME NEW p \in Process, PublishStaged(p)
      PROVE  HoldsLock'
  BY <1>10 DEF PublishStaged, HoldsLock, ClaimInv, TypeOK, At, Goto, Continue, Return, files, locals, LockPoints, Closing, Published, Receipts, Receipt
<1>11. ASSUME NEW p \in Process, RenameStaged(p)
      PROVE  HoldsLock'
  BY <1>11 DEF RenameStaged, HoldsLock, ClaimInv, TypeOK, At, Goto, Continue, Return, files, locals, LockPoints, Closing, Published, Receipts, Receipt
<1>12. ASSUME NEW p \in Process, IndexActive(p)
      PROVE  HoldsLock'
  BY <1>12 DEF IndexActive, Finish, HoldsLock, ClaimInv, TypeOK, At, Goto, Continue, Return, files, locals, LockPoints, Closing, Published, Receipts, Receipt
<1>13. ASSUME NEW p \in Process, Bind(p)
      PROVE  HoldsLock'
  BY <1>13 DEF Bind, HoldsLock, ClaimInv, TypeOK, At, Goto, Continue, Return, files, locals, LockPoints, Closing, Published, Receipts, Receipt
<1>14. ASSUME NEW p \in Process, CheckRecord(p)
      PROVE  HoldsLock'
  BY <1>14 DEF CheckRecord, NextRecord, HoldsLock, ClaimInv, TypeOK, At, Goto, Continue, Return, files, locals, LockPoints, Closing, Published, Receipts, Receipt
<1>15. ASSUME NEW p \in Process, WriteRecord(p)
      PROVE  HoldsLock'
  BY <1>15 DEF WriteRecord, NextRecord, HoldsLock, ClaimInv, TypeOK, At, Goto, Continue, Return, files, locals, LockPoints, Closing, Published, Receipts, Receipt
<1>16. ASSUME NEW p \in Process, Archive(p)
      PROVE  HoldsLock'
  BY <1>16 DEF Archive, HoldsLock, ClaimInv, TypeOK, At, Goto, Continue, Return, files, locals, LockPoints, Closing, Published, Receipts, Receipt
<1>17. ASSUME NEW p \in Process, Move(p)
      PROVE  HoldsLock'
  BY <1>17 DEF Move, HoldsLock, ClaimInv, TypeOK, At, Goto, Continue, Return, files, locals, LockPoints, Closing, Published, Receipts, Receipt
<1>18. ASSUME NEW p \in Process, IndexArchived(p)
      PROVE  HoldsLock'
  BY <1>18 DEF IndexArchived, HoldsLock, ClaimInv, TypeOK, At, Goto, Continue, Return, files, locals, LockPoints, Closing, Published, Receipts, Receipt
<1>19. ASSUME NEW p \in Process, IoFailure(p)
      PROVE  HoldsLock'
  BY <1>19 DEF IoFailure, HoldsLock, ClaimInv, TypeOK, At, Goto, Continue, Return, files, locals, LockPoints, Closing, Published, Receipts, Receipt
<1>20. ASSUME NEW p \in Process, End(p)
      PROVE  HoldsLock'
  BY <1>20 DEF End, HoldsLock, ClaimInv, TypeOK, At, Goto, Continue, Return, files, locals, LockPoints, Closing, Published, Receipts, Receipt
<1>21. CASE UNCHANGED vars
  BY <1>21 DEF vars, HoldsLock, ClaimInv, TypeOK, At, Goto, Continue, Return, files, locals, LockPoints, Closing, Published, Receipts, Receipt
<1> QED
  BY <1>1, <1>2, <1>3, <1>4, <1>5, <1>6, <1>7, <1>8, <1>9, <1>10, <1>11,
     <1>12, <1>13, <1>14, <1>15, <1>16, <1>17, <1>18, <1>19, <1>20, <1>21
     DEF Next, Step, InitializeAny, AdmitAny, Close

LEMMA StagesOwnStep ==
    ASSUME ClaimInv, [Next]_vars PROVE StagesOwn'
<1>1. ASSUME Tick
      PROVE  StagesOwn'
  BY <1>1 DEF Tick, StagesOwn, ClaimInv, TypeOK, At, Goto, Continue, Return, files, locals, LockPoints, Closing, Published, Receipts, Receipt
<1>2. ASSUME NEW r \in Run, CompleteController(r)
      PROVE  StagesOwn'
  BY <1>2 DEF CompleteController, StagesOwn, ClaimInv, TypeOK, At, Goto, Continue, Return, files, locals, LockPoints, Closing, Published, Receipts, Receipt
<1>3. ASSUME NEW r \in Run, RetirePending(r)
      PROVE  StagesOwn'
  BY <1>3 DEF RetirePending, PendingBaseline, RunAbsent, PublishRetirement, StagesOwn, ClaimInv, TypeOK, At, Goto, Continue, Return, files, locals, LockPoints, Closing, Published, Receipts, Receipt
<1>4. ASSUME NEW p \in Process, NEW r \in Run, Initialize(p, r)
      PROVE  StagesOwn'
  BY <1>4 DEF Initialize, StagesOwn, ClaimInv, TypeOK, At, Goto, Continue, Return, files, locals, LockPoints, Closing, Published, Receipts, Receipt
<1>5. ASSUME NEW p \in Process, NEW r \in Run, AdmitV2Run(p, r)
      PROVE  StagesOwn'
  BY <1>5 DEF AdmitV2Run, StagesOwn, ClaimInv, TypeOK, At, Goto, Continue, Return, files, locals, LockPoints, Closing, Published, Receipts, Receipt
<1>6. ASSUME NEW p \in Process, NEW r \in Run, NEW k \in Kind, NEW t \in 1..clock, BeginClose(p, r, k, t)
      PROVE  StagesOwn'
  BY <1>6 DEF BeginClose, StagesOwn, ClaimInv, TypeOK, At, Goto, Continue, Return, files, locals, LockPoints, Closing, Published, Receipts, Receipt
<1>7. ASSUME NEW p \in Process, EnsureController(p)
      PROVE  StagesOwn'
  BY <1>7 DEF EnsureController, StagesOwn, ClaimInv, TypeOK, At, Goto, Continue, Return, files, locals, LockPoints, Closing, Published, Receipts, Receipt
<1>8. ASSUME NEW p \in Process, Admit(p)
      PROVE  StagesOwn'
  BY <1>8 DEF Admit, Finish, StagesOwn, ClaimInv, TypeOK, At, Goto, Continue, Return, files, locals, LockPoints, Closing, Published, Receipts, Receipt
<1>9. ASSUME NEW p \in Process, Stage(p)
      PROVE  StagesOwn'
  <2>1. p \in running /\ pc[p] = "stage" /\ run[p] \in Run
    BY <1>9 DEF Stage, At, ClaimInv, TypeOK
  <2>2. [run |-> run[p], complete |-> FALSE] # None
    <3>1. [run |-> run[p], complete |-> FALSE] \in [run : Run, complete : BOOLEAN]
      BY <2>1
    <3> QED
      BY <3>1
  <2>3. \A q \in Process \ {p} : pc'[q] = pc[q] /\ staging'[q] = staging[q]
    BY <1>9 DEF Stage, Continue, Return, Goto, ClaimInv, TypeOK
  <2>4. pc'[p] = "idle" \/ staging'[p] # None
    BY <1>9, <2>2 DEF Stage, Continue, Return, Goto, ClaimInv, TypeOK
  <2> QED
    BY <2>3, <2>4 DEF StagesOwn, ClaimInv
<1>10. ASSUME NEW p \in Process, PublishStaged(p)
      PROVE  StagesOwn'
  <2>1. p \in running /\ pc[p] = "publishStaged"
    BY <1>10 DEF PublishStaged, At
  <2>2. staging[p] \in [run : Run, complete : BOOLEAN]
    BY <2>1 DEF ClaimInv, TypeOK, StagesOwn
  <2>3. [staging[p] EXCEPT !.complete = TRUE] \in [run : Run, complete : BOOLEAN]
    BY <2>2
  <2>4. staging'[p] # None
    BY <1>10, <2>3 DEF PublishStaged, ClaimInv, TypeOK
  <2>5. \A q \in Process \ {p} : pc'[q] = pc[q] /\ staging'[q] = staging[q]
    BY <1>10 DEF PublishStaged, Continue, Goto, ClaimInv, TypeOK
  <2> QED
    BY <2>4, <2>5 DEF StagesOwn, ClaimInv
<1>11. ASSUME NEW p \in Process, RenameStaged(p)
      PROVE  StagesOwn'
  BY <1>11 DEF RenameStaged, StagesOwn, ClaimInv, TypeOK, At, Goto, Continue, Return, files, locals, LockPoints, Closing, Published, Receipts, Receipt
<1>12. ASSUME NEW p \in Process, IndexActive(p)
      PROVE  StagesOwn'
  BY <1>12 DEF IndexActive, Finish, StagesOwn, ClaimInv, TypeOK, At, Goto, Continue, Return, files, locals, LockPoints, Closing, Published, Receipts, Receipt
<1>13. ASSUME NEW p \in Process, Bind(p)
      PROVE  StagesOwn'
  BY <1>13 DEF Bind, StagesOwn, ClaimInv, TypeOK, At, Goto, Continue, Return, files, locals, LockPoints, Closing, Published, Receipts, Receipt
<1>14. ASSUME NEW p \in Process, CheckRecord(p)
      PROVE  StagesOwn'
  BY <1>14 DEF CheckRecord, NextRecord, StagesOwn, ClaimInv, TypeOK, At, Goto, Continue, Return, files, locals, LockPoints, Closing, Published, Receipts, Receipt
<1>15. ASSUME NEW p \in Process, WriteRecord(p)
      PROVE  StagesOwn'
  BY <1>15 DEF WriteRecord, NextRecord, StagesOwn, ClaimInv, TypeOK, At, Goto, Continue, Return, files, locals, LockPoints, Closing, Published, Receipts, Receipt
<1>16. ASSUME NEW p \in Process, Archive(p)
      PROVE  StagesOwn'
  BY <1>16 DEF Archive, StagesOwn, ClaimInv, TypeOK, At, Goto, Continue, Return, files, locals, LockPoints, Closing, Published, Receipts, Receipt
<1>17. ASSUME NEW p \in Process, Move(p)
      PROVE  StagesOwn'
  BY <1>17 DEF Move, StagesOwn, ClaimInv, TypeOK, At, Goto, Continue, Return, files, locals, LockPoints, Closing, Published, Receipts, Receipt
<1>18. ASSUME NEW p \in Process, IndexArchived(p)
      PROVE  StagesOwn'
  BY <1>18 DEF IndexArchived, StagesOwn, ClaimInv, TypeOK, At, Goto, Continue, Return, files, locals, LockPoints, Closing, Published, Receipts, Receipt
<1>19. ASSUME NEW p \in Process, IoFailure(p)
      PROVE  StagesOwn'
  BY <1>19 DEF IoFailure, StagesOwn, ClaimInv, TypeOK, At, Goto, Continue, Return, files, locals, LockPoints, Closing, Published, Receipts, Receipt
<1>20. ASSUME NEW p \in Process, End(p)
      PROVE  StagesOwn'
  BY <1>20 DEF End, StagesOwn, ClaimInv, TypeOK, At, Goto, Continue, Return, files, locals, LockPoints, Closing, Published, Receipts, Receipt
<1>21. CASE UNCHANGED vars
  BY <1>21 DEF vars, StagesOwn, ClaimInv, TypeOK, At, Goto, Continue, Return, files, locals, LockPoints, Closing, Published, Receipts, Receipt
<1> QED
  BY <1>1, <1>2, <1>3, <1>4, <1>5, <1>6, <1>7, <1>8, <1>9, <1>10, <1>11,
     <1>12, <1>13, <1>14, <1>15, <1>16, <1>17, <1>18, <1>19, <1>20, <1>21
     DEF Next, Step, InitializeAny, AdmitAny, Close

LEMMA StagesAloneStep ==
    ASSUME ClaimInv, [Next]_vars PROVE StagesAlone'
<1>1. ASSUME Tick
      PROVE  StagesAlone'
  BY <1>1 DEF Tick, StagesAlone, ClaimInv, TypeOK, HoldsLock, Admitted, At, Goto, Continue, Return, files, locals, LockPoints, Closing, Published, Receipts, Receipt
<1>2. ASSUME NEW r \in Run, CompleteController(r)
      PROVE  StagesAlone'
  BY <1>2 DEF CompleteController, StagesAlone, ClaimInv, TypeOK, HoldsLock, Admitted, At, Goto, Continue, Return, files, locals, LockPoints, Closing, Published, Receipts, Receipt
<1>3. ASSUME NEW r \in Run, RetirePending(r)
      PROVE  StagesAlone'
  BY <1>3 DEF RetirePending, PendingBaseline, RunAbsent, PublishRetirement, StagesAlone, ClaimInv, TypeOK, HoldsLock, Admitted, At, Goto, Continue, Return, files, locals, LockPoints, Closing, Published, Receipts, Receipt
<1>4. ASSUME NEW p \in Process, NEW r \in Run, Initialize(p, r)
      PROVE  StagesAlone'
  BY <1>4 DEF Initialize, StagesAlone, ClaimInv, TypeOK, HoldsLock, Admitted, At, Goto, Continue, Return, files, locals, LockPoints, Closing, Published, Receipts, Receipt
<1>5. ASSUME NEW p \in Process, NEW r \in Run, AdmitV2Run(p, r)
      PROVE  StagesAlone'
  BY <1>5 DEF AdmitV2Run, StagesAlone, ClaimInv, TypeOK, HoldsLock, Admitted, At, Goto, Continue, Return, files, locals, LockPoints, Closing, Published, Receipts, Receipt
<1>6. ASSUME NEW p \in Process, NEW r \in Run, NEW k \in Kind, NEW t \in 1..clock, BeginClose(p, r, k, t)
      PROVE  StagesAlone'
  BY <1>6 DEF BeginClose, StagesAlone, ClaimInv, TypeOK, HoldsLock, Admitted, At, Goto, Continue, Return, files, locals, LockPoints, Closing, Published, Receipts, Receipt
<1>7. ASSUME NEW p \in Process, EnsureController(p)
      PROVE  StagesAlone'
  BY <1>7 DEF EnsureController, StagesAlone, ClaimInv, TypeOK, HoldsLock, Admitted, At, Goto, Continue, Return, files, locals, LockPoints, Closing, Published, Receipts, Receipt
<1>8. ASSUME NEW p \in Process, Admit(p)
      PROVE  StagesAlone'
  BY <1>8 DEF Admit, Finish, NothingActive, ActiveDirs, StagesAlone, ClaimInv, TypeOK, HoldsLock, Admitted, At, Goto, Continue, Return, files, locals, LockPoints, Closing, Published, Receipts, Receipt
<1>9. ASSUME NEW p \in Process, Stage(p)
      PROVE  StagesAlone'
  BY <1>9 DEF Stage, StagesAlone, ClaimInv, TypeOK, HoldsLock, Admitted, At, Goto, Continue, Return, files, locals, LockPoints, Closing, Published, Receipts, Receipt
<1>10. ASSUME NEW p \in Process, PublishStaged(p)
      PROVE  StagesAlone'
  BY <1>10 DEF PublishStaged, StagesAlone, ClaimInv, TypeOK, HoldsLock, Admitted, At, Goto, Continue, Return, files, locals, LockPoints, Closing, Published, Receipts, Receipt
<1>11. ASSUME NEW p \in Process, RenameStaged(p)
      PROVE  StagesAlone'
  BY <1>11 DEF RenameStaged, StagesAlone, ClaimInv, TypeOK, HoldsLock, Admitted, At, Goto, Continue, Return, files, locals, LockPoints, Closing, Published, Receipts, Receipt
<1>12. ASSUME NEW p \in Process, IndexActive(p)
      PROVE  StagesAlone'
  BY <1>12 DEF IndexActive, Finish, StagesAlone, ClaimInv, TypeOK, HoldsLock, Admitted, At, Goto, Continue, Return, files, locals, LockPoints, Closing, Published, Receipts, Receipt
<1>13. ASSUME NEW p \in Process, Bind(p)
      PROVE  StagesAlone'
  BY <1>13 DEF Bind, StagesAlone, ClaimInv, TypeOK, HoldsLock, Admitted, At, Goto, Continue, Return, files, locals, LockPoints, Closing, Published, Receipts, Receipt
<1>14. ASSUME NEW p \in Process, CheckRecord(p)
      PROVE  StagesAlone'
  <2>1. TypeOK /\ StagesAlone
    BY DEF ClaimInv
  <2>2. \A r \in Run : Admitted(r)' <=> Admitted(r)
    BY <1>14, <2>1, ClosingKeepsAdmissions
  <2>3. \A q \in Process : pc'[q] \in {"stage", "publishStaged", "renameStaged"} => pc'[q] = pc[q]
    BY <1>14, <2>1 DEF TypeOK, CheckRecord, NextRecord, Continue, Return, Goto
  <2> QED
    BY <2>1, <2>2, <2>3 DEF StagesAlone
<1>15. ASSUME NEW p \in Process, WriteRecord(p)
      PROVE  StagesAlone'
  <2>1. TypeOK /\ StagesAlone
    BY DEF ClaimInv
  <2>2. \A r \in Run : Admitted(r)' <=> Admitted(r)
    BY <1>15, <2>1, ClosingKeepsAdmissions
  <2>3. \A q \in Process : pc'[q] \in {"stage", "publishStaged", "renameStaged"} => pc'[q] = pc[q]
    BY <1>15, <2>1 DEF TypeOK, WriteRecord, NextRecord, Continue, Return, Goto
  <2> QED
    BY <2>1, <2>2, <2>3 DEF StagesAlone
<1>16. ASSUME NEW p \in Process, Archive(p)
      PROVE  StagesAlone'
  <2>1. TypeOK /\ StagesAlone
    BY DEF ClaimInv
  <2>2. \A r \in Run : Admitted(r)' <=> Admitted(r)
    BY <1>16, <2>1, ClosingKeepsAdmissions
  <2>3. \A q \in Process : pc'[q] \in {"stage", "publishStaged", "renameStaged"} => pc'[q] = pc[q]
    BY <1>16, <2>1 DEF TypeOK, Archive, Continue, Return, Goto
  <2> QED
    BY <2>1, <2>2, <2>3 DEF StagesAlone
<1>17. ASSUME NEW p \in Process, Move(p)
      PROVE  StagesAlone'
  BY <1>17 DEF Move, StagesAlone, ClaimInv, TypeOK, HoldsLock, Admitted, At, Goto, Continue, Return, files, locals, LockPoints, Closing, Published, Receipts, Receipt
<1>18. ASSUME NEW p \in Process, IndexArchived(p)
      PROVE  StagesAlone'
  BY <1>18 DEF IndexArchived, StagesAlone, ClaimInv, TypeOK, HoldsLock, Admitted, At, Goto, Continue, Return, files, locals, LockPoints, Closing, Published, Receipts, Receipt
<1>19. ASSUME NEW p \in Process, IoFailure(p)
      PROVE  StagesAlone'
  BY <1>19 DEF IoFailure, StagesAlone, ClaimInv, TypeOK, HoldsLock, Admitted, At, Goto, Continue, Return, files, locals, LockPoints, Closing, Published, Receipts, Receipt
<1>20. ASSUME NEW p \in Process, End(p)
      PROVE  StagesAlone'
  BY <1>20 DEF End, StagesAlone, ClaimInv, TypeOK, HoldsLock, Admitted, At, Goto, Continue, Return, files, locals, LockPoints, Closing, Published, Receipts, Receipt
<1>21. CASE UNCHANGED vars
  BY <1>21 DEF vars, StagesAlone, ClaimInv, TypeOK, HoldsLock, Admitted, At, Goto, Continue, Return, files, locals, LockPoints, Closing, Published, Receipts, Receipt
<1> QED
  BY <1>1, <1>2, <1>3, <1>4, <1>5, <1>6, <1>7, <1>8, <1>9, <1>10, <1>11,
     <1>12, <1>13, <1>14, <1>15, <1>16, <1>17, <1>18, <1>19, <1>20, <1>21
     DEF Next, Step, InitializeAny, AdmitAny, Close

LEMMA OneActiveRunStep ==
    ASSUME ClaimInv, [Next]_vars PROVE OneActiveRun'
<1>1. ASSUME Tick
      PROVE  OneActiveRun'
  BY <1>1 DEF Tick, OneActiveRun, ClaimInv, TypeOK, Admitted, At, Goto, Continue, Return, files, locals, LockPoints, Closing, Published, Receipts, Receipt
<1>2. ASSUME NEW r \in Run, CompleteController(r)
      PROVE  OneActiveRun'
  BY <1>2 DEF CompleteController, OneActiveRun, ClaimInv, TypeOK, Admitted, At, Goto, Continue, Return, files, locals, LockPoints, Closing, Published, Receipts, Receipt
<1>3. ASSUME NEW r \in Run, RetirePending(r)
      PROVE  OneActiveRun'
  BY <1>3 DEF RetirePending, PendingBaseline, RunAbsent, PublishRetirement, OneActiveRun, ClaimInv, TypeOK, Admitted, At, Goto, Continue, Return, files, locals, LockPoints, Closing, Published, Receipts, Receipt
<1>4. ASSUME NEW p \in Process, NEW r \in Run, Initialize(p, r)
      PROVE  OneActiveRun'
  BY <1>4 DEF Initialize, OneActiveRun, ClaimInv, TypeOK, Admitted, At, Goto, Continue, Return, files, locals, LockPoints, Closing, Published, Receipts, Receipt
<1>5. ASSUME NEW p \in Process, NEW r \in Run, AdmitV2Run(p, r)
      PROVE  OneActiveRun'
  BY <1>5 DEF AdmitV2Run, OneActiveRun, ClaimInv, TypeOK, Admitted, At, Goto, Continue, Return, files, locals, LockPoints, Closing, Published, Receipts, Receipt
<1>6. ASSUME NEW p \in Process, NEW r \in Run, NEW k \in Kind, NEW t \in 1..clock, BeginClose(p, r, k, t)
      PROVE  OneActiveRun'
  BY <1>6 DEF BeginClose, OneActiveRun, ClaimInv, TypeOK, Admitted, At, Goto, Continue, Return, files, locals, LockPoints, Closing, Published, Receipts, Receipt
<1>7. ASSUME NEW p \in Process, EnsureController(p)
      PROVE  OneActiveRun'
  BY <1>7 DEF EnsureController, OneActiveRun, ClaimInv, TypeOK, Admitted, At, Goto, Continue, Return, files, locals, LockPoints, Closing, Published, Receipts, Receipt
<1>8. ASSUME NEW p \in Process, Admit(p)
      PROVE  OneActiveRun'
  BY <1>8 DEF Admit, Finish, OneActiveRun, ClaimInv, TypeOK, Admitted, At, Goto, Continue, Return, files, locals, LockPoints, Closing, Published, Receipts, Receipt
<1>9. ASSUME NEW p \in Process, Stage(p)
      PROVE  OneActiveRun'
  BY <1>9 DEF Stage, OneActiveRun, ClaimInv, TypeOK, Admitted, At, Goto, Continue, Return, files, locals, LockPoints, Closing, Published, Receipts, Receipt
<1>10. ASSUME NEW p \in Process, PublishStaged(p)
      PROVE  OneActiveRun'
  BY <1>10 DEF PublishStaged, OneActiveRun, ClaimInv, TypeOK, Admitted, At, Goto, Continue, Return, files, locals, LockPoints, Closing, Published, Receipts, Receipt
<1>11. ASSUME NEW p \in Process, RenameStaged(p)
      PROVE  OneActiveRun'
  BY <1>11 DEF RenameStaged, StagesAlone, OneActiveRun, ClaimInv, TypeOK, Admitted, At, Goto, Continue, Return, files, locals, LockPoints, Closing, Published, Receipts, Receipt
<1>12. ASSUME NEW p \in Process, IndexActive(p)
      PROVE  OneActiveRun'
  BY <1>12 DEF IndexActive, Finish, OneActiveRun, ClaimInv, TypeOK, Admitted, At, Goto, Continue, Return, files, locals, LockPoints, Closing, Published, Receipts, Receipt
<1>13. ASSUME NEW p \in Process, Bind(p)
      PROVE  OneActiveRun'
  BY <1>13 DEF Bind, OneActiveRun, ClaimInv, TypeOK, Admitted, At, Goto, Continue, Return, files, locals, LockPoints, Closing, Published, Receipts, Receipt
<1>14. ASSUME NEW p \in Process, CheckRecord(p)
      PROVE  OneActiveRun'
  BY <1>14, ClosingKeepsAdmissions DEF ClaimInv, OneActiveRun
<1>15. ASSUME NEW p \in Process, WriteRecord(p)
      PROVE  OneActiveRun'
  BY <1>15, ClosingKeepsAdmissions DEF ClaimInv, OneActiveRun
<1>16. ASSUME NEW p \in Process, Archive(p)
      PROVE  OneActiveRun'
  BY <1>16, ClosingKeepsAdmissions DEF ClaimInv, OneActiveRun
<1>17. ASSUME NEW p \in Process, Move(p)
      PROVE  OneActiveRun'
  BY <1>17 DEF Move, OneActiveRun, ClaimInv, TypeOK, Admitted, At, Goto, Continue, Return, files, locals, LockPoints, Closing, Published, Receipts, Receipt
<1>18. ASSUME NEW p \in Process, IndexArchived(p)
      PROVE  OneActiveRun'
  BY <1>18 DEF IndexArchived, OneActiveRun, ClaimInv, TypeOK, Admitted, At, Goto, Continue, Return, files, locals, LockPoints, Closing, Published, Receipts, Receipt
<1>19. ASSUME NEW p \in Process, IoFailure(p)
      PROVE  OneActiveRun'
  BY <1>19 DEF IoFailure, OneActiveRun, ClaimInv, TypeOK, Admitted, At, Goto, Continue, Return, files, locals, LockPoints, Closing, Published, Receipts, Receipt
<1>20. ASSUME NEW p \in Process, End(p)
      PROVE  OneActiveRun'
  BY <1>20 DEF End, OneActiveRun, ClaimInv, TypeOK, Admitted, At, Goto, Continue, Return, files, locals, LockPoints, Closing, Published, Receipts, Receipt
<1>21. CASE UNCHANGED vars
  BY <1>21 DEF vars, OneActiveRun, ClaimInv, TypeOK, Admitted, At, Goto, Continue, Return, files, locals, LockPoints, Closing, Published, Receipts, Receipt
<1> QED
  BY <1>1, <1>2, <1>3, <1>4, <1>5, <1>6, <1>7, <1>8, <1>9, <1>10, <1>11,
     <1>12, <1>13, <1>14, <1>15, <1>16, <1>17, <1>18, <1>19, <1>20, <1>21
     DEF Next, Step, InitializeAny, AdmitAny, Close

LEMMA ClaimStep == ASSUME ClaimInv, [Next]_vars PROVE ClaimInv'
<1>1. TypeOK'
  BY TypeStep DEF ClaimInv
<1> QED
  BY <1>1, HoldsLockStep, StagesOwnStep, StagesAloneStep, OneActiveRunStep DEF ClaimInv

LEMMA InitClaim == Init => ClaimInv
<1> SUFFICES ASSUME Init PROVE ClaimInv
  OBVIOUS
<1>1. TypeOK
  BY InitTyped
<1>2. HoldsLock /\ StagesOwn /\ StagesAlone
  BY DEF Init, HoldsLock, StagesOwn, StagesAlone, LockPoints
<1>3. OneActiveRun
  BY DEF Init, OneActiveRun, Admitted
<1> QED
  BY <1>1, <1>2, <1>3 DEF ClaimInv

(***************************************************************************)
(* Type correctness: every directory holds records that the commands       *)
(* write, and every command is at a point where it has what it needs.      *)
(***************************************************************************)
THEOREM TypeCorrect == Spec => []TypeOK
<1>1. Init => ClaimInv
  BY InitClaim
<1>2. ClaimInv /\ [Next]_vars => ClaimInv'
  BY ClaimStep
<1>3. ClaimInv => TypeOK
  BY DEF ClaimInv
<1> QED
  BY <1>1, <1>2, <1>3, PTL DEF Spec

(***************************************************************************)
(* At most one run of a repository is active: for any number of processes  *)
(* and runs, whatever the discipline of the operators, wherever processes  *)
(* die and calls fail.                                                     *)
(***************************************************************************)
THEOREM OneActiveRunCorrect == Spec => []OneActiveRun
<1>1. Init => ClaimInv
  BY InitClaim
<1>2. ClaimInv /\ [Next]_vars => ClaimInv'
  BY ClaimStep
<1>3. ClaimInv => OneActiveRun
  BY DEF ClaimInv
<1> QED
  BY <1>1, <1>2, <1>3, PTL DEF Spec

-----------------------------------------------------------------------------
\* A bound controller has its run.

\* A directory in active/ stays there until it is moved away.
LEMMA DirectoryStays ==
    ASSUME TypeOK, [Next]_vars, NEW r \in Run, active[r] # None,
           \A p \in Process : ~Move(p)
    PROVE  active'[r] # None
<1>1. active \in [Run -> Bundle \cup {None}]
  BY DEF TypeOK
<1>2. ASSUME NEW q \in Run, NEW dir \in Bundle, active' = [active EXCEPT ![q] = dir]
      PROVE  active'[r] # None
  BY <1>1, <1>2, NoneIsNew
<1>3. ASSUME NEW p \in Process, CheckRecord(p) PROVE active'[r] # None
  <2>1. run[p] \in Run
    BY <1>3 DEF CheckRecord, At, TypeOK
  <2>2. active' = [active EXCEPT ![run[p]] =
                      IF active[run[p]] = None THEN EmptyDir ELSE active[run[p]]]
    BY <1>3 DEF CheckRecord
  <2> QED
    BY <1>1, <2>1, <2>2, EmptyDirTyped, NoneIsNew
<1>4. ASSUME NEW p \in Process, WriteRecord(p) \/ Archive(p) PROVE active'[r] # None
  <2>1. CASE UNCHANGED active
    BY <2>1
  <2>2. ASSUME NEW n \in Name, NEW c \in Content, run[p] \in Run, active[run[p]] # None,
               active' = [active EXCEPT ![run[p]][n] = c]
        PROVE  active'[r] # None
    <3>1. active'[run[p]] \in Bundle
      BY <2>2, RecordWritten, TypeParts
    <3>2. r # run[p] => active'[r] = active[r]
      BY <1>1, <2>2
    <3> QED
      BY <3>1, <3>2, NoneIsNew
  <2> QED
    BY <1>4, <2>1, <2>2, RecordStep
<1>5. ASSUME NEW p \in Process, RenameStaged(p) PROVE active'[r] # None
  <2>1. run[p] \in Run
    BY <1>5 DEF RenameStaged, At, TypeOK
  <2> QED
    BY <1>2, <1>5, <2>1, EmptyDirTyped DEF RenameStaged
<1>6. ASSUME NEW p \in Process,
             EnsureController(p) \/ Admit(p) \/ Stage(p) \/ PublishStaged(p)
             \/ IndexActive(p) \/ Bind(p) \/ IndexArchived(p) \/ IoFailure(p) \/ End(p)
      PROVE  UNCHANGED active
  BY <1>6 DEF EnsureController, Admit, Stage, PublishStaged, IndexActive, Bind,
              IndexArchived, IoFailure, End, files
<1>7. ASSUME NEW p \in Process, InitializeAny(p) \/ AdmitAny(p) \/ \E k \in Kind : Close(p, k)
      PROVE  UNCHANGED active
  BY <1>7 DEF InitializeAny, AdmitAny, Close, Initialize, AdmitV2Run, BeginClose, files
<1>8. ASSUME Tick \/ \E q \in Run : CompleteController(q) \/ RetirePending(q)
      PROVE  UNCHANGED active
  BY <1>8 DEF Tick, CompleteController, RetirePending, PendingBaseline, RunAbsent, PublishRetirement, files
<1>9. CASE UNCHANGED vars
  BY <1>9 DEF vars, files
<1> QED
  BY <1>3, <1>4, <1>5, <1>6, <1>7, <1>8, <1>9 DEF Next, Step

\* A run leaves active/ for the archive, and the archive for nothing.
LEMMA RunStays ==
    ASSUME TypeOK, MovesRun, [Next]_vars, NEW r \in Run, HasRun(r)
    PROVE  HasRun(r)'
<1>1. active \in [Run -> Bundle \cup {None}] /\ archive \in [Day -> [Run -> Bundle \cup {None}]]
  BY DEF TypeOK
<1>2. CASE UNCHANGED <<active, archive>>
  BY <1>2 DEF HasRun, Admitted, Archived
<1>3. ASSUME NEW p \in Process, CheckRecord(p) \/ WriteRecord(p) \/ Archive(p)
      PROVE  HasRun(r)'
  <2>1. UNCHANGED archive
    BY <1>3 DEF CheckRecord, WriteRecord, Archive
  <2> QED
    BY <1>3, <2>1, ClosingKeepsAdmissions DEF HasRun, Archived
<1>4. ASSUME NEW p \in Process, RenameStaged(p) PROVE HasRun(r)'
  <2>1. /\ run[p] \in Run /\ UNCHANGED archive
        /\ \/ UNCHANGED active
           \/ active[run[p]] \in {None, EmptyDir}
              /\ active' = [active EXCEPT ![run[p]] = Admission]
    BY <1>4 DEF RenameStaged, At, TypeOK
  <2>2. EmptyDir["admission"] = None
    BY DEF EmptyDir, Name
  <2>3. r # run[p] \/ UNCHANGED active => (Admitted(r)' <=> Admitted(r))
    BY <1>1, <2>1 DEF Admitted
  <2>4. r = run[p] => UNCHANGED active \/ ~Admitted(r)
    BY <2>1, <2>2 DEF Admitted
  <2> QED
    BY <2>1, <2>3, <2>4 DEF HasRun, Archived
<1>5. ASSUME NEW p \in Process, Move(p) PROVE HasRun(r)'
  <2>1. /\ run[p] \in Run /\ now[p] \in Day /\ active[run[p]] # None
        /\ archive' = [archive EXCEPT ![now[p]][run[p]] = active[run[p]]]
        /\ active' = [active EXCEPT ![run[p]] = None]
    BY <1>5 DEF Move, At, TypeOK, MovesRun
  <2>2. ASSUME NEW d \in Day, archive[d][r] # None PROVE archive'[d][r] # None
    BY <1>1, <2>1, <2>2
  <2>3. r = run[p] => archive'[now[p]][r] # None
    BY <1>1, <2>1
  <2>4. r # run[p] => (Admitted(r)' <=> Admitted(r))
    BY <1>1, <2>1 DEF Admitted
  <2> QED
    BY <2>1, <2>2, <2>3, <2>4 DEF HasRun, Archived
<1>6. ASSUME NEW p \in Process,
             EnsureController(p) \/ Admit(p) \/ Stage(p) \/ PublishStaged(p)
             \/ IndexActive(p) \/ Bind(p) \/ IndexArchived(p) \/ IoFailure(p) \/ End(p)
      PROVE  UNCHANGED <<active, archive>>
  BY <1>6 DEF EnsureController, Admit, Stage, PublishStaged, IndexActive, Bind,
              IndexArchived, IoFailure, End, files
<1>7. ASSUME NEW p \in Process, InitializeAny(p) \/ AdmitAny(p) \/ \E k \in Kind : Close(p, k)
      PROVE  UNCHANGED <<active, archive>>
  BY <1>7 DEF InitializeAny, AdmitAny, Close, Initialize, AdmitV2Run, BeginClose, files
<1>8. ASSUME Tick \/ \E q \in Run : CompleteController(q) \/ RetirePending(q)
      PROVE  UNCHANGED <<active, archive>>
  BY <1>8 DEF Tick, CompleteController, RetirePending, PendingBaseline, RunAbsent, PublishRetirement, files
<1>9. CASE UNCHANGED vars
  BY <1>2, <1>9 DEF vars, files
<1> QED
  BY <1>2, <1>3, <1>4, <1>5, <1>6, <1>7, <1>8, <1>9 DEF Next, Step

LEMMA StagesLiveStep ==
    ASSUME BoundInv, [Next]_vars PROVE StagesLive'
<1>1. ASSUME Tick
      PROVE  StagesLive'
  BY <1>1 DEF Tick, StagesLive, BoundInv, ClaimInv, TypeOK, At, Goto, Continue, Return, files, locals, LockPoints, Closing, Published, Receipts, Receipt
<1>2. ASSUME NEW r \in Run, CompleteController(r)
      PROVE  StagesLive'
  BY <1>2 DEF CompleteController, StagesLive, BoundInv, ClaimInv, TypeOK, At, Goto, Continue, Return, files, locals, LockPoints, Closing, Published, Receipts, Receipt
<1>3. ASSUME NEW r \in Run, RetirePending(r)
      PROVE  StagesLive'
  BY <1>3 DEF RetirePending, PendingBaseline, RunAbsent, PublishRetirement, StagesLive, BoundInv, ClaimInv, TypeOK, At, Goto, Continue, Return, files, locals, LockPoints, Closing, Published, Receipts, Receipt
<1>4. ASSUME NEW p \in Process, NEW r \in Run, Initialize(p, r)
      PROVE  StagesLive'
  BY <1>4 DEF Initialize, StagesLive, BoundInv, ClaimInv, TypeOK, At, Goto, Continue, Return, files, locals, LockPoints, Closing, Published, Receipts, Receipt
<1>5. ASSUME NEW p \in Process, NEW r \in Run, AdmitV2Run(p, r)
      PROVE  StagesLive'
  BY <1>5 DEF AdmitV2Run, StagesLive, BoundInv, ClaimInv, TypeOK, At, Goto, Continue, Return, files, locals, LockPoints, Closing, Published, Receipts, Receipt
<1>6. ASSUME NEW p \in Process, NEW r \in Run, NEW k \in Kind, NEW t \in 1..clock, BeginClose(p, r, k, t)
      PROVE  StagesLive'
  BY <1>6 DEF BeginClose, StagesLive, BoundInv, ClaimInv, TypeOK, At, Goto, Continue, Return, files, locals, LockPoints, Closing, Published, Receipts, Receipt
<1>7. ASSUME NEW p \in Process, EnsureController(p)
      PROVE  StagesLive'
  BY <1>7 DEF EnsureController, StagesLive, BoundInv, ClaimInv, TypeOK, At, Goto, Continue, Return, files, locals, LockPoints, Closing, Published, Receipts, Receipt
<1>8. ASSUME NEW p \in Process, Admit(p)
      PROVE  StagesLive'
  BY <1>8 DEF Admit, Finish, StagesLive, BoundInv, ClaimInv, TypeOK, At, Goto, Continue, Return, files, locals, LockPoints, Closing, Published, Receipts, Receipt
<1>9. ASSUME NEW p \in Process, Stage(p)
      PROVE  StagesLive'
  BY <1>9 DEF Stage, StagesLive, BoundInv, ClaimInv, TypeOK, At, Goto, Continue, Return, files, locals, LockPoints, Closing, Published, Receipts, Receipt
<1>10. ASSUME NEW p \in Process, PublishStaged(p)
      PROVE  StagesLive'
  BY <1>10 DEF PublishStaged, StagesLive, BoundInv, ClaimInv, TypeOK, At, Goto, Continue, Return, files, locals, LockPoints, Closing, Published, Receipts, Receipt
<1>11. ASSUME NEW p \in Process, RenameStaged(p)
      PROVE  StagesLive'
  BY <1>11 DEF RenameStaged, StagesLive, BoundInv, ClaimInv, TypeOK, At, Goto, Continue, Return, files, locals, LockPoints, Closing, Published, Receipts, Receipt
<1>12. ASSUME NEW p \in Process, IndexActive(p)
      PROVE  StagesLive'
  BY <1>12 DEF IndexActive, Finish, StagesLive, BoundInv, ClaimInv, TypeOK, At, Goto, Continue, Return, files, locals, LockPoints, Closing, Published, Receipts, Receipt
<1>13. ASSUME NEW p \in Process, Bind(p)
      PROVE  StagesLive'
  BY <1>13 DEF Bind, StagesLive, BoundInv, ClaimInv, TypeOK, At, Goto, Continue, Return, files, locals, LockPoints, Closing, Published, Receipts, Receipt
<1>14. ASSUME NEW p \in Process, CheckRecord(p)
      PROVE  StagesLive'
  BY <1>14 DEF CheckRecord, NextRecord, StagesLive, BoundInv, ClaimInv, TypeOK, At, Goto, Continue, Return, files, locals, LockPoints, Closing, Published, Receipts, Receipt
<1>15. ASSUME NEW p \in Process, WriteRecord(p)
      PROVE  StagesLive'
  BY <1>15 DEF WriteRecord, NextRecord, StagesLive, BoundInv, ClaimInv, TypeOK, At, Goto, Continue, Return, files, locals, LockPoints, Closing, Published, Receipts, Receipt
<1>16. ASSUME NEW p \in Process, Archive(p)
      PROVE  StagesLive'
  BY <1>16 DEF Archive, StagesLive, BoundInv, ClaimInv, TypeOK, At, Goto, Continue, Return, files, locals, LockPoints, Closing, Published, Receipts, Receipt
<1>17. ASSUME NEW p \in Process, Move(p)
      PROVE  StagesLive'
  BY <1>17 DEF Move, StagesLive, BoundInv, ClaimInv, TypeOK, At, Goto, Continue, Return, files, locals, LockPoints, Closing, Published, Receipts, Receipt
<1>18. ASSUME NEW p \in Process, IndexArchived(p)
      PROVE  StagesLive'
  BY <1>18 DEF IndexArchived, StagesLive, BoundInv, ClaimInv, TypeOK, At, Goto, Continue, Return, files, locals, LockPoints, Closing, Published, Receipts, Receipt
<1>19. ASSUME NEW p \in Process, IoFailure(p)
      PROVE  StagesLive'
  BY <1>19 DEF IoFailure, StagesLive, BoundInv, ClaimInv, TypeOK, At, Goto, Continue, Return, files, locals, LockPoints, Closing, Published, Receipts, Receipt
<1>20. ASSUME NEW p \in Process, End(p)
      PROVE  StagesLive'
  BY <1>20 DEF End, StagesLive, BoundInv, ClaimInv, TypeOK, At, Goto, Continue, Return, files, locals, LockPoints, Closing, Published, Receipts, Receipt
<1>21. CASE UNCHANGED vars
  BY <1>21 DEF vars, StagesLive, BoundInv, ClaimInv, TypeOK, At, Goto, Continue, Return, files, locals, LockPoints, Closing, Published, Receipts, Receipt
<1> QED
  BY <1>1, <1>2, <1>3, <1>4, <1>5, <1>6, <1>7, <1>8, <1>9, <1>10, <1>11,
     <1>12, <1>13, <1>14, <1>15, <1>16, <1>17, <1>18, <1>19, <1>20, <1>21
     DEF Next, Step, InitializeAny, AdmitAny, Close

\* How a call comes to the points at which it relies on its run's directory.
Arrives(q) ==
    LET stays == pc'[q] = pc[q] /\ run'[q] = run[q] IN
    /\ pc'[q] = "move" => stays \/ Archive(q)
    /\ pc'[q] = "indexActive" => stays \/ RenameStaged(q)
    /\ pc'[q] = "bind" => stays \/ IndexActive(q) \/ Admit(q)

LEMMA ArrivesStep ==
    ASSUME TypeOK, [Next]_vars PROVE \A q \in Process : Arrives(q)
<1>1. ASSUME Tick
      PROVE  \A q \in Process : Arrives(q)
  BY <1>1 DEF Tick, Arrives, TypeOK, At, Goto, Continue, Return, files, locals, LockPoints, Closing, Published, Receipts, Receipt
<1>2. ASSUME NEW r \in Run, CompleteController(r)
      PROVE  \A q \in Process : Arrives(q)
  BY <1>2 DEF CompleteController, Arrives, TypeOK, At, Goto, Continue, Return, files, locals, LockPoints, Closing, Published, Receipts, Receipt
<1>3. ASSUME NEW r \in Run, RetirePending(r)
      PROVE  \A q \in Process : Arrives(q)
  BY <1>3 DEF RetirePending, PendingBaseline, RunAbsent, PublishRetirement, Arrives, TypeOK, At, Goto, Continue, Return, files, locals, LockPoints, Closing, Published, Receipts, Receipt
<1>4. ASSUME NEW p \in Process, NEW r \in Run, Initialize(p, r)
      PROVE  \A q \in Process : Arrives(q)
  BY <1>4 DEF Initialize, Arrives, TypeOK, At, Goto, Continue, Return, files, locals, LockPoints, Closing, Published, Receipts, Receipt
<1>5. ASSUME NEW p \in Process, NEW r \in Run, AdmitV2Run(p, r)
      PROVE  \A q \in Process : Arrives(q)
  BY <1>5 DEF AdmitV2Run, Arrives, TypeOK, At, Goto, Continue, Return, files, locals, LockPoints, Closing, Published, Receipts, Receipt
<1>6. ASSUME NEW p \in Process, NEW r \in Run, NEW k \in Kind, NEW t \in 1..clock, BeginClose(p, r, k, t)
      PROVE  \A q \in Process : Arrives(q)
  BY <1>6 DEF BeginClose, Arrives, TypeOK, At, Goto, Continue, Return, files, locals, LockPoints, Closing, Published, Receipts, Receipt
<1>7. ASSUME NEW p \in Process, EnsureController(p)
      PROVE  \A q \in Process : Arrives(q)
  BY <1>7 DEF EnsureController, Arrives, TypeOK, At, Goto, Continue, Return, files, locals, LockPoints, Closing, Published, Receipts, Receipt
<1>8. ASSUME NEW p \in Process, Admit(p)
      PROVE  \A q \in Process : Arrives(q)
  BY <1>8 DEF Admit, Finish, Arrives, TypeOK, At, Goto, Continue, Return, files, locals, LockPoints, Closing, Published, Receipts, Receipt
<1>9. ASSUME NEW p \in Process, Stage(p)
      PROVE  \A q \in Process : Arrives(q)
  BY <1>9 DEF Stage, Arrives, TypeOK, At, Goto, Continue, Return, files, locals, LockPoints, Closing, Published, Receipts, Receipt
<1>10. ASSUME NEW p \in Process, PublishStaged(p)
      PROVE  \A q \in Process : Arrives(q)
  BY <1>10 DEF PublishStaged, Arrives, TypeOK, At, Goto, Continue, Return, files, locals, LockPoints, Closing, Published, Receipts, Receipt
<1>11. ASSUME NEW p \in Process, RenameStaged(p)
      PROVE  \A q \in Process : Arrives(q)
  <2>1. \A q \in Process \ {p} : pc'[q] = pc[q] /\ run'[q] = run[q]
    BY <1>11 DEF TypeOK, RenameStaged, Continue, Return, Goto, locals
  <2>2. pc'[p] \in {"idle", "indexActive"}
    BY <1>11 DEF TypeOK, RenameStaged, At, Continue, Return, Goto
  <2> QED
    BY <1>11, <2>1, <2>2 DEF Arrives
<1>12. ASSUME NEW p \in Process, IndexActive(p)
      PROVE  \A q \in Process : Arrives(q)
  <2>1. \A q \in Process \ {p} : pc'[q] = pc[q] /\ run'[q] = run[q]
    BY <1>12 DEF TypeOK, IndexActive, Finish, Continue, Return, Goto, locals
  <2>2. pc'[p] \in {"idle", "bind"}
    BY <1>12 DEF TypeOK, IndexActive, Finish, At, Continue, Return, Goto
  <2> QED
    BY <1>12, <2>1, <2>2 DEF Arrives
<1>13. ASSUME NEW p \in Process, Bind(p)
      PROVE  \A q \in Process : Arrives(q)
  BY <1>13 DEF Bind, Arrives, TypeOK, At, Goto, Continue, Return, files, locals, LockPoints, Closing, Published, Receipts, Receipt
<1>14. ASSUME NEW p \in Process, CheckRecord(p)
      PROVE  \A q \in Process : Arrives(q)
  BY <1>14 DEF CheckRecord, NextRecord, Arrives, TypeOK, At, Goto, Continue, Return, files, locals, LockPoints, Closing, Published, Receipts, Receipt
<1>15. ASSUME NEW p \in Process, WriteRecord(p)
      PROVE  \A q \in Process : Arrives(q)
  BY <1>15 DEF WriteRecord, NextRecord, Arrives, TypeOK, At, Goto, Continue, Return, files, locals, LockPoints, Closing, Published, Receipts, Receipt
<1>16. ASSUME NEW p \in Process, Archive(p)
      PROVE  \A q \in Process : Arrives(q)
  BY <1>16 DEF Archive, Arrives, TypeOK, At, Goto, Continue, Return, files, locals, LockPoints, Closing, Published, Receipts, Receipt
<1>17. ASSUME NEW p \in Process, Move(p)
      PROVE  \A q \in Process : Arrives(q)
  BY <1>17 DEF Move, Arrives, TypeOK, At, Goto, Continue, Return, files, locals, LockPoints, Closing, Published, Receipts, Receipt
<1>18. ASSUME NEW p \in Process, IndexArchived(p)
      PROVE  \A q \in Process : Arrives(q)
  BY <1>18 DEF IndexArchived, Arrives, TypeOK, At, Goto, Continue, Return, files, locals, LockPoints, Closing, Published, Receipts, Receipt
<1>19. ASSUME NEW p \in Process, IoFailure(p)
      PROVE  \A q \in Process : Arrives(q)
  BY <1>19 DEF IoFailure, Arrives, TypeOK, At, Goto, Continue, Return, files, locals, LockPoints, Closing, Published, Receipts, Receipt
<1>20. ASSUME NEW p \in Process, End(p)
      PROVE  \A q \in Process : Arrives(q)
  BY <1>20 DEF End, Arrives, TypeOK, At, Goto, Continue, Return, files, locals, LockPoints, Closing, Published, Receipts, Receipt
<1>21. CASE UNCHANGED vars
  BY <1>21 DEF vars, Arrives, TypeOK, At, Goto, Continue, Return, files, locals, LockPoints, Closing, Published, Receipts, Receipt
<1> QED
  BY <1>1, <1>2, <1>3, <1>4, <1>5, <1>6, <1>7, <1>8, <1>9, <1>10, <1>11,
     <1>12, <1>13, <1>14, <1>15, <1>16, <1>17, <1>18, <1>19, <1>20, <1>21
     DEF Next, Step, InitializeAny, AdmitAny, Close

\* The call of a process is what it was when another process takes a step.
LEMMA MoveEndsCall ==
    ASSUME TypeOK, NEW p \in Process, NEW q \in Process, Move(p), pc'[q] = "move"
    PROVE  pc[q] = "move" /\ q # p
BY DEF TypeOK, Move, At, Continue, Goto

LEMMA MovesRunStep == ASSUME ClaimInv, MovesRun, [Next]_vars PROVE MovesRun'
<1> SUFFICES ASSUME NEW q \in Process, pc'[q] = "move" 
             PROVE  run'[q] \in Run /\ active'[run'[q]] # None
  BY DEF MovesRun
<1>1. TypeOK /\ HoldsLock /\ MovesRun /\ TypeOK'
  BY TypeStep DEF ClaimInv
<1>2. CASE pc[q] = "move" /\ run'[q] = run[q]
  <2>1. run[q] \in Run /\ active[run[q]] # None
    BY <1>1, <1>2 DEF MovesRun
  <2>2. ASSUME NEW p \in Process, Move(p) PROVE FALSE
    <3>1. pc[p] = "move" /\ q # p
      BY <1>1, <2>2, MoveEndsCall DEF Move, At
    <3> QED
      BY <1>1, <1>2, <3>1 DEF HoldsLock, LockPoints
  <2> QED
    BY <1>1, <1>2, <2>1, <2>2, DirectoryStays
<1>3. CASE Archive(q)
  <2>1. run[q] \in Run /\ run'[q] = run[q] /\ active[run[q]] # None
    BY <1>1, <1>3 DEF Archive, At, TypeOK, Return, Continue, Goto, locals
  <2>2. \A p \in Process : ~Move(p)
    BY <1>1, <1>3 DEF Archive, Move, At, Continue, Return, Goto, TypeOK, HoldsLock, LockPoints
  <2> QED
    BY <1>1, <2>1, <2>2, DirectoryStays
<1> QED
  BY <1>1, <1>2, <1>3, ArrivesStep DEF Arrives

\* What a process left staged stays: nobody else touches it.
LEMMA LeftStays ==
    ASSUME TypeOK, [Next]_vars, NEW r \in Run, LeftStaged(r) PROVE LeftStaged(r)'
<1>1. PICK p \in Process \ running : staging[p] = [run |-> r, complete |-> TRUE]
  BY DEF LeftStaged
<1>2. running' \subseteq running
  <2>1. ASSUME NEW q \in Process, InitializeAny(q) \/ AdmitAny(q) \/ (\E k \in Kind : Close(q, k)) \/ IoFailure(q) \/ End(q)
        PROVE  running' \subseteq running
    BY <2>1 DEF InitializeAny, AdmitAny, Close, Initialize, AdmitV2Run, BeginClose, IoFailure, End
  <2>2. ASSUME NEW q \in Process, Step(q) PROVE running' \subseteq running
    BY <2>2 DEF Step, EnsureController, Admit, Stage, PublishStaged, RenameStaged, IndexActive, Bind,
                CheckRecord, WriteRecord, Archive, Move, IndexArchived
  <2>3. ASSUME Tick \/ UNCHANGED vars \/ \E q \in Run : CompleteController(q) \/ RetirePending(q)
        PROVE  running' \subseteq running
    BY <2>3 DEF Tick, vars, CompleteController, RetirePending
  <2> QED BY <2>1, <2>2, <2>3 DEF Next
<1>3. staging'[p] = staging[p]
  <2>1. ASSUME NEW q \in Process, InitializeAny(q) \/ AdmitAny(q) \/ (\E k \in Kind : Close(q, k)) \/ End(q)
        PROVE  staging' = staging
    BY <2>1 DEF InitializeAny, AdmitAny, Close, Initialize, AdmitV2Run, BeginClose, End, files
  <2>2. ASSUME NEW q \in Process, \/ EnsureController(q) \/ Admit(q) \/ IndexActive(q) \/ Bind(q)
                                   \/ CheckRecord(q) \/ WriteRecord(q) \/ Archive(q) \/ Move(q)
                                   \/ IndexArchived(q)
        PROVE  staging' = staging
    BY <2>2 DEF EnsureController, Admit, IndexActive, Bind, CheckRecord, WriteRecord, Archive, Move,
                IndexArchived, files
  <2>3. ASSUME NEW q \in Process, Stage(q) \/ PublishStaged(q) \/ RenameStaged(q) \/ IoFailure(q)
        PROVE  staging'[p] = staging[p]
    <3>1. q \in running
      BY <2>3 DEF Stage, PublishStaged, RenameStaged, IoFailure, At
    <3> QED BY <1>1, <2>3, <3>1 DEF Stage, PublishStaged, RenameStaged, IoFailure, TypeOK
  <2>4. ASSUME Tick \/ UNCHANGED vars \/ \E q \in Run : CompleteController(q) \/ RetirePending(q)
        PROVE  staging' = staging
    BY <2>4 DEF Tick, vars, files, CompleteController, RetirePending
  <2> QED BY <2>1, <2>2, <2>3, <2>4 DEF Next, Step
<1> QED BY <1>1, <1>2, <1>3 DEF LeftStaged

\* A run that is there, or left whole, stays so.
LEMMA WholeStays ==
    ASSUME TypeOK, MovesRun, [Next]_vars, NEW r \in Run, HasRun(r) \/ LeftStaged(r)
    PROVE  HasRun(r)' \/ LeftStaged(r)'
BY RunStays, LeftStays

\* An admission under a free lock is resumed only where its run is active, or left
\* whole by a dead process.
LEMMA ResumeFindsRun ==
    ASSUME BoundInv, NEW p \in Process, Admit(p), pc'[p] = "bind"
    PROVE  run[p] \in Run /\ (HasRun(run[p]) \/ LeftStaged(run[p])) /\ run'[p] = run[p]
<1>1. TypeOK /\ HoldsLock /\ StagesLive
  BY DEF BoundInv, ClaimInv
<1>2. holder = None /\ ResumesActive(run[p]) /\ Finish(p)
  BY <1>1 DEF Admit, TypeOK, Return, Continue, Goto
<1>3. \A q \in running : staging[q] = None
  BY <1>1, <1>2, NoneIsNew DEF StagesLive, HoldsLock, LockPoints, TypeOK
<1>4. Admitted(run[p]) \/ LeftStaged(run[p])
  BY <1>2, <1>3 DEF ResumesActive, LeftStaged, StagedBy
<1>5. run'[p] = run[p]
  BY <1>1, <1>2 DEF Finish, Return, Continue, Goto, locals, TypeOK
<1>6. run[p] \in Run
  BY <1>1 DEF Admit, At, TypeOK
<1> QED
  BY <1>4, <1>5, <1>6 DEF HasRun

LEMMA AdmissionAdmits == Admission # None /\ Admission["admission"] # None
<1>1. <<"admission", 0>> \in Content /\ "admission" \in Name
  BY DEF Content, Name
<1>2. Admission["admission"] = <<"admission", 0>>
  BY <1>1 DEF Admission, EmptyDir
<1> QED
  BY <1>1, <1>2, EmptyDirTyped

LEMMA RenameAdmits ==
    ASSUME TypeOK, NEW p \in Process, RenameStaged(p), pc'[p] = "indexActive"
    PROVE  run[p] \in Run /\ run'[p] = run[p] /\ active'[run[p]] = Admission
<1>1. run[p] \in Run
  BY DEF RenameStaged, At, TypeOK
<1>2. active' = [active EXCEPT ![run[p]] = Admission] /\ run' = run
  BY DEF RenameStaged, TypeOK, Return, Continue, Goto, locals
<1> QED
  BY <1>1, <1>2 DEF TypeOK

LEMMA BindsToRunStep == ASSUME BoundInv, [Next]_vars PROVE BindsToRun'
<1> SUFFICES ASSUME NEW q \in Process, pc'[q] \in {"indexActive", "bind"}
             PROVE  \E r \in Run : r = run'[q] /\ (HasRun(r)' \/ LeftStaged(r)')
  <2> SUFFICES ASSUME NEW q \in Process, pc'[q] \in {"indexActive", "bind"}
               PROVE  run'[q] \in Run /\ (HasRun(run[q]) \/ LeftStaged(run[q]))'
    BY DEF BindsToRun
  <2>1. PICK r \in Run : r = run'[q] /\ (HasRun(r)' \/ LeftStaged(r)')
    OBVIOUS
  <2>2. CASE HasRun(r)'
    BY <2>1, <2>2 DEF HasRun, Admitted, Archived
  <2>3. CASE LeftStaged(r)'
    BY <2>1, <2>3 DEF LeftStaged
  <2> QED BY <2>1, <2>2, <2>3
<1>1. TypeOK /\ MovesRun /\ BindsToRun
  BY DEF BoundInv, ClaimInv
<1>2. ASSUME NEW r \in Run, r = run[q], HasRun(r) \/ LeftStaged(r), run'[q] = run[q]
      PROVE  r = run'[q] /\ (HasRun(r)' \/ LeftStaged(r)')
  BY <1>1, <1>2, WholeStays
<1>3. CASE pc[q] \in {"indexActive", "bind"} /\ run'[q] = run[q]
  BY <1>1, <1>2, <1>3 DEF BindsToRun
<1>4. CASE IndexActive(q)
  <2>1. pc[q] = "indexActive"
    BY <1>4 DEF IndexActive, At
  <2>2. run'[q] = run[q]
    BY <1>1, <1>4 DEF IndexActive, Finish, Return, Continue, Goto, locals, TypeOK
  <2> QED
    BY <1>3, <2>1, <2>2
<1>5. CASE Admit(q) /\ pc'[q] = "bind"
  BY <1>2, <1>5, ResumeFindsRun
<1>6. CASE RenameStaged(q) /\ pc'[q] = "indexActive"
  <2>1. PICK r \in Run : r = run[q]
    BY <1>6, <1>1, RenameAdmits
  <2>2. active'[r] = Admission /\ run'[q] = r
    BY <1>6, <1>1, <2>1, RenameAdmits
  <2> QED
    BY <2>2, AdmissionAdmits DEF HasRun, Admitted
<1> QED
  BY <1>3, <1>4, <1>5, <1>6, ArrivesStep, <1>1 DEF Arrives

\* A controller is bound by its run's initializer, and completed when bound.
BindsOnly(r) ==
    controller'[r] \in {"admitted", "done"} =>
        \/ controller[r] \in {"admitted", "done"}
        \/ \E p \in Process : Bind(p) /\ run[p] = r

LEMMA BindsOnlyStep ==
    ASSUME TypeOK, [Next]_vars PROVE (\A q \in Run : BindsOnly(q))
<1>1. ASSUME Tick
      PROVE  (\A q \in Run : BindsOnly(q))
  BY <1>1 DEF Tick, BindsOnly, TypeOK, At, Goto, Continue, Return, files, locals, LockPoints, Closing, Published, Receipts, Receipt
<1>2. ASSUME NEW r \in Run, CompleteController(r)
      PROVE  (\A q \in Run : BindsOnly(q))
  BY <1>2 DEF CompleteController, BindsOnly, TypeOK, At, Goto, Continue, Return, files, locals, LockPoints, Closing, Published, Receipts, Receipt
<1>3. ASSUME NEW r \in Run, RetirePending(r)
      PROVE  (\A q \in Run : BindsOnly(q))
  BY <1>3 DEF RetirePending, PendingBaseline, RunAbsent, PublishRetirement, BindsOnly, TypeOK, At, Goto, Continue, Return, files, locals, LockPoints, Closing, Published, Receipts, Receipt
<1>4. ASSUME NEW p \in Process, NEW r \in Run, Initialize(p, r)
      PROVE  (\A q \in Run : BindsOnly(q))
  BY <1>4 DEF Initialize, BindsOnly, TypeOK, At, Goto, Continue, Return, files, locals, LockPoints, Closing, Published, Receipts, Receipt
<1>5. ASSUME NEW p \in Process, NEW r \in Run, AdmitV2Run(p, r)
      PROVE  (\A q \in Run : BindsOnly(q))
  BY <1>5 DEF AdmitV2Run, BindsOnly, TypeOK, At, Goto, Continue, Return, files, locals, LockPoints, Closing, Published, Receipts, Receipt
<1>6. ASSUME NEW p \in Process, NEW r \in Run, NEW k \in Kind, NEW t \in 1..clock, BeginClose(p, r, k, t)
      PROVE  (\A q \in Run : BindsOnly(q))
  BY <1>6 DEF BeginClose, BindsOnly, TypeOK, At, Goto, Continue, Return, files, locals, LockPoints, Closing, Published, Receipts, Receipt
<1>7. ASSUME NEW p \in Process, EnsureController(p)
      PROVE  (\A q \in Run : BindsOnly(q))
  BY <1>7 DEF EnsureController, BindsOnly, TypeOK, At, Goto, Continue, Return, files, locals, LockPoints, Closing, Published, Receipts, Receipt
<1>8. ASSUME NEW p \in Process, Admit(p)
      PROVE  (\A q \in Run : BindsOnly(q))
  BY <1>8 DEF Admit, Finish, BindsOnly, TypeOK, At, Goto, Continue, Return, files, locals, LockPoints, Closing, Published, Receipts, Receipt
<1>9. ASSUME NEW p \in Process, Stage(p)
      PROVE  (\A q \in Run : BindsOnly(q))
  BY <1>9 DEF Stage, BindsOnly, TypeOK, At, Goto, Continue, Return, files, locals, LockPoints, Closing, Published, Receipts, Receipt
<1>10. ASSUME NEW p \in Process, PublishStaged(p)
      PROVE  (\A q \in Run : BindsOnly(q))
  BY <1>10 DEF PublishStaged, BindsOnly, TypeOK, At, Goto, Continue, Return, files, locals, LockPoints, Closing, Published, Receipts, Receipt
<1>11. ASSUME NEW p \in Process, RenameStaged(p)
      PROVE  (\A q \in Run : BindsOnly(q))
  BY <1>11 DEF RenameStaged, BindsOnly, TypeOK, At, Goto, Continue, Return, files, locals, LockPoints, Closing, Published, Receipts, Receipt
<1>12. ASSUME NEW p \in Process, IndexActive(p)
      PROVE  (\A q \in Run : BindsOnly(q))
  BY <1>12 DEF IndexActive, Finish, BindsOnly, TypeOK, At, Goto, Continue, Return, files, locals, LockPoints, Closing, Published, Receipts, Receipt
<1>13. ASSUME NEW p \in Process, Bind(p)
      PROVE  (\A q \in Run : BindsOnly(q))
  <2>1. \A q \in Run \ {run[p]} : controller'[q] = controller[q]
    BY <1>13 DEF Bind, TypeOK
  <2> QED
    BY <1>13, <2>1 DEF BindsOnly
<1>14. ASSUME NEW p \in Process, CheckRecord(p)
      PROVE  (\A q \in Run : BindsOnly(q))
  BY <1>14 DEF CheckRecord, NextRecord, BindsOnly, TypeOK, At, Goto, Continue, Return, files, locals, LockPoints, Closing, Published, Receipts, Receipt
<1>15. ASSUME NEW p \in Process, WriteRecord(p)
      PROVE  (\A q \in Run : BindsOnly(q))
  BY <1>15 DEF WriteRecord, NextRecord, BindsOnly, TypeOK, At, Goto, Continue, Return, files, locals, LockPoints, Closing, Published, Receipts, Receipt
<1>16. ASSUME NEW p \in Process, Archive(p)
      PROVE  (\A q \in Run : BindsOnly(q))
  BY <1>16 DEF Archive, BindsOnly, TypeOK, At, Goto, Continue, Return, files, locals, LockPoints, Closing, Published, Receipts, Receipt
<1>17. ASSUME NEW p \in Process, Move(p)
      PROVE  (\A q \in Run : BindsOnly(q))
  BY <1>17 DEF Move, BindsOnly, TypeOK, At, Goto, Continue, Return, files, locals, LockPoints, Closing, Published, Receipts, Receipt
<1>18. ASSUME NEW p \in Process, IndexArchived(p)
      PROVE  (\A q \in Run : BindsOnly(q))
  BY <1>18 DEF IndexArchived, BindsOnly, TypeOK, At, Goto, Continue, Return, files, locals, LockPoints, Closing, Published, Receipts, Receipt
<1>19. ASSUME NEW p \in Process, IoFailure(p)
      PROVE  (\A q \in Run : BindsOnly(q))
  BY <1>19 DEF IoFailure, BindsOnly, TypeOK, At, Goto, Continue, Return, files, locals, LockPoints, Closing, Published, Receipts, Receipt
<1>20. ASSUME NEW p \in Process, End(p)
      PROVE  (\A q \in Run : BindsOnly(q))
  BY <1>20 DEF End, BindsOnly, TypeOK, At, Goto, Continue, Return, files, locals, LockPoints, Closing, Published, Receipts, Receipt
<1>21. CASE UNCHANGED vars
  BY <1>21 DEF vars, BindsOnly, TypeOK, At, Goto, Continue, Return, files, locals, LockPoints, Closing, Published, Receipts, Receipt
<1> QED
  BY <1>1, <1>2, <1>3, <1>4, <1>5, <1>6, <1>7, <1>8, <1>9, <1>10, <1>11,
     <1>12, <1>13, <1>14, <1>15, <1>16, <1>17, <1>18, <1>19, <1>20, <1>21
     DEF Next, Step, InitializeAny, AdmitAny, Close
LEMMA BoundHasRunStep == ASSUME BoundInv, [Next]_vars PROVE BoundHasRun'
<1> SUFFICES ASSUME NEW r \in Run, controller'[r] \in {"admitted", "done"}
             PROVE  HasRun(r)' \/ LeftStaged(r)'
  BY DEF BoundHasRun, HasRun
<1>1. TypeOK /\ MovesRun /\ BindsToRun /\ BoundHasRun
  BY DEF BoundInv, ClaimInv
<1>2. HasRun(r) \/ LeftStaged(r)
  <2>1. CASE controller[r] \in {"admitted", "done"}
    BY <1>1, <2>1 DEF BoundHasRun, HasRun
  <2>2. CASE \E p \in Process : Bind(p) /\ run[p] = r
    BY <1>1, <2>2 DEF Bind, At, BindsToRun
  <2> QED
    BY <1>1, <2>1, <2>2, BindsOnlyStep DEF BindsOnly
<1> QED
  BY <1>1, <1>2, WholeStays

LEMMA BoundStep == ASSUME BoundInv, [Next]_vars PROVE BoundInv'
<1>1. ClaimInv'
  BY ClaimStep DEF BoundInv
<1> QED
  BY <1>1, StagesLiveStep, MovesRunStep, BindsToRunStep, BoundHasRunStep DEF BoundInv

LEMMA InitBound == Init => BoundInv
<1> SUFFICES ASSUME Init PROVE BoundInv
  OBVIOUS
<1>1. ClaimInv
  BY InitClaim
<1>2. StagesLive /\ MovesRun /\ BindsToRun
  BY DEF Init, StagesLive, MovesRun, BindsToRun
<1>3. BoundHasRun
  BY DEF Init, BoundHasRun
<1> QED
  BY <1>1, <1>2, <1>3 DEF BoundInv

(***************************************************************************)
(* A controller is bound only to a run that is there, active or archived,  *)
(* or that a process left whole in its staging directory when it died,     *)
(* whatever the operators do and wherever processes die and calls fail     *)
(* (initializeV2Delivery, admitV2Run).                                     *)
(***************************************************************************)
THEOREM BoundHasRunCorrect == Spec => []BoundHasRun
<1>1. Init => BoundInv
  BY InitBound
<1>2. BoundInv /\ [Next]_vars => BoundInv'
  BY BoundStep
<1>3. BoundInv => BoundHasRun
  BY DEF BoundInv
<1> QED
  BY <1>1, <1>2, <1>3, PTL DEF Spec

-----------------------------------------------------------------------------
\* A claim is tracked by a controller.

\* Runs are admitted by the initializer only.
UsesInitializer == "initializer" \in Discipline

\* A call enters the admission from its controller's record.
EntersAdmission(q) ==
    LET admission == {"admit", "stage", "publishStaged", "renameStaged"} IN
    pc'[q] \in admission =>
        \/ pc[q] \in admission /\ run'[q] = run[q]
        \/ EnsureController(q)

LEMMA EntersAdmissionStep ==
    ASSUME UsesInitializer, TypeOK, [Next]_vars PROVE \A q \in Process : EntersAdmission(q)
<1>1. ASSUME Tick
      PROVE  \A q \in Process : EntersAdmission(q)
  BY <1>1 DEF Tick, EntersAdmission, TypeOK, At, Goto, Continue, Return, files, locals, LockPoints, Closing, Published, Receipts, Receipt
<1>2. ASSUME NEW r \in Run, CompleteController(r)
      PROVE  \A q \in Process : EntersAdmission(q)
  BY <1>2 DEF CompleteController, EntersAdmission, TypeOK, At, Goto, Continue, Return, files, locals, LockPoints, Closing, Published, Receipts, Receipt
<1>3. ASSUME NEW r \in Run, RetirePending(r)
      PROVE  \A q \in Process : EntersAdmission(q)
  BY <1>3 DEF RetirePending, PendingBaseline, RunAbsent, PublishRetirement, EntersAdmission, TypeOK, At, Goto, Continue, Return, files, locals, LockPoints, Closing, Published, Receipts, Receipt
<1>4. ASSUME NEW p \in Process, NEW r \in Run, Initialize(p, r)
      PROVE  \A q \in Process : EntersAdmission(q)
  BY <1>4 DEF Initialize, EntersAdmission, TypeOK, At, Goto, Continue, Return, files, locals, LockPoints, Closing, Published, Receipts, Receipt
<1>5. ASSUME NEW p \in Process, NEW r \in Run, AdmitV2Run(p, r)
      PROVE  \A q \in Process : EntersAdmission(q)
  BY <1>5 DEF AdmitV2Run, UsesInitializer
<1>6. ASSUME NEW p \in Process, NEW r \in Run, NEW k \in Kind, NEW t \in 1..clock, BeginClose(p, r, k, t)
      PROVE  \A q \in Process : EntersAdmission(q)
  BY <1>6 DEF BeginClose, EntersAdmission, TypeOK, At, Goto, Continue, Return, files, locals, LockPoints, Closing, Published, Receipts, Receipt
<1>7. ASSUME NEW p \in Process, EnsureController(p)
      PROVE  \A q \in Process : EntersAdmission(q)
  <2>1. \A q \in Process \ {p} : pc'[q] = pc[q] /\ run'[q] = run[q]
    BY <1>7 DEF TypeOK, EnsureController, Goto
  <2> QED
    BY <1>7, <2>1 DEF EntersAdmission
<1>8. ASSUME NEW p \in Process, Admit(p)
      PROVE  \A q \in Process : EntersAdmission(q)
  BY <1>8 DEF Admit, Finish, EntersAdmission, TypeOK, At, Goto, Continue, Return, files, locals, LockPoints, Closing, Published, Receipts, Receipt
<1>9. ASSUME NEW p \in Process, Stage(p)
      PROVE  \A q \in Process : EntersAdmission(q)
  BY <1>9 DEF Stage, EntersAdmission, TypeOK, At, Goto, Continue, Return, files, locals, LockPoints, Closing, Published, Receipts, Receipt
<1>10. ASSUME NEW p \in Process, PublishStaged(p)
      PROVE  \A q \in Process : EntersAdmission(q)
  BY <1>10 DEF PublishStaged, EntersAdmission, TypeOK, At, Goto, Continue, Return, files, locals, LockPoints, Closing, Published, Receipts, Receipt
<1>11. ASSUME NEW p \in Process, RenameStaged(p)
      PROVE  \A q \in Process : EntersAdmission(q)
  BY <1>11 DEF RenameStaged, EntersAdmission, TypeOK, At, Goto, Continue, Return, files, locals, LockPoints, Closing, Published, Receipts, Receipt
<1>12. ASSUME NEW p \in Process, IndexActive(p)
      PROVE  \A q \in Process : EntersAdmission(q)
  BY <1>12 DEF IndexActive, Finish, EntersAdmission, TypeOK, At, Goto, Continue, Return, files, locals, LockPoints, Closing, Published, Receipts, Receipt
<1>13. ASSUME NEW p \in Process, Bind(p)
      PROVE  \A q \in Process : EntersAdmission(q)
  BY <1>13 DEF Bind, EntersAdmission, TypeOK, At, Goto, Continue, Return, files, locals, LockPoints, Closing, Published, Receipts, Receipt
<1>14. ASSUME NEW p \in Process, CheckRecord(p)
      PROVE  \A q \in Process : EntersAdmission(q)
  BY <1>14 DEF CheckRecord, NextRecord, EntersAdmission, TypeOK, At, Goto, Continue, Return, files, locals, LockPoints, Closing, Published, Receipts, Receipt
<1>15. ASSUME NEW p \in Process, WriteRecord(p)
      PROVE  \A q \in Process : EntersAdmission(q)
  BY <1>15 DEF WriteRecord, NextRecord, EntersAdmission, TypeOK, At, Goto, Continue, Return, files, locals, LockPoints, Closing, Published, Receipts, Receipt
<1>16. ASSUME NEW p \in Process, Archive(p)
      PROVE  \A q \in Process : EntersAdmission(q)
  BY <1>16 DEF Archive, EntersAdmission, TypeOK, At, Goto, Continue, Return, files, locals, LockPoints, Closing, Published, Receipts, Receipt
<1>17. ASSUME NEW p \in Process, Move(p)
      PROVE  \A q \in Process : EntersAdmission(q)
  BY <1>17 DEF Move, EntersAdmission, TypeOK, At, Goto, Continue, Return, files, locals, LockPoints, Closing, Published, Receipts, Receipt
<1>18. ASSUME NEW p \in Process, IndexArchived(p)
      PROVE  \A q \in Process : EntersAdmission(q)
  BY <1>18 DEF IndexArchived, EntersAdmission, TypeOK, At, Goto, Continue, Return, files, locals, LockPoints, Closing, Published, Receipts, Receipt
<1>19. ASSUME NEW p \in Process, IoFailure(p)
      PROVE  \A q \in Process : EntersAdmission(q)
  BY <1>19 DEF IoFailure, EntersAdmission, TypeOK, At, Goto, Continue, Return, files, locals, LockPoints, Closing, Published, Receipts, Receipt
<1>20. ASSUME NEW p \in Process, End(p)
      PROVE  \A q \in Process : EntersAdmission(q)
  BY <1>20 DEF End, EntersAdmission, TypeOK, At, Goto, Continue, Return, files, locals, LockPoints, Closing, Published, Receipts, Receipt
<1>21. CASE UNCHANGED vars
  BY <1>21 DEF vars, EntersAdmission, TypeOK, At, Goto, Continue, Return, files, locals, LockPoints, Closing, Published, Receipts, Receipt
<1> QED
  BY <1>1, <1>2, <1>3, <1>4, <1>5, <1>6, <1>7, <1>8, <1>9, <1>10, <1>11,
     <1>12, <1>13, <1>14, <1>15, <1>16, <1>17, <1>18, <1>19, <1>20, <1>21
     DEF Next, Step, InitializeAny, AdmitAny, Close

LEMMA ControllerStays ==
    ASSUME TypeOK, [Next]_vars PROVE \A q \in Run : controller[q] # "absent" => controller'[q] # "absent"
<1>1. ASSUME Tick
      PROVE  \A q \in Run : controller[q] # "absent" => controller'[q] # "absent"
  BY <1>1 DEF Tick, TypeOK, At, Goto, Continue, Return, files, locals, LockPoints, Closing, Published, Receipts, Receipt
<1>2. ASSUME NEW r \in Run, CompleteController(r)
      PROVE  \A q \in Run : controller[q] # "absent" => controller'[q] # "absent"
  BY <1>2 DEF CompleteController, TypeOK, At, Goto, Continue, Return, files, locals, LockPoints, Closing, Published, Receipts, Receipt
<1>3. ASSUME NEW r \in Run, RetirePending(r)
      PROVE  \A q \in Run : controller[q] # "absent" => controller'[q] # "absent"
  BY <1>3 DEF RetirePending, PendingBaseline, RunAbsent, PublishRetirement, TypeOK, At, Goto, Continue, Return, files, locals, LockPoints, Closing, Published, Receipts, Receipt
<1>4. ASSUME NEW p \in Process, NEW r \in Run, Initialize(p, r)
      PROVE  \A q \in Run : controller[q] # "absent" => controller'[q] # "absent"
  BY <1>4 DEF Initialize, TypeOK, At, Goto, Continue, Return, files, locals, LockPoints, Closing, Published, Receipts, Receipt
<1>5. ASSUME NEW p \in Process, NEW r \in Run, AdmitV2Run(p, r)
      PROVE  \A q \in Run : controller[q] # "absent" => controller'[q] # "absent"
  BY <1>5 DEF AdmitV2Run, TypeOK, At, Goto, Continue, Return, files, locals, LockPoints, Closing, Published, Receipts, Receipt
<1>6. ASSUME NEW p \in Process, NEW r \in Run, NEW k \in Kind, NEW t \in 1..clock, BeginClose(p, r, k, t)
      PROVE  \A q \in Run : controller[q] # "absent" => controller'[q] # "absent"
  BY <1>6 DEF BeginClose, TypeOK, At, Goto, Continue, Return, files, locals, LockPoints, Closing, Published, Receipts, Receipt
<1>7. ASSUME NEW p \in Process, EnsureController(p)
      PROVE  \A q \in Run : controller[q] # "absent" => controller'[q] # "absent"
  BY <1>7 DEF EnsureController, TypeOK, At, Goto, Continue, Return, files, locals, LockPoints, Closing, Published, Receipts, Receipt
<1>8. ASSUME NEW p \in Process, Admit(p)
      PROVE  \A q \in Run : controller[q] # "absent" => controller'[q] # "absent"
  BY <1>8 DEF Admit, Finish, TypeOK, At, Goto, Continue, Return, files, locals, LockPoints, Closing, Published, Receipts, Receipt
<1>9. ASSUME NEW p \in Process, Stage(p)
      PROVE  \A q \in Run : controller[q] # "absent" => controller'[q] # "absent"
  BY <1>9 DEF Stage, TypeOK, At, Goto, Continue, Return, files, locals, LockPoints, Closing, Published, Receipts, Receipt
<1>10. ASSUME NEW p \in Process, PublishStaged(p)
      PROVE  \A q \in Run : controller[q] # "absent" => controller'[q] # "absent"
  BY <1>10 DEF PublishStaged, TypeOK, At, Goto, Continue, Return, files, locals, LockPoints, Closing, Published, Receipts, Receipt
<1>11. ASSUME NEW p \in Process, RenameStaged(p)
      PROVE  \A q \in Run : controller[q] # "absent" => controller'[q] # "absent"
  BY <1>11 DEF RenameStaged, TypeOK, At, Goto, Continue, Return, files, locals, LockPoints, Closing, Published, Receipts, Receipt
<1>12. ASSUME NEW p \in Process, IndexActive(p)
      PROVE  \A q \in Run : controller[q] # "absent" => controller'[q] # "absent"
  BY <1>12 DEF IndexActive, Finish, TypeOK, At, Goto, Continue, Return, files, locals, LockPoints, Closing, Published, Receipts, Receipt
<1>13. ASSUME NEW p \in Process, Bind(p)
      PROVE  \A q \in Run : controller[q] # "absent" => controller'[q] # "absent"
  BY <1>13 DEF Bind, TypeOK, At, Goto, Continue, Return, files, locals, LockPoints, Closing, Published, Receipts, Receipt
<1>14. ASSUME NEW p \in Process, CheckRecord(p)
      PROVE  \A q \in Run : controller[q] # "absent" => controller'[q] # "absent"
  BY <1>14 DEF CheckRecord, NextRecord, TypeOK, At, Goto, Continue, Return, files, locals, LockPoints, Closing, Published, Receipts, Receipt
<1>15. ASSUME NEW p \in Process, WriteRecord(p)
      PROVE  \A q \in Run : controller[q] # "absent" => controller'[q] # "absent"
  BY <1>15 DEF WriteRecord, NextRecord, TypeOK, At, Goto, Continue, Return, files, locals, LockPoints, Closing, Published, Receipts, Receipt
<1>16. ASSUME NEW p \in Process, Archive(p)
      PROVE  \A q \in Run : controller[q] # "absent" => controller'[q] # "absent"
  BY <1>16 DEF Archive, TypeOK, At, Goto, Continue, Return, files, locals, LockPoints, Closing, Published, Receipts, Receipt
<1>17. ASSUME NEW p \in Process, Move(p)
      PROVE  \A q \in Run : controller[q] # "absent" => controller'[q] # "absent"
  BY <1>17 DEF Move, TypeOK, At, Goto, Continue, Return, files, locals, LockPoints, Closing, Published, Receipts, Receipt
<1>18. ASSUME NEW p \in Process, IndexArchived(p)
      PROVE  \A q \in Run : controller[q] # "absent" => controller'[q] # "absent"
  BY <1>18 DEF IndexArchived, TypeOK, At, Goto, Continue, Return, files, locals, LockPoints, Closing, Published, Receipts, Receipt
<1>19. ASSUME NEW p \in Process, IoFailure(p)
      PROVE  \A q \in Run : controller[q] # "absent" => controller'[q] # "absent"
  BY <1>19 DEF IoFailure, TypeOK, At, Goto, Continue, Return, files, locals, LockPoints, Closing, Published, Receipts, Receipt
<1>20. ASSUME NEW p \in Process, End(p)
      PROVE  \A q \in Run : controller[q] # "absent" => controller'[q] # "absent"
  BY <1>20 DEF End, TypeOK, At, Goto, Continue, Return, files, locals, LockPoints, Closing, Published, Receipts, Receipt
<1>21. CASE UNCHANGED vars
  BY <1>21 DEF vars, TypeOK, At, Goto, Continue, Return, files, locals, LockPoints, Closing, Published, Receipts, Receipt
<1> QED
  BY <1>1, <1>2, <1>3, <1>4, <1>5, <1>6, <1>7, <1>8, <1>9, <1>10, <1>11,
     <1>12, <1>13, <1>14, <1>15, <1>16, <1>17, <1>18, <1>19, <1>20, <1>21
     DEF Next, Step, InitializeAny, AdmitAny, Close

\* A run becomes admitted by the rename of its staging directory.
AdmittedBy(r) ==
    Admitted(r)' => Admitted(r) \/ \E p \in Process : RenameStaged(p) /\ run[p] = r

LEMMA AdmittedByStep ==
    ASSUME TypeOK, [Next]_vars PROVE \A q \in Run : AdmittedBy(q)
<1>1. ASSUME Tick
      PROVE  \A q \in Run : AdmittedBy(q)
  BY <1>1 DEF Tick, AdmittedBy, Admitted, TypeOK, At, Goto, Continue, Return, files, locals, LockPoints, Closing, Published, Receipts, Receipt
<1>2. ASSUME NEW r \in Run, CompleteController(r)
      PROVE  \A q \in Run : AdmittedBy(q)
  BY <1>2 DEF CompleteController, AdmittedBy, Admitted, TypeOK, At, Goto, Continue, Return, files, locals, LockPoints, Closing, Published, Receipts, Receipt
<1>3. ASSUME NEW r \in Run, RetirePending(r)
      PROVE  \A q \in Run : AdmittedBy(q)
  BY <1>3 DEF RetirePending, PendingBaseline, RunAbsent, PublishRetirement, AdmittedBy, Admitted, TypeOK, At, Goto, Continue, Return, files, locals, LockPoints, Closing, Published, Receipts, Receipt
<1>4. ASSUME NEW p \in Process, NEW r \in Run, Initialize(p, r)
      PROVE  \A q \in Run : AdmittedBy(q)
  BY <1>4 DEF Initialize, AdmittedBy, Admitted, TypeOK, At, Goto, Continue, Return, files, locals, LockPoints, Closing, Published, Receipts, Receipt
<1>5. ASSUME NEW p \in Process, NEW r \in Run, AdmitV2Run(p, r)
      PROVE  \A q \in Run : AdmittedBy(q)
  BY <1>5 DEF AdmitV2Run, AdmittedBy, Admitted, TypeOK, At, Goto, Continue, Return, files, locals, LockPoints, Closing, Published, Receipts, Receipt
<1>6. ASSUME NEW p \in Process, NEW r \in Run, NEW k \in Kind, NEW t \in 1..clock, BeginClose(p, r, k, t)
      PROVE  \A q \in Run : AdmittedBy(q)
  BY <1>6 DEF BeginClose, AdmittedBy, Admitted, TypeOK, At, Goto, Continue, Return, files, locals, LockPoints, Closing, Published, Receipts, Receipt
<1>7. ASSUME NEW p \in Process, EnsureController(p)
      PROVE  \A q \in Run : AdmittedBy(q)
  BY <1>7 DEF EnsureController, AdmittedBy, Admitted, TypeOK, At, Goto, Continue, Return, files, locals, LockPoints, Closing, Published, Receipts, Receipt
<1>8. ASSUME NEW p \in Process, Admit(p)
      PROVE  \A q \in Run : AdmittedBy(q)
  BY <1>8 DEF Admit, Finish, AdmittedBy, Admitted, TypeOK, At, Goto, Continue, Return, files, locals, LockPoints, Closing, Published, Receipts, Receipt
<1>9. ASSUME NEW p \in Process, Stage(p)
      PROVE  \A q \in Run : AdmittedBy(q)
  BY <1>9 DEF Stage, AdmittedBy, Admitted, TypeOK, At, Goto, Continue, Return, files, locals, LockPoints, Closing, Published, Receipts, Receipt
<1>10. ASSUME NEW p \in Process, PublishStaged(p)
      PROVE  \A q \in Run : AdmittedBy(q)
  BY <1>10 DEF PublishStaged, AdmittedBy, Admitted, TypeOK, At, Goto, Continue, Return, files, locals, LockPoints, Closing, Published, Receipts, Receipt
<1>11. ASSUME NEW p \in Process, RenameStaged(p)
      PROVE  \A q \in Run : AdmittedBy(q)
  <2>1. UNCHANGED active \/ active' = [active EXCEPT ![run[p]] = Admission]
    BY <1>11 DEF RenameStaged
  <2>2. \A q \in Run \ {run[p]} : active'[q] = active[q]
    BY <2>1 DEF TypeOK
  <2> QED
    BY <1>11, <2>2 DEF AdmittedBy, Admitted
<1>12. ASSUME NEW p \in Process, IndexActive(p)
      PROVE  \A q \in Run : AdmittedBy(q)
  BY <1>12 DEF IndexActive, Finish, AdmittedBy, Admitted, TypeOK, At, Goto, Continue, Return, files, locals, LockPoints, Closing, Published, Receipts, Receipt
<1>13. ASSUME NEW p \in Process, Bind(p)
      PROVE  \A q \in Run : AdmittedBy(q)
  BY <1>13 DEF Bind, AdmittedBy, Admitted, TypeOK, At, Goto, Continue, Return, files, locals, LockPoints, Closing, Published, Receipts, Receipt
<1>14. ASSUME NEW p \in Process, CheckRecord(p)
      PROVE  \A q \in Run : AdmittedBy(q)
  BY <1>14, ClosingKeepsAdmissions DEF AdmittedBy
<1>15. ASSUME NEW p \in Process, WriteRecord(p)
      PROVE  \A q \in Run : AdmittedBy(q)
  BY <1>15, ClosingKeepsAdmissions DEF AdmittedBy
<1>16. ASSUME NEW p \in Process, Archive(p)
      PROVE  \A q \in Run : AdmittedBy(q)
  BY <1>16, ClosingKeepsAdmissions DEF AdmittedBy
<1>17. ASSUME NEW p \in Process, Move(p)
      PROVE  \A q \in Run : AdmittedBy(q)
  <2>1. \A q \in Run : active'[q] \in {active[q], None}
    BY <1>17 DEF Move, TypeOK
  <2> QED
    BY <2>1 DEF AdmittedBy, Admitted
<1>18. ASSUME NEW p \in Process, IndexArchived(p)
      PROVE  \A q \in Run : AdmittedBy(q)
  BY <1>18 DEF IndexArchived, AdmittedBy, Admitted, TypeOK, At, Goto, Continue, Return, files, locals, LockPoints, Closing, Published, Receipts, Receipt
<1>19. ASSUME NEW p \in Process, IoFailure(p)
      PROVE  \A q \in Run : AdmittedBy(q)
  BY <1>19 DEF IoFailure, AdmittedBy, Admitted, TypeOK, At, Goto, Continue, Return, files, locals, LockPoints, Closing, Published, Receipts, Receipt
<1>20. ASSUME NEW p \in Process, End(p)
      PROVE  \A q \in Run : AdmittedBy(q)
  BY <1>20 DEF End, AdmittedBy, Admitted, TypeOK, At, Goto, Continue, Return, files, locals, LockPoints, Closing, Published, Receipts, Receipt
<1>21. CASE UNCHANGED vars
  BY <1>21 DEF vars, AdmittedBy, Admitted, TypeOK, At, Goto, Continue, Return, files, locals, LockPoints, Closing, Published, Receipts, Receipt
<1> QED
  BY <1>1, <1>2, <1>3, <1>4, <1>5, <1>6, <1>7, <1>8, <1>9, <1>10, <1>11,
     <1>12, <1>13, <1>14, <1>15, <1>16, <1>17, <1>18, <1>19, <1>20, <1>21
     DEF Next, Step, InitializeAny, AdmitAny, Close

LEMMA TrackedStep == ASSUME UsesInitializer, TrackedInv, [Next]_vars PROVE TrackedInv'
<1>1. TypeOK /\ AdmitsTracked /\ ClaimTracked
  BY DEF TrackedInv, ClaimInv
<1>2. AdmitsTracked'
  <2> SUFFICES ASSUME NEW q \in Process,
                      pc'[q] \in {"admit", "stage", "publishStaged", "renameStaged"}
               PROVE  run'[q] \in Run /\ controller'[run'[q]] # "absent"
    BY DEF AdmitsTracked
  <2>1. CASE /\ pc[q] \in {"admit", "stage", "publishStaged", "renameStaged"}
             /\ run'[q] = run[q]
    BY <1>1, <2>1, ControllerStays DEF AdmitsTracked
  <2>2. CASE EnsureController(q)
    <3>1. run[q] \in Run /\ run' = run
      BY <1>1, <2>2 DEF EnsureController, At, TypeOK
    <3>2. controller'[run[q]] # "absent"
      BY <1>1, <2>2, <3>1 DEF EnsureController, TypeOK
    <3> QED
      BY <3>1, <3>2
  <2> QED
    BY <1>1, <2>1, <2>2, EntersAdmissionStep DEF EntersAdmission
<1>3. ClaimTracked'
  <2> SUFFICES ASSUME NEW r \in Run, Admitted(r)' PROVE controller'[r] # "absent"
    BY DEF ClaimTracked, Admitted
  <2>1. controller[r] # "absent"
    BY <1>1, AdmittedByStep DEF AdmittedBy, ClaimTracked, AdmitsTracked, RenameStaged, At
  <2> QED
    BY <1>1, <2>1, ControllerStays
<1>4. ClaimInv'
  BY ClaimStep DEF TrackedInv
<1> QED
  BY <1>2, <1>3, <1>4 DEF TrackedInv

(***************************************************************************)
(* Where runs are admitted by the initializer, every admitted claim has a  *)
(* controller record, wherever the initializer dies.                       *)
(***************************************************************************)
THEOREM ClaimTrackedCorrect == ASSUME UsesInitializer PROVE Spec => []ClaimTracked
<1>1. Init => TrackedInv
  <2> SUFFICES ASSUME Init PROVE TrackedInv
    OBVIOUS
  <2>1. ClaimInv
    BY InitClaim
  <2> QED
    BY <2>1 DEF Init, TrackedInv, AdmitsTracked, ClaimTracked, Admitted
<1>2. TrackedInv /\ [Next]_vars => TrackedInv'
  BY TrackedStep
<1>3. TrackedInv => ClaimTracked
  BY DEF TrackedInv
<1> QED
  BY <1>1, <1>2, <1>3, PTL DEF Spec

-----------------------------------------------------------------------------
\* What is in the archive was closed in one way.

\* One command at a time for a run, and one kind of closing once one of its
\* receipts is there.
KeepsToOneClosing == {"oneCall", "oneKind"} \subseteq Discipline

Begins(p) == InitializeAny(p) \/ AdmitAny(p) \/ \E k \in Kind : Close(p, k)
Acts(p) == Begins(p) \/ Step(p) \/ IoFailure(p) \/ End(p)
Stays(q) == /\ pc'[q] = pc[q] /\ run'[q] = run[q] /\ kind'[q] = kind[q]
            /\ now'[q] = now[q] /\ name'[q] = name[q]

\* The points at which a call is about to put records into its run's directory.
Records == {"check", "write", "archive", "move"}
Expected(p) == {Receipt[kind[p]], "claim-release", "projection"}
Behind(p, n) ==
    \/ pc[p] \in {"archive", "move"}
    \/ n = Receipt[kind[p]] /\ name[p] # n
    \/ n = "claim-release" /\ name[p] = "projection"

\* A closing call: its run is admitted, no receipt is of the other kind, and
\* what it passed is as it would write it.
ClosesOwn(p) ==
    pc[p] \in Records =>
        /\ run[p] \in Run /\ kind[p] \in Kind /\ now[p] \in Day
        /\ Admitted(run[p]) /\ ReceiptsIn(active[run[p]]) \subseteq {Receipt[kind[p]]}
        /\ pc[p] \in {"check", "write"} => name[p] \in Expected(p)
        /\ \A n \in Expected(p) : Behind(p, n) => active[run[p]][n] = Record(p, n)
        /\ pc[p] = "move" => active[run[p]]["archive-manifest"] = <<kind[p], now[p]>>

OneCallEach ==
    \A p, q \in Process : pc[p] # "idle" /\ pc[q] # "idle" /\ run[p] = run[q] => p = q
CloseInv ==
    /\ ClaimInv /\ OneCallEach
    /\ \A p \in Process : ClosesOwn(p)
    /\ ArchivesCoherent

\* A step is of one process, or of none.
LEMMA OneActs ==
    ASSUME [Next]_vars
    PROVE  \/ \E p \in Process : Acts(p)
           \/ UNCHANGED <<active, archive, pc, run, kind, now, name>>
BY DEF Next, Acts, Begins, Tick, CompleteController, RetirePending, vars, files, locals

\* A process changes its own call.
LEMMA OthersStay ==
    ASSUME TypeOK, NEW p \in Process, Acts(p), NEW q \in Process \ {p}
    PROVE  Stays(q)
<1>0. /\ pc \in [Process -> Points] /\ run \in [Process -> Run \cup {None}]
      /\ kind \in [Process -> Kind \cup {None}] /\ now \in [Process -> 0..MaxClock]
      /\ name \in [Process -> Published \cup {None}]
  BY DEF TypeOK
<1>1. CASE Begins(p)
  BY <1>0, <1>1 DEF Begins, InitializeAny, AdmitAny, Close, Initialize, AdmitV2Run, BeginClose, Goto, Stays
<1>2. CASE IoFailure(p) \/ End(p)
  BY <1>0, <1>2 DEF IoFailure, End, Return, Goto, Stays
<1>3. CASE EnsureController(p) \/ Admit(p) \/ Stage(p) \/ PublishStaged(p)
  BY <1>0, <1>3 DEF EnsureController, Admit, Finish, Stage, PublishStaged, Continue, Return, Goto, Stays, locals
<1>4. CASE RenameStaged(p) \/ IndexActive(p) \/ Bind(p) \/ IndexArchived(p) \/ Move(p)
  BY <1>0, <1>4 DEF RenameStaged, IndexActive, Finish, Bind, IndexArchived, Move, Continue, Return, Goto, Stays, locals
<1>5. CASE CheckRecord(p) \/ WriteRecord(p) \/ Archive(p)
  BY <1>0, <1>5 DEF CheckRecord, WriteRecord, Archive, NextRecord, Continue, Return, Goto, Stays, locals
<1> QED
  BY <1>1, <1>2, <1>3, <1>4, <1>5 DEF Acts, Step

\* A call is for one run, and a new one finds no other for its run.
LEMMA OwnCall ==
    ASSUME KeepsToOneClosing, TypeOK, NEW p \in Process, Acts(p), pc'[p] # "idle"
    PROVE  \/ pc[p] # "idle" /\ run'[p] = run[p]
           \/ \A q \in Process \ {p} : run[q] # run'[p]
<1>0. pc \in [Process -> Points] /\ run \in [Process -> Run \cup {None}]
  BY DEF TypeOK
<1>1. CASE Begins(p)
  <2>1. PICK r \in Run : run' = [run EXCEPT ![p] = r] /\ Calling(r, Points) = {}
    BY <1>1 DEF Begins, InitializeAny, AdmitAny, Close, Initialize, AdmitV2Run, BeginClose, MayAdmit, KeepsToOneClosing
  <2>2. \A q \in Process : run[q] # r
    BY <1>0, <2>1 DEF Calling
  <2> QED BY <1>0, <2>1, <2>2
<1>2. CASE IoFailure(p) \/ End(p) \/ Bind(p) \/ IndexArchived(p)
  BY <1>0, <1>2 DEF IoFailure, End, Bind, IndexArchived, Return, Goto
<1>3. CASE EnsureController(p) \/ Admit(p) \/ Stage(p) \/ PublishStaged(p) \/ RenameStaged(p) \/ IndexActive(p)
  BY <1>0, <1>3 DEF EnsureController, Admit, Finish, Stage, PublishStaged, RenameStaged, IndexActive,
                    At, Continue, Return, Goto, locals
<1>4. CASE CheckRecord(p) \/ WriteRecord(p) \/ Archive(p) \/ Move(p)
  BY <1>0, <1>4 DEF CheckRecord, WriteRecord, Archive, Move, NextRecord, At, Continue, Return, Goto, locals
<1> QED
  BY <1>1, <1>2, <1>3, <1>4 DEF Acts, Step

\* A process touches the directories of its own run only.
LEMMA OwnDirectories ==
    ASSUME TypeOK, NEW p \in Process, Acts(p), NEW r \in Run
    PROVE  \/ active'[r] = active[r] /\ \A d \in Day : archive'[d][r] = archive[d][r]
           \/ pc[p] # "idle" /\ run[p] = r
<1>0. active \in [Run -> Bundle \cup {None}] /\ archive \in [Day -> [Run -> Bundle \cup {None}]]
  BY DEF TypeOK
<1>1. CASE UNCHANGED <<active, archive>>
  BY <1>1
<1>2. CASE Begins(p)
  BY <1>1, <1>2 DEF Begins, InitializeAny, AdmitAny, Close, Initialize, AdmitV2Run, BeginClose, files
<1>3. CASE \/ EnsureController(p) \/ Admit(p) \/ Stage(p) \/ PublishStaged(p)
           \/ IndexActive(p) \/ Bind(p) \/ IndexArchived(p) \/ IoFailure(p) \/ End(p)
  BY <1>1, <1>3 DEF EnsureController, Admit, Stage, PublishStaged, IndexActive, Bind, IndexArchived, IoFailure, End, files
<1>4. CASE RenameStaged(p) \/ CheckRecord(p) \/ WriteRecord(p) \/ Archive(p)
  <2>1. pc[p] # "idle" /\ UNCHANGED archive
    BY <1>4 DEF RenameStaged, CheckRecord, WriteRecord, Archive, At
  <2>2. r # run[p] => active'[r] = active[r]
    BY <1>0, <1>4 DEF RenameStaged, CheckRecord, WriteRecord, Archive
  <2> QED BY <2>1, <2>2
<1>5. CASE Move(p)
  <2>1. pc[p] # "idle" /\ now[p] \in Day
    BY <1>5 DEF Move, At, TypeOK
  <2>2. r # run[p] => active'[r] = active[r] /\ \A d \in Day : archive'[d][r] = archive[d][r]
    BY <1>0, <1>5, <2>1 DEF Move
  <2> QED BY <2>1, <2>2
<1> QED
  BY <1>2, <1>3, <1>4, <1>5 DEF Acts, Step

LEMMA OneCallStep == ASSUME KeepsToOneClosing, CloseInv, [Next]_vars PROVE OneCallEach'
<1>1. CASE UNCHANGED <<active, archive, pc, run, kind, now, name>>
  BY <1>1 DEF CloseInv, OneCallEach
<1>2. ASSUME NEW p \in Process, Acts(p) PROVE OneCallEach'
  <2>1. TypeOK
    BY DEF CloseInv, ClaimInv
  <2>2. \A q \in Process \ {p} : pc'[q] = pc[q] /\ run'[q] = run[q]
    BY <1>2, <2>1, OthersStay DEF Stays
  <2>3. pc'[p] # "idle" => \A q \in Process \ {p} : pc[q] # "idle" => run[q] # run'[p]
    BY <1>2, <2>1, OwnCall DEF CloseInv, OneCallEach
  <2> QED BY <2>2, <2>3 DEF CloseInv, OneCallEach
<1> QED BY <1>1, <1>2, OneActs

\* A call that nobody disturbs stays as it is.
LEMMA UndisturbedStep ==
    ASSUME NEW q \in Process, ClosesOwn(q), Stays(q), active'[run[q]] = active[run[q]]
    PROVE  ClosesOwn(q)'
<1>1. ASSUME pc[q] \in Records
      PROVE  /\ Expected(q)' = Expected(q) /\ Admitted(run[q])' = Admitted(run[q])
             /\ ReceiptsIn(active'[run[q]]) = ReceiptsIn(active[run[q]])
             /\ \A n \in Expected(q) : Record(q, n)' = Record(q, n) /\ Behind(q, n)' = Behind(q, n)
  BY <1>1 DEF Stays, Expected, Admitted, ReceiptsIn, Record, Behind
<1> QED BY <1>1 DEF ClosesOwn, Stays, ReceiptsIn, Expected, Record, Behind, Admitted

\* The next record, with the one before it in place.
LEMMA NextRecordOwn ==
    ASSUME TypeOK, NEW p \in Process, pc[p] \in {"check", "write"}, ClosesOwn(p), NextRecord(p),
           Admitted(run[p])', ReceiptsIn(active'[run[p]]) \subseteq {Receipt[kind[p]]},
           active'[run[p]][name[p]] = Record(p, name[p]),
           \A n \in Expected(p) \ {name[p]} : active'[run[p]][n] = active[run[p]][n]
    PROVE  ClosesOwn(p)'
<1>0. /\ run[p] \in Run /\ kind[p] \in Kind /\ now[p] \in Day /\ name[p] \in Expected(p)
      /\ \A n \in Expected(p) : Behind(p, n) => active[run[p]][n] = Record(p, n)
  BY DEF ClosesOwn, Records
<1>1. /\ run' = run /\ kind' = kind /\ now' = now
      /\ pc'[p] = IF name[p] = "projection" THEN "archive" ELSE "check"
      /\ name'[p] = IF name[p] \in Receipts THEN "claim-release"
                    ELSE IF name[p] = "claim-release" THEN "projection" ELSE None
  BY DEF NextRecord, Goto, TypeOK
<1>2. Receipt[kind[p]] \in Receipts /\ {"claim-release", "projection"} \cap Receipts = {}
  BY <1>0 DEF Receipts, Receipt, Kind
<1>3. pc'[p] # "move" /\ (pc'[p] = "check" => name'[p] \in Expected(p))
  BY <1>0, <1>1, <1>2 DEF Expected
<1>4. \A n \in Expected(p) : Behind(p, n)' => n = name[p] \/ Behind(p, n)
  BY <1>0, <1>1, <1>2 DEF Expected, Behind
<1>5. \A n \in Expected(p) : Behind(p, n)' => active'[run[p]][n] = Record(p, n)
  BY <1>0, <1>4
<1>6. Expected(p)' = Expected(p) /\ \A n \in Expected(p) : Record(p, n)' = Record(p, n)
  BY <1>1 DEF Expected, Record
<1>7. \A n \in Expected(p)' : Behind(p, n)' => active'[run'[p]][n] = Record(p, n)'
  BY <1>1, <1>5, <1>6
<1>8. pc'[p] \in {"archive", "check"}
  BY <1>1
<1> QED BY <1>0, <1>1, <1>3, <1>6, <1>7, <1>8 DEF ClosesOwn, ReceiptsIn, Admitted

\* The closing call's own steps.
LEMMA ClosingStep ==
    ASSUME CloseInv, NEW p \in Process, CheckRecord(p) \/ WriteRecord(p) \/ Archive(p)
    PROVE  ClosesOwn(p)'
<1> DEFINE r == run[p]
<1>0. /\ TypeOK /\ ClosesOwn(p) /\ pc[p] \in {"check", "write", "archive"}
      /\ active \in [Run -> Bundle \cup {None}] /\ pc \in [Process -> Points]
  BY DEF CloseInv, ClaimInv, TypeOK, CheckRecord, WriteRecord, Archive, At
<1>1. /\ r \in Run /\ kind[p] \in Kind /\ now[p] \in Day /\ Admitted(r)
      /\ ReceiptsIn(active[r]) \subseteq {Receipt[kind[p]]} /\ active[r] \in Bundle
      /\ pc[p] \in {"check", "write"} => name[p] \in Expected(p)
      /\ \A n \in Expected(p) : Behind(p, n) => active[r][n] = Record(p, n)
  BY <1>0 DEF ClosesOwn, Records, Admitted
<1>2. ASSUME pc'[p] = "idle" PROVE ClosesOwn(p)'
  BY <1>2 DEF ClosesOwn, Records
<1>3. CASE CheckRecord(p)
  <2>1. active' = active
    BY <1>0, <1>1, <1>3 DEF CheckRecord, Admitted
  <2>2. CASE Continue(p, "write")
    <3>1. pc'[p] = "write" /\ UNCHANGED <<run, kind, now, name>> /\ pc[p] = "check"
      BY <1>0, <1>3, <2>2 DEF CheckRecord, At, Continue, Goto, locals
    <3>2. Expected(p)' = Expected(p) /\ Admitted(r)' = Admitted(r) /\ ReceiptsIn(active[r])' = ReceiptsIn(active[r])
      BY <2>1, <3>1 DEF Expected, Admitted, ReceiptsIn
    <3>3. \A n \in Expected(p) : Record(p, n)' = Record(p, n) /\ (Behind(p, n)' => Behind(p, n))
      BY <3>1 DEF Record, Behind
    <3> QED BY <1>1, <2>1, <3>1, <3>2, <3>3 DEF ClosesOwn, ReceiptsIn, Admitted
  <2>3. CASE NextRecord(p) /\ active[r][name[p]] = Record(p, name[p])
    <3>1. pc[p] = "check" /\ Admitted(r)' /\ ReceiptsIn(active'[r]) \subseteq {Receipt[kind[p]]}
      BY <1>1, <1>3, <2>1, <2>3 DEF CheckRecord, At, Admitted, NextRecord
    <3> QED BY <1>0, <2>1, <2>3, <3>1, NextRecordOwn
  <2>4. CASE Return(p)
    BY <1>0, <1>2, <2>4 DEF Return, Goto
  <2> QED BY <1>1, <1>3, <2>2, <2>3, <2>4 DEF CheckRecord, Admitted
<1>4. CASE WriteRecord(p)
  <2>1. /\ NextRecord(p) /\ pc[p] = "write"
        /\ active' = [active EXCEPT ![r][name[p]] = Record(p, name[p])]
    BY <1>1, <1>4 DEF WriteRecord, At, Admitted
  <2>2. name[p] \in Expected(p) /\ Expected(p) \subseteq Name \ {"admission"} /\ Receipts \subseteq Name
    BY <1>1, <2>1 DEF Expected, Name, Published, Receipts, Receipt, Kind
  <2>3. active'[r] = [active[r] EXCEPT ![name[p]] = Record(p, name[p])]
    BY <1>0, <1>1, <2>1
  <2>4. /\ active'[r][name[p]] = Record(p, name[p]) /\ DOMAIN active'[r] = Name
        /\ \A n \in Name \ {name[p]} : active'[r][n] = active[r][n]
    BY <1>1, <2>2, <2>3 DEF Bundle
  <2>5. Admitted(r)'
    <3>1. \A x \in Run : Admitted(x)' <=> Admitted(x)
      BY <1>0, <1>4, ClosingKeepsAdmissions
    <3> QED BY <1>1, <2>1, <3>1 DEF NextRecord, Admitted
  <2>6. ReceiptsIn(active'[r]) \subseteq {Receipt[kind[p]]}
    <3>1. \A n \in Receipts : n # name[p] => active'[r][n] = active[r][n]
      BY <2>2, <2>4
    <3>2. name[p] \in Receipts => name[p] = Receipt[kind[p]]
      BY <2>2 DEF Expected, Receipts, Receipt, Kind
    <3> QED BY <1>1, <3>1, <3>2 DEF ReceiptsIn
  <2> QED BY <1>0, <2>1, <2>2, <2>4, <2>5, <2>6, NextRecordOwn
<1>5. CASE Archive(p)
  <2>1. CASE Return(p)
    BY <1>0, <1>2, <2>1 DEF Return, Goto
  <2>2. CASE ~Return(p)
    <3>1. /\ active' = [active EXCEPT ![r]["archive-manifest"] = <<kind[p], now[p]>>]
          /\ Continue(p, "move") /\ pc[p] = "archive"
      BY <1>5, <2>2 DEF Archive, At
    <3>2. "archive-manifest" \in Name /\ Receipts \subseteq Name \ {"archive-manifest"}
          /\ Expected(p) \subseteq Name \ {"archive-manifest"}
      BY <1>1 DEF Expected, Name, Published, Receipts, Receipt, Kind
    <3>3. active'[r] = [active[r] EXCEPT !["archive-manifest"] = <<kind[p], now[p]>>]
      BY <1>0, <1>1, <3>1
    <3>4. /\ active'[r]["archive-manifest"] = <<kind[p], now[p]>>
          /\ \A n \in Name \ {"archive-manifest"} : active'[r][n] = active[r][n]
      BY <1>1, <3>2, <3>3 DEF Bundle
    <3>6. pc'[p] = "move" /\ UNCHANGED <<run, kind, now, name>>
      BY <1>0, <3>1 DEF Continue, Goto, locals
    <3>5. Admitted(r)'
      <4>1. \A x \in Run : Admitted(x)' <=> Admitted(x)
        BY <1>0, <1>5, ClosingKeepsAdmissions
      <4> QED BY <1>1, <3>6, <4>1 DEF Admitted
    <3>7. ReceiptsIn(active'[r]) \subseteq {Receipt[kind[p]]}
      BY <1>1, <3>2, <3>4 DEF ReceiptsIn
    <3>8. \A n \in Expected(p) : active'[r][n] = Record(p, n) /\ Record(p, n)' = Record(p, n)
      BY <1>1, <3>1, <3>2, <3>4, <3>6 DEF Behind, Record
    <3>9. Expected(p)' = Expected(p) /\ Admitted(run[p])'
      BY <3>5, <3>6 DEF Expected, Admitted
    <3> QED BY <1>1, <3>4, <3>6, <3>7, <3>8, <3>9 DEF ClosesOwn, ReceiptsIn, Admitted
  <2> QED BY <2>1, <2>2
<1> QED BY <1>3, <1>4, <1>5

LEMMA ClosesOwnStep ==
    ASSUME KeepsToOneClosing, CloseInv, [Next]_vars PROVE \A q \in Process : ClosesOwn(q)'
<1>0. TypeOK /\ (\A q \in Process : ClosesOwn(q)) /\ pc \in [Process -> Points]
  BY DEF CloseInv, ClaimInv, TypeOK
<1>1. CASE UNCHANGED <<active, archive, pc, run, kind, now, name>>
  BY <1>0, <1>1, UndisturbedStep DEF Stays
<1>2. ASSUME NEW p \in Process, Acts(p), NEW q \in Process \ {p} PROVE ClosesOwn(q)'
  <2>1. Stays(q)
    BY <1>0, <1>2, OthersStay
  <2>2. CASE pc[q] \notin Records
    BY <2>1, <2>2 DEF Stays, ClosesOwn
  <2>3. CASE pc[q] \in Records
    <3>1. run[q] \in Run /\ ~(pc[p] # "idle" /\ run[p] = run[q])
      BY <1>0, <1>2, <2>3 DEF ClosesOwn, Records, CloseInv, OneCallEach
    <3>2. active'[run[q]] = active[run[q]]
      BY <1>0, <1>2, <3>1, OwnDirectories
    <3> QED BY <1>0, <2>1, <3>2, UndisturbedStep
  <2> QED BY <2>2, <2>3
<1>3. ASSUME NEW p \in Process, Acts(p) PROVE ClosesOwn(p)'
  <2>1. ASSUME pc'[p] \notin Records PROVE ClosesOwn(p)'
    BY <2>1 DEF ClosesOwn
  <2>2. CASE InitializeAny(p) \/ AdmitAny(p)
    BY <1>0, <2>1, <2>2 DEF InitializeAny, AdmitAny, Initialize, AdmitV2Run, Goto, Records
  <2>3. ASSUME NEW r \in Run, NEW k \in Kind, NEW t \in 1..clock, BeginClose(p, r, k, t) PROVE ClosesOwn(p)'
    <3>1. /\ run'[p] = r /\ kind'[p] = k /\ now'[p] = t /\ name'[p] = Receipt[k] /\ pc'[p] = "check"
          /\ active' = active
      BY <2>3 DEF BeginClose, Goto, TypeOK, files, CloseInv, ClaimInv
    <3>2. Admitted(r) /\ ReceiptsIn(active[r]) \cap (Receipts \ {Receipt[k]}) = {}
      BY <2>3 DEF BeginClose, MayTerminalize, MayCancel, KeepsToOneClosing
    <3>3. t \in Day
      BY <1>0 DEF TypeOK, Day
    <3>4. ReceiptsIn(active'[r]) \subseteq {Receipt[k]}
      BY <3>1, <3>2 DEF ReceiptsIn
    <3>5. \A n : ~Behind(p, n)'
      BY <3>1 DEF Behind, Receipt, Kind
    <3> QED BY <3>1, <3>2, <3>3, <3>4, <3>5 DEF ClosesOwn, Expected, Admitted, ReceiptsIn
  <2>4. CASE IoFailure(p) \/ End(p) \/ IndexArchived(p)
    BY <1>0, <2>1, <2>4 DEF IoFailure, End, IndexArchived, Return, Goto, Records
  <2>5. CASE EnsureController(p) \/ Admit(p) \/ Stage(p) \/ PublishStaged(p)
    BY <1>0, <2>1, <2>5 DEF EnsureController, Admit, Finish, Stage, PublishStaged, Return, Continue, Goto, Records
  <2>6. CASE RenameStaged(p) \/ IndexActive(p) \/ Bind(p) \/ Move(p)
    BY <1>0, <2>1, <2>6 DEF RenameStaged, IndexActive, Finish, Bind, Move, Return, Continue, Goto, Records
  <2>7. CASE CheckRecord(p) \/ WriteRecord(p) \/ Archive(p)
    BY <2>7, ClosingStep
  <2> QED BY <1>3, <2>2, <2>3, <2>4, <2>5, <2>6, <2>7 DEF Acts, Begins, Step, Close
<1> QED BY <1>1, <1>2, <1>3, OneActs

\* The directory that is moved is coherent.
LEMMA MoveCoherent ==
    ASSUME CloseInv, NEW p \in Process, Move(p)
    PROVE  /\ Coherent(active[run[p]]) /\ active[run[p]] \in Bundle /\ run[p] \in Run /\ now[p] \in Day
           /\ ReceiptsIn(active[run[p]]) = {Receipt[kind[p]]} /\ kind[p] \in Kind
<1> DEFINE dir == active[run[p]]
<1>1. /\ pc[p] = "move" /\ ClosesOwn(p) /\ active \in [Run -> Bundle \cup {None}]
  BY DEF Move, At, CloseInv, ClaimInv, TypeOK
<1>2. /\ run[p] \in Run /\ kind[p] \in Kind /\ now[p] \in Day /\ Admitted(run[p])
      /\ ReceiptsIn(dir) \subseteq {Receipt[kind[p]]} /\ dir["archive-manifest"] = <<kind[p], now[p]>>
      /\ \A n \in Expected(p) : dir[n] = Record(p, n)
  BY <1>1 DEF ClosesOwn, Records, Behind
<1>3. /\ dir[Receipt[kind[p]]] = <<kind[p], now[p]>> /\ dir["claim-release"] = <<kind[p], now[p]>>
      /\ dir["projection"] \in {<<kind[p], now[p]>>, <<kind[p], 0>>}
  <2>1. Receipt[kind[p]] # "projection" /\ Receipt[kind[p]] \in Expected(p)
    BY <1>2 DEF Expected, Receipt, Kind
  <2>2. dir[Receipt[kind[p]]] = Record(p, Receipt[kind[p]])
    BY <1>2, <2>1
  <2>3. dir["claim-release"] = Record(p, "claim-release") /\ dir["projection"] = Record(p, "projection")
    BY <1>2 DEF Expected
  <2> QED BY <2>1, <2>2, <2>3 DEF Record
<1>4. ReceiptsIn(dir) = {Receipt[kind[p]]}
  <2>1. <<kind[p], now[p]>> \in Content
    BY <1>2 DEF Content, Day
  <2>2. Receipt[kind[p]] \in Receipts /\ dir[Receipt[kind[p]]] # None
    BY <1>2, <1>3, <2>1, NoneIsNew DEF Receipts
  <2> QED BY <1>2, <2>2 DEF ReceiptsIn
<1>5. dir \in Bundle /\ dir["admission"] # None
  BY <1>1, <1>2 DEF Admitted
<1>6. \A n \in {Receipt[kind[p]], "claim-release", "archive-manifest"} : dir[n] = <<kind[p], now[p]>>
  BY <1>2, <1>3
<1> QED BY <1>2, <1>3, <1>4, <1>5, <1>6 DEF Coherent

\* Only Move changes the archive.
LEMMA ArchiveStep ==
    ASSUME TypeOK, [Next]_vars
    PROVE  \/ archive' = archive
           \/ \E p \in Process : Move(p)
<1>1. ASSUME NEW p \in Process, Begins(p) \/ IoFailure(p) \/ End(p) PROVE archive' = archive
  BY <1>1 DEF Begins, InitializeAny, AdmitAny, Close, Initialize, AdmitV2Run, BeginClose, IoFailure, End, files
<1>2. ASSUME NEW p \in Process, Step(p), ~Move(p) PROVE archive' = archive
  BY <1>2 DEF Step, EnsureController, Admit, Stage, PublishStaged, RenameStaged, IndexActive, Bind,
              CheckRecord, WriteRecord, Archive, IndexArchived, files
<1> QED
  BY <1>1, <1>2, OneActs DEF Acts

LEMMA CoherentStep == ASSUME CloseInv, [Next]_vars PROVE ArchivesCoherent'
<1>1. CASE archive' = archive
  <2>1. \A r \in Run, d \in Day : archive'[d][r] # None => Coherent(archive'[d][r])
    BY <1>1 DEF CloseInv, ArchivesCoherent, Archived
  <2> QED BY <2>1 DEF ArchivesCoherent, Archived, Coherent, ReceiptsIn
<1>2. ASSUME NEW p \in Process, Move(p) PROVE ArchivesCoherent'
  <2>1. /\ Coherent(active[run[p]]) /\ run[p] \in Run /\ now[p] \in Day
        /\ archive' = [archive EXCEPT ![now[p]][run[p]] = active[run[p]]]
        /\ archive \in [Day -> [Run -> Bundle \cup {None}]]
    BY <1>2, MoveCoherent DEF Move, CloseInv, ClaimInv, TypeOK
  <2>2. \A r \in Run, d \in Day : archive'[d][r] = archive[d][r]
                                  \/ (r = run[p] /\ d = now[p] /\ archive'[d][r] = active[run[p]])
    BY <2>1
  <2>3. \A r \in Run, d \in Day : archive'[d][r] # None => Coherent(archive'[d][r])
    BY <2>1, <2>2 DEF CloseInv, ArchivesCoherent, Archived
  <2> QED BY <2>3 DEF ArchivesCoherent, Archived, Coherent, ReceiptsIn
<1> QED BY <1>1, <1>2, ArchiveStep DEF CloseInv, ClaimInv

LEMMA CloseStep == ASSUME KeepsToOneClosing, CloseInv, [Next]_vars PROVE CloseInv'
<1>1. ClaimInv'
  BY ClaimStep DEF CloseInv
<1> QED
  BY <1>1, OneCallStep, ClosesOwnStep, CoherentStep DEF CloseInv

LEMMA InitClose == Init => CloseInv
<1> SUFFICES ASSUME Init PROVE CloseInv
  OBVIOUS
<1>1. ClaimInv
  BY InitClaim
<1>2. OneCallEach /\ \A p \in Process : ClosesOwn(p)
  BY DEF Init, OneCallEach, ClosesOwn, Records
<1>3. ArchivesCoherent
  BY DEF Init, ArchivesCoherent, Archived
<1> QED
  BY <1>1, <1>2, <1>3 DEF CloseInv

(***************************************************************************)
(* Where one command at a time works on a run, and a closing that has left *)
(* a receipt is not closed the other way, every archived run is closed in  *)
(* one way and its records agree: wherever processes die and calls fail,   *)
(* and however often a closing is tried again.                             *)
(***************************************************************************)
THEOREM ArchivesCoherentCorrect == ASSUME KeepsToOneClosing PROVE Spec => []ArchivesCoherent
<1>1. Init => CloseInv
  BY InitClose
<1>2. CloseInv /\ [Next]_vars => CloseInv'
  BY CloseStep
<1>3. CloseInv => ArchivesCoherent
  BY DEF CloseInv
<1> QED
  BY <1>1, <1>2, <1>3, PTL DEF Spec

-----------------------------------------------------------------------------
\* No record is lost.

\* At the move the destination is free: it was when the lock was taken.
LEMMA MovesFreshStep == ASSUME KeptInv, [Next]_vars PROVE MovesFresh'
<1>0. /\ TypeOK /\ HoldsLock /\ MovesFresh /\ pc \in [Process -> Points]
      /\ now \in [Process -> 0..MaxClock]
  BY DEF KeptInv, ClaimInv, TypeOK
<1> SUFFICES ASSUME NEW q \in Process, pc'[q] = "move"
             PROVE  now'[q] \in Day /\ archive'[now'[q]][run'[q]] = None
  BY DEF MovesFresh
<1>1. CASE UNCHANGED <<active, archive, pc, run, kind, now, name>>
  BY <1>0, <1>1 DEF MovesFresh
<1>2. ASSUME NEW p \in Process \ {q}, Acts(p)
      PROVE  now'[q] \in Day /\ archive'[now'[q]][run'[q]] = None
  <2>1. Stays(q)
    BY <1>0, <1>2, OthersStay
  <2>2. pc[q] = "move" /\ now[q] \in Day /\ archive[now[q]][run[q]] = None
    BY <1>0, <2>1 DEF Stays, MovesFresh
  <2>3. ~Move(p)
    BY <1>0, <1>2, <2>2 DEF Move, At, HoldsLock, LockPoints
  <2>4. archive' = archive
    <3>1. CASE Begins(p) \/ IoFailure(p) \/ End(p)
      BY <3>1 DEF Begins, InitializeAny, AdmitAny, Close, Initialize, AdmitV2Run, BeginClose, IoFailure, End, files
    <3>2. CASE Step(p)
      BY <2>3, <3>2 DEF Step, EnsureController, Admit, Stage, PublishStaged, RenameStaged, IndexActive, Bind,
                        CheckRecord, WriteRecord, Archive, IndexArchived, files
    <3> QED BY <1>2, <3>1, <3>2 DEF Acts
  <2> QED BY <2>1, <2>2, <2>4 DEF Stays
<1>3. CASE Acts(q)
  <2>1. ~(Begins(q) \/ IoFailure(q) \/ End(q) \/ Bind(q) \/ IndexArchived(q))
    BY <1>0 DEF Begins, InitializeAny, AdmitAny, Close, Initialize, AdmitV2Run, BeginClose, IoFailure, End, Bind,
                IndexArchived, Return, Goto
  <2>2. ~(EnsureController(q) \/ Admit(q) \/ Stage(q) \/ PublishStaged(q) \/ RenameStaged(q) \/ IndexActive(q))
    BY <1>0 DEF EnsureController, Admit, Finish, Stage, PublishStaged, RenameStaged, IndexActive, Continue, Return, Goto
  <2>3. ~(CheckRecord(q) \/ WriteRecord(q) \/ Move(q))
    BY <1>0 DEF CheckRecord, WriteRecord, Move, NextRecord, Continue, Return, Goto
  <2>4. Archive(q)
    BY <1>3, <2>1, <2>2, <2>3 DEF Acts, Step
  <2>5. ~Return(q)
    BY <1>0 DEF Return, Goto
  <2>6. now[q] \in Day
    BY <1>0, <2>4 DEF Archive, At, TypeOK
  <2> QED BY <2>4, <2>5, <2>6 DEF Archive, Continue, locals
<1> QED BY <1>1, <1>2, <1>3, OneActs

LEMMA KeptStep == ASSUME KeptInv, [Next]_vars PROVE KeptInv'
BY ClaimStep, MovesRunStep, MovesFreshStep DEF KeptInv

\* A record put into a directory takes none away.
LEMMA PutKeeps ==
    ASSUME NEW was \in Bundle, NEW n \in Name, NEW c \in Content
    PROVE  Keeps([was EXCEPT ![n] = c], was)
<1>1. [was EXCEPT ![n] = c] \in Bundle
  BY DEF Bundle
<1>2. \A m \in Name : was[m] # None => [was EXCEPT ![n] = c][m] # None
  BY NoneIsNew DEF Bundle
<1> QED BY <1>1, <1>2, NoneIsNew DEF Keeps

\* What a step makes of the directory of a run.
LEMMA DirectoryKept ==
    ASSUME KeptInv, [Next]_vars, NEW r \in Run, active[r] # None
    PROVE  \/ Keeps(active'[r], active[r])
           \/ \E d \in Day : archive[d][r] = None /\ Keeps(archive'[d][r], active[r])
<1>0. /\ TypeOK /\ active \in [Run -> Bundle \cup {None}] /\ active[r] \in Bundle
      /\ archive \in [Day -> [Run -> Bundle \cup {None}]]
  BY DEF KeptInv, ClaimInv, TypeOK
<1>1. CASE active'[r] = active[r]
  BY <1>1 DEF Keeps
<1>2. ASSUME NEW p \in Process, Acts(p), run[p] = r, active'[r] # active[r], pc[p] # "idle"
      PROVE  \/ Keeps(active'[r], active[r])
             \/ \E d \in Day : archive[d][r] = None /\ Keeps(archive'[d][r], active[r])
  <2>1. CASE WriteRecord(p) \/ Archive(p)
    <3>1. PICK n \in Name, c \in Content : active' = [active EXCEPT ![r][n] = c]
      BY <1>0, <1>2, <2>1, RecordStep
    <3>2. active'[r] = [active[r] EXCEPT ![n] = c]
      BY <1>0, <3>1
    <3> QED BY <1>0, <3>2, PutKeeps
  <2>2. CASE CheckRecord(p)
    BY <1>0, <1>2, <2>2 DEF CheckRecord
  <2>3. CASE RenameStaged(p)
    <3>1. active[r] = EmptyDir /\ active' = [active EXCEPT ![r] = Admission]
      BY <1>2, <2>3 DEF RenameStaged
    <3>2. active'[r] = Admission
      BY <1>0, <3>1
    <3> QED BY <3>1, <3>2, AdmissionAdmits DEF Keeps, EmptyDir
  <2>4. CASE Move(p)
    <3>0. now[p] \in Day /\ archive[now[p]][r] = None
      BY <1>2, <2>4 DEF Move, At, KeptInv, MovesFresh
    <3>1. now[p] \in Day /\ archive' = [archive EXCEPT ![now[p]][r] = active[r]]
      BY <1>2, <2>4, <3>0 DEF Move
    <3>2. archive'[now[p]][r] = active[r]
      BY <1>0, <3>1
    <3> QED BY <3>0, <3>2 DEF Keeps
  <2>5. ~Begins(p)
    BY <1>2 DEF Begins, InitializeAny, AdmitAny, Close, Initialize, AdmitV2Run, BeginClose, At
  <2>6. ~(IoFailure(p) \/ End(p) \/ EnsureController(p) \/ Admit(p) \/ Stage(p) \/ PublishStaged(p)
          \/ IndexActive(p) \/ Bind(p) \/ IndexArchived(p))
    BY <1>2 DEF IoFailure, End, EnsureController, Admit, Stage, PublishStaged, IndexActive, Bind, IndexArchived, files
  <2> QED BY <1>2, <2>1, <2>2, <2>3, <2>4, <2>5, <2>6 DEF Acts, Step
<1> QED BY <1>0, <1>1, <1>2, OneActs, OwnDirectories

\* An archived directory is never touched again.
LEMMA ArchiveKept ==
    ASSUME KeptInv, [Next]_vars, NEW r \in Run, NEW d \in Day, archive[d][r] # None
    PROVE  archive'[d][r] = archive[d][r]
<1>0. TypeOK /\ MovesFresh /\ archive \in [Day -> [Run -> Bundle \cup {None}]]
  BY DEF KeptInv, ClaimInv, TypeOK
<1>1. ASSUME NEW p \in Process, Move(p) PROVE archive'[d][r] = archive[d][r]
  <2>1. now[p] \in Day /\ archive[now[p]][run[p]] = None /\ run[p] \in Run
    BY <1>0, <1>1 DEF Move, At, MovesFresh, TypeOK
  <2>2. archive' = [archive EXCEPT ![now[p]][run[p]] = active[run[p]]]
    BY <1>1 DEF Move
  <2>3. ~(d = now[p] /\ r = run[p])
    BY <2>1
  <2> QED BY <1>0, <2>1, <2>2, <2>3
<1> QED BY <1>0, <1>1, ArchiveStep

(***************************************************************************)
(* No record is lost, whatever the operators do and wherever processes die *)
(* and calls fail: what a run's active directory holds stays there or goes *)
(* to a new archive with it, and an archived directory never changes      *)
(* (publishExpectedRecord, admitV2Run, archiveTerminalRun).                *)
(***************************************************************************)
THEOREM RecordsKeptCorrect == Spec => RecordsKept
<1>1. Init => KeptInv
  BY InitClaim DEF Init, KeptInv, MovesRun, MovesFresh
<1>2. KeptInv /\ [Next]_vars => KeptInv'
  BY KeptStep
<1>3. KeptInv /\ [Next]_vars =>
          [\A r \in Run :
              /\ active[r] # None =>
                    \/ Keeps(active'[r], active[r])
                    \/ \E d \in Day : archive[d][r] = None /\ Keeps(archive'[d][r], active[r])
              /\ \A d \in Archived(r) : archive'[d][r] = archive[d][r]]_vars
  BY DirectoryKept, ArchiveKept DEF Archived
<1> QED
  BY <1>1, <1>2, <1>3, PTL DEF Spec, RecordsKept

-----------------------------------------------------------------------------
\* A closed run is verified by the next inventory.

\* ... and a run that was archived is not admitted again.
KeepsToOneLife == KeepsToOneClosing /\ "fresh" \in Discipline

\* A run on its way to active/, or there, is not in the archive.
Admits == {"controller", "admit", "stage", "publishStaged", "renameStaged"}
AdmitsFresh ==
    \A p \in Process : pc[p] \in Admits => run[p] \in Run /\ Archived(run[p]) = {}
ActiveUnarchived == \A r \in Run : active[r] # None => Archived(r) = {}
ArchivedOnce == \A r \in Run : \A d, e \in Archived(r) : d = e

VerifyInv == CloseInv /\ AdmitsFresh /\ ActiveUnarchived /\ ArchivedOnce

\* Only the run that is moved gets another archive.
LEMMA ArchivedStep ==
    ASSUME TypeOK, [Next]_vars, NEW r \in Run, \A p \in Process : ~(Move(p) /\ run[p] = r)
    PROVE  Archived(r)' = Archived(r) /\ \A d \in Day : archive'[d][r] = archive[d][r]
<1>1. CASE archive' = archive
  BY <1>1 DEF Archived
<1>2. ASSUME NEW p \in Process, Move(p)
      PROVE  Archived(r)' = Archived(r) /\ \A d \in Day : archive'[d][r] = archive[d][r]
  <2>1. archive' = [archive EXCEPT ![now[p]][run[p]] = active[run[p]]] /\ r # run[p]
    BY <1>2 DEF Move
  <2>2. \A d \in Day : archive'[d][r] = archive[d][r]
    BY <2>1 DEF TypeOK
  <2> QED BY <2>2 DEF Archived
<1> QED BY <1>1, <1>2, ArchiveStep

\* A directory appears in active/ by the rename of its staging directory.
LEMMA AppearsBy ==
    ASSUME CloseInv, [Next]_vars, NEW r \in Run, active[r] = None, active'[r] # None
    PROVE  \E p \in Process : RenameStaged(p) /\ run[p] = r
<1>0. TypeOK /\ active \in [Run -> Bundle \cup {None}]
  BY DEF CloseInv, ClaimInv, TypeOK
<1>1. PICK p \in Process : Acts(p)
  BY OneActs
<1>2. pc[p] # "idle" /\ run[p] = r
  BY <1>0, <1>1, OwnDirectories
<1>3. ~(CheckRecord(p) \/ WriteRecord(p) \/ Archive(p) \/ Move(p))
  BY <1>0, <1>2 DEF CloseInv, ClosesOwn, Records, Admitted, CheckRecord, WriteRecord, Archive, Move, At
<1>4. ~Begins(p)
  BY <1>2 DEF Begins, InitializeAny, AdmitAny, Close, Initialize, AdmitV2Run, BeginClose, At
<1>5. ~(IoFailure(p) \/ End(p) \/ EnsureController(p) \/ Admit(p) \/ Stage(p) \/ PublishStaged(p)
        \/ IndexActive(p) \/ Bind(p) \/ IndexArchived(p))
  BY DEF IoFailure, End, EnsureController, Admit, Stage, PublishStaged, IndexActive, Bind, IndexArchived, files
<1> QED BY <1>1, <1>2, <1>3, <1>4, <1>5 DEF Acts, Step

\* How a call comes to the points of an admission or of a closing.
LEMMA ArrivesAt ==
    ASSUME TypeOK, [Next]_vars, NEW q \in Process
    PROVE  /\ pc'[q] \in Admits =>
                 \/ pc[q] \in Admits /\ run'[q] = run[q]
                 \/ \E r \in Run : (Initialize(q, r) \/ AdmitV2Run(q, r)) /\ run'[q] = r
           /\ pc'[q] \in Records =>
                 \/ pc[q] \in Records /\ run'[q] = run[q] /\ kind'[q] = kind[q]
                 \/ \E r \in Run, k \in Kind, t \in 1..clock :
                       BeginClose(q, r, k, t) /\ run'[q] = r /\ kind'[q] = k
<1> USE DEF Admits, Records
<1>0. /\ pc \in [Process -> Points] /\ run \in [Process -> Run \cup {None}] /\ kind \in [Process -> Kind \cup {None}]
  BY DEF TypeOK
<1>1. CASE UNCHANGED <<active, archive, pc, run, kind, now, name>>
  BY <1>1
<1>2. ASSUME NEW p \in Process \ {q}, Acts(p) PROVE Stays(q)
  BY <1>2, OthersStay
<1>3. CASE Begins(q)
  <2>1. CASE InitializeAny(q) \/ AdmitAny(q)
    BY <1>0, <2>1 DEF InitializeAny, AdmitAny, Initialize, AdmitV2Run, Goto
  <2>2. CASE \E k \in Kind : Close(q, k)
    <3>1. PICK k \in Kind, r \in Run, t \in 1..clock : BeginClose(q, r, k, t)
      BY <2>2 DEF Close
    <3>2. run'[q] = r /\ kind'[q] = k /\ pc'[q] = "check"
      BY <1>0, <3>1 DEF BeginClose, Goto
    <3> QED BY <3>1, <3>2
  <2> QED BY <1>3, <2>1, <2>2 DEF Begins
<1>4. CASE IoFailure(q) \/ End(q) \/ Bind(q) \/ IndexArchived(q)
  BY <1>0, <1>4 DEF IoFailure, End, Bind, IndexArchived, Return, Goto
<1>5. CASE EnsureController(q) \/ Admit(q) \/ Stage(q) \/ PublishStaged(q) \/ RenameStaged(q) \/ IndexActive(q)
  BY <1>0, <1>5 DEF EnsureController, Admit, Finish, Stage, PublishStaged, RenameStaged, IndexActive,
                    At, Continue, Return, Goto, locals
<1>6. CASE CheckRecord(q) \/ WriteRecord(q) \/ Archive(q) \/ Move(q)
  BY <1>0, <1>6 DEF CheckRecord, WriteRecord, Archive, Move, NextRecord, At, Continue, Return, Goto, locals
<1> QED
  BY <1>1, <1>2, <1>3, <1>4, <1>5, <1>6, OneActs DEF Acts, Step, Stays

LEMMA VerifyStep == ASSUME KeepsToOneLife, VerifyInv, [Next]_vars PROVE VerifyInv'
<1>0. /\ TypeOK /\ CloseInv /\ OneCallEach
      /\ AdmitsFresh /\ ActiveUnarchived /\ ArchivedOnce
  BY DEF VerifyInv, CloseInv, ClaimInv
<1>1. CloseInv'
  BY <1>0, CloseStep DEF KeepsToOneLife
<1>2. ASSUME NEW p \in Process, Move(p)
      PROVE  /\ run[p] \in Run /\ now[p] \in Day /\ pc[p] = "move" /\ Admitted(run[p])
             /\ ReceiptsIn(active[run[p]]) = {Receipt[kind[p]]} /\ kind[p] \in Kind
             /\ Archived(run[p]) = {} /\ active'[run[p]] = None
             /\ archive' = [archive EXCEPT ![now[p]][run[p]] = active[run[p]]]
  <2>1. run[p] \in Run /\ now[p] \in Day /\ ReceiptsIn(active[run[p]]) = {Receipt[kind[p]]} /\ kind[p] \in Kind
    BY <1>0, <1>2, MoveCoherent
  <2>2. pc[p] = "move" /\ Admitted(run[p])
    BY <1>0, <1>2 DEF Move, At, CloseInv, ClosesOwn, Records
  <2>3. Archived(run[p]) = {}
    BY <1>0, <2>1, <2>2 DEF ActiveUnarchived, Admitted
  <2>4. active'[run[p]] = None /\ archive' = [archive EXCEPT ![now[p]][run[p]] = active[run[p]]]
    BY <1>0, <1>2, <2>1 DEF Move, TypeOK
  <2> QED BY <2>1, <2>2, <2>3, <2>4
<1>3. AdmitsFresh'
  <2> SUFFICES ASSUME NEW q \in Process, pc'[q] \in Admits PROVE run'[q] \in Run /\ \A d \in Day : archive'[d][run'[q]] = None
    BY DEF AdmitsFresh, Archived
  <2>1. CASE pc[q] \in Admits /\ run'[q] = run[q]
    <3>1. run[q] \in Run /\ Archived(run[q]) = {}
      BY <1>0, <2>1 DEF AdmitsFresh
    <3>2. \A p \in Process : ~(Move(p) /\ run[p] = run[q])
      BY <1>0, <1>2, <2>1 DEF OneCallEach, Admits
    <3>3. \A d \in Day : archive'[d][run[q]] = archive[d][run[q]]
      BY <1>0, <3>1, <3>2, ArchivedStep
    <3> QED BY <2>1, <3>1, <3>3 DEF Archived
  <2>2. ASSUME NEW r \in Run, Initialize(q, r) \/ AdmitV2Run(q, r), run'[q] = r
        PROVE  run'[q] \in Run /\ \A d \in Day : archive'[d][run'[q]] = None
    <3>1. Archived(r) = {} /\ archive' = archive
      BY <2>2 DEF Initialize, AdmitV2Run, MayAdmit, KeepsToOneLife, files
    <3> QED BY <2>2, <3>1 DEF Archived
  <2> QED BY <1>0, <2>1, <2>2, ArrivesAt
<1>4. ActiveUnarchived'
  <2> SUFFICES ASSUME NEW r \in Run, active'[r] # None PROVE \A d \in Day : archive'[d][r] = None
    BY DEF ActiveUnarchived, Archived
  <2>1. \A p \in Process : ~(Move(p) /\ run[p] = r)
    BY <1>2
  <2>2. Archived(r) = {}
    <3>1. CASE active[r] # None
      BY <1>0, <3>1 DEF ActiveUnarchived
    <3>2. CASE active[r] = None
      BY <1>0, <3>2, AppearsBy DEF AdmitsFresh, Admits, RenameStaged, At
    <3> QED BY <3>1, <3>2
  <2> QED BY <1>0, <2>1, <2>2, ArchivedStep DEF Archived
<1>5. ArchivedOnce'
  <2> SUFFICES ASSUME NEW r \in Run
               PROVE  \A d, e \in Day : archive'[d][r] # None /\ archive'[e][r] # None => d = e
    BY DEF ArchivedOnce, Archived
  <2>1. CASE \A p \in Process : ~(Move(p) /\ run[p] = r)
    <3>1. \A d \in Day : archive'[d][r] = archive[d][r]
      BY <1>0, <2>1, ArchivedStep
    <3>2. \A d, e \in Day : archive[d][r] # None /\ archive[e][r] # None => d = e
      BY <1>0 DEF ArchivedOnce, Archived
    <3> QED BY <3>1, <3>2
  <2>2. ASSUME NEW p \in Process, Move(p), run[p] = r
        PROVE  \A d, e \in Day : archive'[d][r] # None /\ archive'[e][r] # None => d = e
    <3>1. \A d \in Day : archive'[d][r] # None => d = now[p]
      BY <1>0, <1>2, <2>2 DEF Archived, TypeOK
    <3> QED BY <3>1
  <2> QED BY <2>1, <2>2
<1> QED
  BY <1>1, <1>3, <1>4, <1>5 DEF VerifyInv

LEMMA InitVerify == Init => VerifyInv
<1> SUFFICES ASSUME Init PROVE VerifyInv
  OBVIOUS
<1>1. CloseInv
  BY InitClose
<1>2. AdmitsFresh
  BY DEF Init, AdmitsFresh, Admits
<1>3. \A r \in Run : Archived(r) = {}
  BY DEF Init, Archived
<1> QED
  BY <1>1, <1>2, <1>3 DEF VerifyInv, ActiveUnarchived, ArchivedOnce

(***************************************************************************)
(* Where one command at a time works on a run, in one way, and no archived *)
(* run is admitted again: a closed run whose controller was bound to it,   *)
(* and complete if it was closed as delivered, is verified by every later  *)
(* inventory, so that no admission waits for it, wherever processes die    *)
(* and calls fail (validTerminalV2Controller, terminalizeV2Run,            *)
(* cancelExpiredV2Run).                                                    *)
(***************************************************************************)
THEOREM BoundRunsVerifyCorrect == ASSUME KeepsToOneLife PROVE Spec => []BoundRunsVerify
<1>1. Init => VerifyInv
  BY InitVerify
<1>2. VerifyInv /\ [Next]_vars => VerifyInv'
  BY VerifyStep
<1>3. VerifyInv => BoundRunsVerify
  <2> SUFFICES ASSUME VerifyInv, NEW r \in Run, Archived(r) # {}, active[r] = None, ClosedInOrder(r)
               PROVE  VerifiedTerminal(r)
    BY DEF BoundRunsVerify
  <2>1. PICK d \in Day : d \in Archived(r)
    BY DEF Archived
  <2>2. Archived(r) = {d}
    BY <2>1 DEF VerifyInv, ArchivedOnce
  <2>3. Coherent(archive[d][r])
    BY <2>1 DEF VerifyInv, CloseInv, ArchivesCoherent
  <2>4. controller[r] \in {"admitted", "done"} /\ (archive[d][r][Receipt.terminalization] # None => controller[r] = "done")
    BY <2>1 DEF ClosedInOrder, ClosedBy, Receipt
  <2> QED BY <2>2, <2>3, <2>4 DEF VerifiedTerminal
<1> QED
  BY <1>1, <1>2, <1>3, PTL DEF Spec

-----------------------------------------------------------------------------
\* Read as one claim, the directories implement RepositoryClaim.

\* Without a move nothing is closed.
LEMMA ClosedStays ==
    ASSUME VerifyInv, [Next]_vars, NEW r \in Run, \A p \in Process : ~(Move(p) /\ run[p] = r)
    PROVE  ClosedAs(r)' = ClosedAs(r)
<1>1. Archived(r)' = Archived(r) /\ \A d \in Day : archive'[d][r] = archive[d][r]
  BY ArchivedStep DEF VerifyInv, CloseInv, ClaimInv
<1>2. Archived(r) \subseteq Day
  BY DEF Archived
<1>3. \A k \in Kind :
        (\E d \in Archived(r)' : archive'[d][r][Receipt[k]] # None)
        <=> \E d \in Archived(r) : archive[d][r][Receipt[k]] # None
  BY <1>1, <1>2
<1> QED BY <1>3 DEF ClosedAs

\* What is admitted changes only by a move, or by the one admission of a run that
\* was not closed while no other was there.
LEMMA AdmissionsStep ==
    ASSUME VerifyInv, [Next]_vars, \A p \in Process : ~Move(p)
    PROVE  \/ \A r \in Run : Admitted(r)' <=> Admitted(r)
           \/ \E q \in Run : /\ Archived(q) = {}
                             /\ \A r \in Run : ~Admitted(r) /\ (Admitted(r)' <=> r = q)
<1>0. /\ TypeOK /\ active \in [Run -> Bundle \cup {None}] /\ AdmitsFresh /\ StagesAlone
      /\ pc \in [Process -> Points]
  BY DEF VerifyInv, CloseInv, ClaimInv, TypeOK
<1>1. CASE UNCHANGED active
  BY <1>1 DEF Admitted
<1>2. ASSUME NEW p \in Process, CheckRecord(p) \/ WriteRecord(p) \/ Archive(p)
      PROVE  \A r \in Run : Admitted(r)' <=> Admitted(r)
  BY <1>0, <1>2, ClosingKeepsAdmissions
<1>3. ASSUME NEW p \in Process, RenameStaged(p), active' # active
      PROVE  \E q \in Run : /\ Archived(q) = {}
                            /\ \A r \in Run : ~Admitted(r) /\ (Admitted(r)' <=> r = q)
  <2>1. pc[p] = "renameStaged" /\ active' = [active EXCEPT ![run[p]] = Admission]
    BY <1>3 DEF RenameStaged, At
  <2>2. run[p] \in Run /\ Archived(run[p]) = {} /\ \A r \in Run : ~Admitted(r)
    BY <1>0, <2>1 DEF AdmitsFresh, Admits, StagesAlone
  <2>3. \A r \in Run : active'[r] = IF r = run[p] THEN Admission ELSE active[r]
    BY <1>0, <2>1
  <2>4. \A r \in Run : Admitted(r)' <=> r = run[p]
    BY <2>2, <2>3, AdmissionAdmits DEF Admitted
  <2> QED BY <2>2, <2>4
<1>4. ASSUME NEW p \in Process, Begins(p) \/ IoFailure(p) \/ End(p) PROVE UNCHANGED active
  BY <1>4 DEF Begins, InitializeAny, AdmitAny, Close, Initialize, AdmitV2Run, BeginClose, IoFailure, End, files
<1>5. ASSUME NEW p \in Process, \/ EnsureController(p) \/ Admit(p) \/ Stage(p) \/ PublishStaged(p)
                                \/ IndexActive(p) \/ Bind(p) \/ IndexArchived(p)
      PROVE  UNCHANGED active
  BY <1>5 DEF EnsureController, Admit, Stage, PublishStaged, IndexActive, Bind, IndexArchived, files
<1> QED BY <1>1, <1>2, <1>3, <1>4, <1>5, OneActs DEF Acts, Step

\* A move closes the one admitted run in the way of the call.
LEMMA MoveCloses ==
    ASSUME VerifyInv, [Next]_vars, NEW p \in Process, Move(p)
    PROVE  Repository!Close(run[p], kind[p]) /\ run[p] \in Run /\ kind[p] \in Kind
<1>r. PICK r \in Run : r = run[p]
  BY MoveCoherent DEF VerifyInv
<1>0. /\ TypeOK /\ OneActiveRun /\ OneCallEach /\ ActiveUnarchived
      /\ active \in [Run -> Bundle \cup {None}] /\ archive \in [Day -> [Run -> Bundle \cup {None}]]
  BY DEF VerifyInv, CloseInv, ClaimInv, TypeOK
<1>1. /\ r \in Run /\ now[p] \in Day /\ kind[p] \in Kind
      /\ ReceiptsIn(active[r]) = {Receipt[kind[p]]} /\ active[r] \in Bundle
  BY <1>r, MoveCoherent DEF VerifyInv
<1>2. Admitted(r)
  BY <1>r DEF VerifyInv, CloseInv, ClosesOwn, Records, Move, At
<1>3. /\ active' = [active EXCEPT ![r] = None]
      /\ archive' = [archive EXCEPT ![now[p]][r] = active[r]]
  BY <1>r DEF Move
<1>4. Claim = r
  BY <1>0, <1>1, <1>2 DEF Claim, OneActiveRun
<1>5. Claim' = None
  <2>1. \A x \in Run : ~Admitted(x)'
    <3>1. \A x \in Run \ {r} : active'[x] = active[x] /\ ~Admitted(x)
      BY <1>0, <1>1, <1>2, <1>3 DEF OneActiveRun
    <3>2. active'[r] = None
      BY <1>0, <1>1, <1>3
    <3> QED BY <3>1, <3>2 DEF Admitted
  <2> QED BY <2>1 DEF Claim
<1>6. \A x \in Run \ {r} : ClosedAs(x)' = ClosedAs(x)
  <2>1. \A x \in Run \ {r} : \A q \in Process : ~(Move(q) /\ run[q] = x)
    <3>1. ASSUME NEW q \in Process, Move(q), run[q] # r PROVE FALSE
      <4>1. run[q] \in Run /\ Admitted(run[q])
        BY <3>1, MoveCoherent DEF VerifyInv, CloseInv, ClosesOwn, Records, Move, At
      <4> QED BY <1>0, <1>1, <1>2, <3>1, <4>1 DEF OneActiveRun
    <3> QED BY <3>1
  <2> QED BY <2>1, ClosedStays
<1>7. ClosedAs(r)' = kind[p]
  <2>1. Archived(r) = {}
    BY <1>0, <1>1, <1>2 DEF ActiveUnarchived, Admitted
  <2>2. archive'[now[p]][r] = active[r] /\ \A d \in Day \ {now[p]} : archive'[d][r] = None
    BY <1>0, <1>1, <1>3, <2>1 DEF Archived
  <2>3. Archived(r)' = {now[p]}
    <3>1. archive'[now[p]][r] # None
      BY <1>2, <2>2 DEF Admitted
    <3> QED BY <1>1, <2>2, <3>1 DEF Archived
  <2>4. \A k \in Kind : active[r][Receipt[k]] # None <=> k = kind[p]
    <3>1. \A k \in Kind : Receipt[k] \in Receipts /\ (Receipt[k] = Receipt[kind[p]] => k = kind[p])
      BY <1>1 DEF Receipts, Receipt, Kind
    <3> QED BY <1>1, <3>1 DEF ReceiptsIn
  <2>5. \A k \in Kind : (\E d \in Archived(r)' : archive'[d][r][Receipt[k]] # None) <=> k = kind[p]
    BY <2>2, <2>3, <2>4
  <2> QED BY <1>1, <2>5 DEF ClosedAs
<1>8. [x \in Run |-> ClosedAs(x)]' = [[x \in Run |-> ClosedAs(x)] EXCEPT ![r] = kind[p]]
  BY <1>1, <1>6, <1>7
<1> QED BY <1>r, <1>1, <1>4, <1>5, <1>8 DEF Repository!Close

LEMMA RepositoryStep ==
    ASSUME VerifyInv, [Next]_vars
    PROVE  [Repository!Next]_<<Claim, [r \in Run |-> ClosedAs(r)]>>
<1>1. ASSUME NEW p \in Process, Move(p) PROVE Repository!Next
  BY <1>1, MoveCloses DEF Repository!Next
<1>2. ASSUME \A p \in Process : ~Move(p)
      PROVE  [Repository!Next]_<<Claim, [r \in Run |-> ClosedAs(r)]>>
  <2>1. \A r \in Run : ClosedAs(r)' = ClosedAs(r)
    BY <1>2, ClosedStays
  <2>2. [r \in Run |-> ClosedAs(r)]' = [r \in Run |-> ClosedAs(r)]
    BY <2>1
  <2>3. CASE \A r \in Run : Admitted(r)' <=> Admitted(r)
    BY <2>2, <2>3 DEF Claim
  <2>4. ASSUME NEW q \in Run, Archived(q) = {}, \A r \in Run : ~Admitted(r) /\ (Admitted(r)' <=> r = q)
        PROVE  Repository!Admit(q)
    <3>1. Claim = None /\ Claim' = q
      BY <2>4 DEF Claim
    <3>2. ClosedAs(q) = None
      BY <2>4 DEF ClosedAs
    <3> QED BY <2>2, <3>1, <3>2 DEF Repository!Admit
  <2> QED BY <1>2, <2>3, <2>4, AdmissionsStep DEF Repository!Next
<1> QED BY <1>1, <1>2

(***************************************************************************)
(* Where one command at a time works on a run, in one way, and no archived *)
(* run is admitted again, the directories of a repository implement one    *)
(* claim: each run is admitted once, while no other is, and closed once,   *)
(* in one way (initializeV2Delivery, terminalizeV2Run,                     *)
(* cancelExpiredV2Run, archiveTerminalRun).                                *)
(***************************************************************************)
THEOREM RunImplementsClaim == ASSUME KeepsToOneLife PROVE Spec => ImplementsClaim
<1>1. Init => VerifyInv /\ Repository!Init
  <2> SUFFICES ASSUME Init PROVE VerifyInv /\ Repository!Init
    OBVIOUS
  <2>1. Claim = None
    BY DEF Init, Claim, Admitted
  <2>2. \A r \in Run : ClosedAs(r) = None
    BY DEF Init, ClosedAs, Archived
  <2> QED BY <2>1, <2>2, InitVerify DEF Repository!Init
<1>2. VerifyInv /\ [Next]_vars => VerifyInv'
  BY VerifyStep
<1>3. VerifyInv /\ [Next]_vars => [Repository!Next]_<<Claim, [r \in Run |-> ClosedAs(r)]>>
  BY RepositoryStep
<1> QED
  BY <1>1, <1>2, <1>3, PTL DEF Spec, ImplementsClaim, Repository!Spec

================================================================================
