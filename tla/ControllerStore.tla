--------------------------- MODULE ControllerStore ---------------------------
(***************************************************************************)
(* The durable controller record of scripts/sdd/autonomous-sdd-controller  *)
(* .mjs and the processes that change it: every mutation wrapper reads the *)
(* record, compares it with the caller's copy, and persists the successor  *)
(* under a record lock with a compare-and-swap digest; early retirement    *)
(* takes the same lock to publish the two create-only marker files of      *)
(* autonomous-sdd-controller-retirement.mjs.                               *)
(*                                                                         *)
(* The record is abstracted to the set of updates it holds, so a digest    *)
(* comparison is equality of sets.  One action per file-system or process  *)
(* call another process can observe.  The lock file is identified by its   *)
(* owner's pid: that is all the code reads from it.                        *)
(***************************************************************************)
EXTENDS Naturals, FiniteSets

CONSTANTS
    Process,      \* the processes that run controller operations
    Op,           \* the updates a mutation wrapper can add to the record
    None,         \* no lock file, no owner seen, no intent
    EndPoints,    \* the points at which a process may end
    MaxClock      \* bound on the clock that stamps retirements

Marker == {"retiring", "retired"}   \* what a retirer wants published

\* "link0" and "link1" are the two rounds of acquireControllerRecordLock.
Acquiring == {"link0", "inspect", "probe", "unlink", "link1"}
Locked == {"checkRetired", "compare", "rename", "baseline", "publish",
           "terminal", "release", "releaseArchive"}
Points == {"idle", "read", "precheck", "receipt", "archive"} \cup Acquiring \cup Locked

ASSUME NoneIsNew == None \notin Process /\ None \notin Op
ASSUME OpsAreNotMarkers == Op \cap Marker = {}
ASSUME EndPointsArePoints == EndPoints \subseteq Points
ASSUME ClockBound == MaxClock \in Nat \ {0}

VARIABLES
    record,       \* controller.json: the updates it holds
    retiring,     \* controller-retirement.json: its createdAt, or 0 when absent
    terminal,     \* controller-terminal.json is published
    receipt,      \* createdAt of active/<run>/cancellation-receipt.json, or 0
    archived,     \* createdAt of the archived run's cancellation receipt, or 0
    lock,         \* the owner of ".controller.json.lock", or None
    pc,           \* the point each process is at
    intent,       \* the update or marker each process wants to publish
    base,         \* the copy of the record each process was given
    seen,         \* the lock owner each process read
    now,          \* the timestamp of each process's retirement call
    running,      \* the processes that have not ended
    clock

vars == <<record, retiring, terminal, receipt, archived, lock, pc, intent, base,
          seen, now, running, clock>>
files == <<record, retiring, terminal, receipt, archived>>
locals == <<intent, base, seen, now>>

Dead(p) == p \notin running

At(p, point) == p \in running /\ pc[p] = point

Goto(p, point) == pc' = [pc EXCEPT ![p] = point]

\* The call goes on at point with its local variables, or returns and loses them.
Continue(p, point) == Goto(p, point) /\ UNCHANGED locals
Return(p) ==
    /\ Goto(p, "idle")
    /\ intent' = [intent EXCEPT ![p] = None]
    /\ base' = [base EXCEPT ![p] = {}]
    /\ seen' = [seen EXCEPT ![p] = None]
    /\ now' = [now EXCEPT ![p] = 0]

Init ==
    /\ record = {} /\ retiring = 0 /\ terminal = FALSE
    /\ receipt = 0 /\ archived = 0
    /\ lock = None
    /\ pc = [p \in Process |-> "idle"]
    /\ intent = [p \in Process |-> None]
    /\ base = [p \in Process |-> {}]
    /\ seen = [p \in Process |-> None]
    /\ now = [p \in Process |-> 0]
    /\ running = Process
    /\ clock = 1

Tick ==
    /\ clock < MaxClock
    /\ clock' = clock + 1
    /\ UNCHANGED <<files, lock, pc, locals, running>>

-----------------------------------------------------------------------------
\* A mutation wrapper.

\* Every register and bind function refuses what the record holds already.
New(op) == op \notin record

\* The caller takes a copy of the record and prepares an update; the wrapper may
\* be called any time later.
Prepare(p, op) ==
    /\ At(p, "idle")
    /\ New(op)
    /\ intent' = [intent EXCEPT ![p] = op]
    /\ base' = [base EXCEPT ![p] = record]
    /\ Goto(p, "read")
    /\ UNCHANGED <<files, lock, seen, now, running, clock>>

InRetirement == retiring # 0 \/ terminal

\* readPersistedControllerRecord and the comparison with the caller's copy.
ReadPersisted(p) ==
    /\ At(p, "read")
    /\ IF InRetirement \/ record # base[p] THEN Return(p) ELSE Continue(p, "precheck")
    /\ UNCHANGED <<files, lock, running, clock>>

\* persistControllerRecord reads the markers before it takes the lock ...
PreCheckRetired(p) ==
    /\ At(p, "precheck")
    /\ IF InRetirement THEN Return(p) ELSE Continue(p, "link0")
    /\ UNCHANGED <<files, lock, running, clock>>

\* Mutant of CheckRetired: the markers are not read again under the lock.
CheckRetiredSkipped(p) ==
    /\ At(p, "checkRetired")
    /\ Continue(p, "compare")
    /\ UNCHANGED <<files, lock, running, clock>>

\* ... and again under the lock,
CheckRetired(p) ==
    /\ At(p, "checkRetired")
    /\ Continue(p, IF InRetirement THEN "release" ELSE "compare")
    /\ UNCHANGED <<files, lock, running, clock>>

\* Mutant of CompareDigest: the digest is not compared under the lock.
CompareDigestSkipped(p) ==
    /\ At(p, "compare")
    /\ Continue(p, "rename")
    /\ UNCHANGED <<files, lock, running, clock>>

\* compares the digest of the durable record with the expected one,
CompareDigest(p) ==
    /\ At(p, "compare")
    /\ Continue(p, IF record = base[p] THEN "rename" ELSE "release")
    /\ UNCHANGED <<files, lock, running, clock>>

\* and renames the synced temporary file over the record.
RenameRecord(p) ==
    /\ At(p, "rename")
    /\ record' = base[p] \cup {intent[p]}
    /\ Continue(p, "release")
    /\ UNCHANGED <<retiring, terminal, receipt, archived, lock, running, clock>>

-----------------------------------------------------------------------------
\* acquireControllerRecordLock and the release in the finally blocks.

\* Mutant of LinkLock: whoever takes the lock updates the record.
LinkLockUpdates(p) ==
    /\ At(p, "link0") \/ At(p, "link1")
    /\ lock = None
    /\ lock' = p
    /\ Continue(p, "checkRetired")
    /\ UNCHANGED <<files, running, clock>>

LinkLock(p) ==
    /\ At(p, "link0") \/ At(p, "link1")
    /\ lock = None
    /\ lock' = p
    /\ Continue(p, IF intent[p] \in Op THEN "checkRetired" ELSE "baseline")
    /\ UNCHANGED <<files, running, clock>>

\* Mutant of LockExists: a lock that exists is never inspected.
LockExistsGivesUp(p) ==
    /\ lock # None
    /\ At(p, "link0") \/ At(p, "link1")
    /\ Return(p)
    /\ UNCHANGED <<files, lock, running, clock>>

LockExists(p) ==
    /\ lock # None
    /\ \/ At(p, "link0") /\ Continue(p, "inspect")
       \/ At(p, "link1") /\ Return(p)
    /\ UNCHANGED <<files, lock, running, clock>>

\* The lock file is read; ENOENT when it is gone.
InspectLock(p) ==
    /\ At(p, "inspect")
    /\ IF lock = None THEN Return(p)
       ELSE /\ seen' = [seen EXCEPT ![p] = lock]
            /\ Goto(p, "probe")
            /\ UNCHANGED <<intent, base, now>>
    /\ UNCHANGED <<files, lock, running, clock>>

\* Mutant of ProbeOwner: every owner counts as dead.
ProbeOwnerBlind(p) ==
    /\ At(p, "probe")
    /\ Continue(p, "unlink")
    /\ UNCHANGED <<files, lock, running, clock>>

ProbeOwner(p) ==
    /\ At(p, "probe")
    /\ IF Dead(seen[p]) THEN Continue(p, "unlink") ELSE Return(p)
    /\ UNCHANGED <<files, lock, running, clock>>

\* unlinkSync(lock): whatever is at the name now; ENOENT when nothing is.
UnlinkLock(p) ==
    /\ At(p, "unlink")
    /\ lock' = None
    /\ IF lock = None THEN Return(p)
       ELSE /\ seen' = [seen EXCEPT ![p] = None]
            /\ Goto(p, "link1")
            /\ UNCHANGED <<intent, base, now>>
    /\ UNCHANGED <<files, running, clock>>

ReleaseLock(p) ==
    /\ \/ At(p, "release") /\ Return(p)
       \/ At(p, "releaseArchive") /\ Continue(p, "receipt")
    /\ lock' = None
    /\ UNCHANGED <<files, running, clock>>

-----------------------------------------------------------------------------
\* retireBlockedV2Run -> cancelV2Run -> ensureControllerRetirementEvidence.

\* controllerMatchesRetirementBaseline: the record shows no progress.
AtBaseline == record = {}

\* activeRunHasProgressArtifacts: a file besides the admission records, the
\* cancellation receipt of an earlier try included.
ProgressArtifacts == receipt # 0

\* Mutant of Retire: a run that is archived already is not looked for.
RetireActive(p) ==
    /\ At(p, "idle")
    /\ archived = 0 /\ ~ProgressArtifacts /\ AtBaseline
    /\ intent' = [intent EXCEPT ![p] = "retiring"]
    /\ now' = [now EXCEPT ![p] = clock]
    /\ Goto(p, "link0")
    /\ UNCHANGED <<files, lock, base, seen, running, clock>>

\* With the run archived already only the markers are completed, from the
\* archived receipt; otherwise the unlocked checks come first, which refuse a run
\* that an earlier try left with its receipt.  The payload's "now" may be the one
\* of an earlier try.
Retire(p) ==
    /\ At(p, "idle")
    /\ \/ /\ archived # 0
          /\ intent' = [intent EXCEPT ![p] = "retired"]
          /\ now' = [now EXCEPT ![p] = archived]
       \/ /\ archived = 0 /\ ~ProgressArtifacts /\ AtBaseline
          /\ intent' = [intent EXCEPT ![p] = "retiring"]
          /\ \E t \in {clock, retiring} \ {0} : now' = [now EXCEPT ![p] = t]
    /\ Goto(p, "link0")
    /\ UNCHANGED <<files, lock, base, seen, running, clock>>

\* Mutant of CheckBaseline: the record is not read again under the lock.
CheckBaselineSkipped(p) ==
    /\ At(p, "baseline")
    /\ Continue(p, "publish")
    /\ UNCHANGED <<files, lock, running, clock>>

CheckBaseline(p) ==
    /\ At(p, "baseline")
    /\ Continue(p, IF AtBaseline THEN "publish" ELSE "release")
    /\ UNCHANGED <<files, lock, running, clock>>

\* publishControllerMarker: create-only; an existing marker must be identical.
PublishRetirement(p) ==
    /\ At(p, "publish")
    /\ \/ /\ retiring \in {0, now[p]}
          /\ retiring' = now[p]
          /\ Continue(p, IF intent[p] = "retired" THEN "terminal"
                         ELSE "releaseArchive")
       \/ /\ retiring \notin {0, now[p]}
          /\ Continue(p, "release")
          /\ UNCHANGED retiring
    /\ UNCHANGED <<record, terminal, receipt, archived, lock, running, clock>>

PublishTerminal(p) ==
    /\ At(p, "terminal")
    /\ terminal' = TRUE
    /\ Continue(p, "release")
    /\ UNCHANGED <<record, retiring, receipt, archived, lock, running, clock>>

\* The cancellation receipt is published in the run's active directory (which
\* publishing makes anew if it was archived meanwhile); the claim release and the
\* projection follow it.
PublishReceipt(p) ==
    /\ At(p, "receipt")
    /\ receipt' = now[p]
    /\ Continue(p, "archive")
    /\ UNCHANGED <<record, retiring, terminal, archived, lock, running, clock>>

\* archiveTerminalRun: the directory is renamed into the archive, unless another
\* command holds the repository mutation lock or the run is archived already.
ArchiveRun(p) ==
    /\ At(p, "archive")
    /\ \/ Return(p) /\ UNCHANGED <<receipt, archived>>
       \/ /\ archived = 0
          /\ archived' = now[p]
          /\ receipt' = 0
          /\ intent' = [intent EXCEPT ![p] = "retired"]
          /\ Goto(p, "link0")
          /\ UNCHANGED <<base, seen, now>>
    /\ UNCHANGED <<record, retiring, terminal, lock, running, clock>>

-----------------------------------------------------------------------------
\* The process exits or is killed; its files stay and its memory is gone.
End(p) ==
    /\ p \in running
    /\ pc[p] \in EndPoints
    /\ running' = running \ {p}
    /\ Return(p)
    /\ UNCHANGED <<files, lock, clock>>

Step(p) ==
    \/ ReadPersisted(p) \/ PreCheckRetired(p) \/ CheckRetired(p)
    \/ CompareDigest(p) \/ RenameRecord(p)
    \/ LinkLock(p) \/ LockExists(p) \/ InspectLock(p) \/ ProbeOwner(p)
    \/ UnlinkLock(p) \/ ReleaseLock(p)
    \/ CheckBaseline(p) \/ PublishRetirement(p) \/ PublishTerminal(p)
    \/ PublishReceipt(p) \/ ArchiveRun(p)

PrepareAny(p) == \E op \in Op : Prepare(p, op)

Call(p) == PrepareAny(p) \/ Retire(p)

Next == Tick \/ \E p \in Process : Call(p) \/ Step(p) \/ End(p)

Spec == Init /\ [][Next]_vars

\* The environment in which a reclaimed lock is safe: from seeing the lock of
\* a dead owner until it is unlinked, no other process uses the lock.
QuietReclaim ==
    \A p \in running : pc[p] \in {"probe", "unlink"} /\ Dead(seen[p]) =>
        \A q \in running \ {p} : pc[q] \notin Acquiring \cup Locked

QuietSpec == Init /\ [][Next /\ QuietReclaim']_vars

\* A retirement that published its marker, with the payload it began with.
RetireAgain(p) == Retire(p) /\ (archived = 0 => now'[p] = retiring)

\* A started call runs on (it is synchronous code); the callers keep calling as
\* long as there is an update to make or a retirement to complete.
RetrySpec ==
    Spec /\ \A p \in Process :
        WF_vars(Step(p)) /\ SF_vars(PrepareAny(p)) /\ SF_vars(RetireAgain(p))

-----------------------------------------------------------------------------
TypeOK ==
    /\ record \subseteq Op
    /\ retiring \in 0..MaxClock
    /\ terminal \in BOOLEAN
    /\ receipt \in 0..MaxClock
    /\ archived \in 0..MaxClock
    /\ lock \in Process \cup {None}
    /\ pc \in [Process -> Points]
    /\ intent \in [Process -> Op \cup Marker \cup {None}]
    /\ base \in [Process -> SUBSET Op]
    /\ seen \in [Process -> Process \cup {None}]
    /\ now \in [Process -> 0..MaxClock]
    /\ running \subseteq Process
    /\ clock \in 1..MaxClock
    /\ \A p \in Process : pc[p] \in {"checkRetired", "compare", "rename"} =>
          intent[p] \in Op

\* No two live processes are between taking and releasing the record lock.
OneHolder ==
    \A p, q \in running : pc[p] \in Locked /\ pc[q] \in Locked => p = q

\* The compare-and-swap never lets a caller's older copy erase an update that
\* another process completed.
NoLostUpdate == [][record \subseteq record']_record

\* Retirement is for a run with no progress, and progress is for a run that is
\* not being retired: the two never meet, whatever order the calls come in.
RetiredMadeNoProgress == retiring # 0 \/ terminal \/ archived # 0 => record = {}

StaleLock == lock # None /\ Dead(lock)

\* A retirement that stopped between its cancellation receipt and the archive: the
\* receipt counts as progress, so every further try is refused.
Stranded ==
    /\ archived = 0 /\ receipt # 0
    /\ \A p \in running : intent[p] # "retiring"

\* A crash leaves no lock that blocks recovery for ever, as long as some live
\* process has an update to make or a retirement to complete (a stranded record
\* has neither: its calls are refused before they reach the lock).
StaleLockReclaimed ==
    StaleLock ~> (~StaleLock \/ running = {} \/ record = Op \/ Stranded)

\* A started retirement is completed by the retries of a live process, wherever
\* it stopped, unless it stopped with its receipt still in the active directory.
RetirementFinishes == retiring # 0 ~> (terminal \/ running = {} \/ Stranded)

State ==
    IF terminal THEN "retired" ELSE IF retiring # 0 THEN "retiring" ELSE "active"

Store == INSTANCE RetirableRecord WITH state <- State

\* The files, read as one record with a retirement state, change only by whole
\* updates, and only in the order the abstract record allows.
ImplementsRecord == Store!Spec

-----------------------------------------------------------------------------
\* Why a reclaimed lock is safe under QuietSpec: whoever is between acquire and
\* release owns the lock; only a dead owner's lock is unlinked; and what the
\* holder checked under the lock still holds when it acts on it.
HolderOwnsLock == \A p \in running : pc[p] \in Locked => lock = p
UnlinksDeadOwner == \A p \in running : pc[p] = "unlink" => Dead(seen[p])
IntentNew ==
    \A p \in running : pc[p] # "idle" =>
        IF intent[p] \in Op THEN intent[p] \notin base[p]
        ELSE intent[p] \in Marker /\ now[p] # 0
CheckedUnderLock ==
    \A p \in running :
        /\ pc[p] \in {"baseline", "publish", "terminal"} => intent[p] \notin Op
        /\ pc[p] \in {"compare", "rename"} => ~InRetirement
        /\ pc[p] = "rename" => base[p] = record
        /\ pc[p] \in {"publish", "terminal"} => record = {}
        /\ pc[p] = "terminal" => retiring # 0
MarkersInOrder ==
    /\ terminal \/ archived # 0 => retiring # 0
    /\ retiring # 0 => record = {}
    /\ \A p \in running : pc[p] \in {"releaseArchive", "receipt", "archive"} =>
          retiring # 0 /\ intent[p] \notin Op

SafeInv ==
    /\ TypeOK /\ QuietReclaim
    /\ HolderOwnsLock /\ UnlinksDeadOwner /\ CheckedUnderLock /\ IntentNew
    /\ MarkersInOrder
=============================================================================
