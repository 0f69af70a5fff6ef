----------------------------- MODULE RunLifecycle -----------------------------
(***************************************************************************)
(* The life of the v2 runs of one repository on disk: initialization and   *)
(* admission (initializeV2Delivery, autonomous-sdd-admission.mjs),         *)
(* terminalization and expired cancellation (terminalizeV2Run,             *)
(* cancelExpiredV2Run), archiving (archiveTerminalRun), and the retirement *)
(* of an expired pending controller.                                       *)
(*                                                                         *)
(* A run is an authorization: every identity of it is derived from the     *)
(* authorization's digest.  A record is abstracted to what distinguishes   *)
(* two versions of it: how it came to be and the timestamp inside it.      *)
(* Admission and archiving hold the repository mutation lock, taken here   *)
(* as RepositoryMutex describes it (MutationLock implements that).         *)
(***************************************************************************)
EXTENDS Naturals, FiniteSets

CONSTANTS
    Process,
    Run,
    None,              \* no directory, no record, nobody, no run
    EndPoints,         \* the points at which a process may end
    FailPoints,        \* the points at which a file-system call may fail
    Discipline,        \* what the operators keep to, see below
    Deadline,          \* each authorization's expiresAt
    MaxClock,          \* bound on the clock
    MaxFailures        \* bound on the failing file-system calls

Kind == {"terminalization", "cancellation"}

\* How the operators use the commands; the code enforces none of these.
\*   initializer  a run is admitted by initialize-v2-delivery, not admit-v2-run
\*   oneCall      one command at a time for one run
\*   fresh        a run that was archived is not admitted again
\*   oneKind      a closing that published its receipt is not closed the other way
ASSUME Disciplines ==
    Discipline \subseteq {"initializer", "oneCall", "fresh", "oneKind"}

\* The files of a run's directory; "admission" stands for parent-run,
\* work-unit and resource-claim, which only appear together.
Receipt == [terminalization |-> "terminalization-receipt",
            cancellation |-> "cancellation-receipt"]
Receipts == {Receipt[k] : k \in Kind}
Published == Receipts \cup {"claim-release", "projection"}
Name == Published \cup {"admission", "archive-manifest"}

\* What a file holds: how it came to be, and its timestamp (0 for none).
Content == (Kind \cup {"admission"}) \X (0..MaxClock)
Bundle == [Name -> Content \cup {None}]
EmptyDir == [n \in Name |-> None]
Admission == [EmptyDir EXCEPT !["admission"] = <<"admission", 0>>]

\* archive/YYYY/MM/DD: every tick of the clock is another day.
Day == 1..MaxClock

Initializing == {"controller", "admit", "stage", "publishStaged",
                 "renameStaged", "indexActive", "bind"}
Closing == {"check", "write", "archive", "move", "indexArchived"}
Points == {"idle"} \cup Initializing \cup Closing

ASSUME NoneIsNew ==
    /\ None \notin Run \cup Process \cup Name \cup Kind
    /\ None \notin Content /\ None \notin Bundle
    /\ None \notin [run : Run, complete : BOOLEAN]
ASSUME PointsArePoints == EndPoints \cup FailPoints \subseteq Points
ASSUME Times == MaxClock \in Nat \ {0} /\ Deadline \in [Run -> Nat]
ASSUME Failures == MaxFailures \in Nat

VARIABLES
    controller,        \* each run's controller.json: "absent", "pending",
                       \* "admitted" or "done" (every phase complete)
    retired,           \* reconciledAt of each run's retirement receipt, or 0
    staging,           \* each process's staging directory inside active/
    active,            \* active/<run>
    archive,           \* archive/<day>/<run>
    index,             \* index/runs/<run>.json
    holder,            \* holder of the repository mutation lock
    pc, run, kind, now, name, base,     \* the call of each process
    running,
    failures,          \* how many file-system calls have failed
    clock

files == <<controller, retired, staging, active, archive, index>>
locals == <<run, kind, now, name, base>>
vars == <<files, holder, pc, locals, running, failures, clock>>

At(p, point) == p \in running /\ pc[p] = point
Goto(p, point) == pc' = [pc EXCEPT ![p] = point]

\* The call goes on at point, or returns and loses its variables.
Continue(p, point) == Goto(p, point) /\ UNCHANGED locals
Return(p) ==
    /\ Goto(p, "idle")
    /\ run' = [run EXCEPT ![p] = None]
    /\ kind' = [kind EXCEPT ![p] = None]
    /\ now' = [now EXCEPT ![p] = 0]
    /\ name' = [name EXCEPT ![p] = None]
    /\ base' = [base EXCEPT ![p] = None]

Init ==
    /\ controller = [r \in Run |-> "absent"]
    /\ retired = [r \in Run |-> 0]
    /\ staging = [p \in Process |-> None]
    /\ active = [r \in Run |-> None]
    /\ archive = [d \in Day |-> [r \in Run |-> None]]
    /\ index = [r \in Run |-> None]
    /\ holder = None
    /\ pc = [p \in Process |-> "idle"]
    /\ run = [p \in Process |-> None]
    /\ kind = [p \in Process |-> None]
    /\ now = [p \in Process |-> 0]
    /\ name = [p \in Process |-> None]
    /\ base = [p \in Process |-> None]
    /\ running = Process
    /\ failures = 0
    /\ clock = 1

Tick ==
    /\ clock < MaxClock
    /\ clock' = clock + 1
    /\ UNCHANGED <<files, holder, pc, locals, running, failures>>

-----------------------------------------------------------------------------
\* What the inspections read.

Archived(r) == {d \in Day : archive[d][r] # None}
ReceiptsIn(bundle) == {n \in Receipts : bundle[n] # None}
Admitted(r) == active[r] # None /\ active[r]["admission"] # None

\* validTerminalV2Controller on one archived directory: one receipt, and the
\* release, the manifest and the projection belong to it.
Coherent(bundle) ==
    /\ bundle["admission"] # None
    /\ \E k \in Kind, t \in Day :
          /\ ReceiptsIn(bundle) = {Receipt[k]}
          /\ \A n \in {Receipt[k], "claim-release", "archive-manifest"} :
                bundle[n] = <<k, t>>
          /\ bundle["projection"] \in {<<k, t>>, <<k, 0>>}

\* The run's one archive closes it, and the controller was bound to it (and,
\* when the run was delivered, is complete).
VerifiedTerminal(r) ==
    /\ controller[r] \in {"admitted", "done"}
    /\ active[r] = None
    /\ \E d \in Day :
          /\ Archived(r) = {d}
          /\ Coherent(archive[d][r])
          /\ archive[d][r][Receipt.terminalization] # None => controller[r] = "done"

\* A retirement receipt binds the digest of the pending record, and must not
\* be later than the inspection.
RetiredPending(r, t) == controller[r] = "pending" /\ retired[r] \in 1..t

\* The legacy inventory of an admission: every controller record but the excluded
\* one, the initializer's own, is closed.
InventoryClear(excluded, t) ==
    \A x \in Run \ excluded :
        controller[x] = "absent" \/ VerifiedTerminal(x) \/ RetiredPending(x, t)

\* The directories in active/; staging directories count too.
StagedBy == {p \in Process : staging[p] # None}
ActiveDirs == {r \in Run : active[r] # None}

\* inspectV2Admission: nothing there, or exactly this run's complete admission.
NothingActive == StagedBy = {} /\ ActiveDirs = {}
ResumesActive(r) ==
    \/ StagedBy = {} /\ ActiveDirs = {r} /\ Admitted(r)
    \/ ActiveDirs = {} /\ \E p \in Process :
          StagedBy = {p} /\ staging[p] = [run |-> r, complete |-> TRUE]
Inspects(r) == NothingActive \/ ResumesActive(r)

Calling(r, points) == {p \in Process : run[p] = r /\ pc[p] \in points}

\* What an operator may ask of run r now.
MayAdmit(r) ==
    /\ "oneCall" \in Discipline => Calling(r, Points) = {}
    /\ "fresh" \in Discipline => Archived(r) = {}

-----------------------------------------------------------------------------
\* initializeV2Delivery, and admitV2Run on its own: the latter writes no controller
\* record and excludes none from the inventory; its base is None.

\* The authorization is current and the unlocked inspection passes.
Initialize(p, r) ==
    /\ At(p, "idle")
    /\ clock < Deadline[r]
    /\ Inspects(r) /\ MayAdmit(r)
    /\ run' = [run EXCEPT ![p] = r]
    /\ now' = [now EXCEPT ![p] = clock]
    /\ Goto(p, "controller")
    /\ UNCHANGED <<files, holder, kind, name, base, running, failures, clock>>

AdmitV2Run(p, r) ==
    /\ At(p, "idle")
    /\ clock < Deadline[r]
    /\ "initializer" \notin Discipline /\ MayAdmit(r)
    /\ run' = [run EXCEPT ![p] = r]
    /\ now' = [now EXCEPT ![p] = clock]
    /\ Goto(p, "admit")
    /\ UNCHANGED <<files, holder, kind, name, base, running, failures, clock>>

\* Mutant of EnsureController: nothing is written before the admission.
EnsureControllerUnsaved(p) ==
    /\ At(p, "controller")
    /\ base' = [base EXCEPT ![p] = controller[run[p]]]
    /\ Goto(p, "admit")
    /\ UNCHANGED <<files, holder, run, kind, now, name, running, failures, clock>>

\* Mutant of EnsureController: the binding is written as admitted at once.
EnsureControllerBound(p) ==
    LET r == run[p]
        found == IF controller[r] = "absent" THEN "admitted" ELSE controller[r] IN
    /\ At(p, "controller")
    /\ controller' = [controller EXCEPT ![r] = found]
    /\ base' = [base EXCEPT ![p] = found]
    /\ Goto(p, "admit")
    /\ UNCHANGED <<retired, staging, active, archive, index, holder,
                   run, kind, now, name, running, failures, clock>>

\* The controller comes first: a new pending record, or the one on disk.
EnsureController(p) ==
    LET r == run[p]
        found == IF controller[r] = "absent" THEN "pending" ELSE controller[r] IN
    /\ At(p, "controller")
    /\ controller' = [controller EXCEPT ![r] = found]
    /\ base' = [base EXCEPT ![p] = found]
    /\ Goto(p, "admit")
    /\ UNCHANGED <<retired, staging, active, archive, index, holder,
                   run, kind, now, name, running, failures, clock>>

\* admitV2RunFromInitializer compares the persisted record with the caller's; the
\* inventory must be clear.
Tracked(p) == base[p] # None
Admissible(p) ==
    /\ Tracked(p) => controller[run[p]] = base[p]
    /\ InventoryClear(IF Tracked(p) THEN {run[p]} ELSE {}, now[p])

\* With the run admitted, the initializer binds its controller.
Finish(p) == IF Tracked(p) THEN Continue(p, "bind") ELSE Return(p)

\* Mutant of Admit: active/ is not inspected again under the lock.
AdmitUninspected(p) ==
    /\ At(p, "admit")
    /\ IF holder # None \/ ~Admissible(p)
       THEN Return(p) /\ UNCHANGED holder
       ELSE holder' = p /\ Continue(p, "stage")
    /\ UNCHANGED <<files, running, failures, clock>>

\* Mutant of Admit: an admission that is there already is a conflict.
AdmitOnlyNew(p) ==
    /\ At(p, "admit")
    /\ IF holder # None \/ ~Admissible(p) \/ ~NothingActive
       THEN Return(p) /\ UNCHANGED holder
       ELSE holder' = p /\ Continue(p, "stage")
    /\ UNCHANGED <<files, running, failures, clock>>

\* Under the mutation lock admission inspects the inventory and active/; a resumed
\* admission is returned as it is.
Admit(p) ==
    LET r == run[p] IN
    /\ At(p, "admit")
    /\ IF holder # None \/ ~Admissible(p) \/ ~Inspects(r)
       THEN Return(p) /\ UNCHANGED holder
       ELSE \/ ResumesActive(r) /\ Finish(p) /\ UNCHANGED holder
            \/ NothingActive /\ holder' = p /\ Continue(p, "stage")
    /\ UNCHANGED <<files, running, failures, clock>>

\* mkdir of the private staging directory inside active/
Stage(p) ==
    /\ At(p, "stage")
    /\ IF active[run[p]] # None
       THEN Return(p) /\ holder' = None /\ UNCHANGED staging
       ELSE /\ staging' = [staging EXCEPT ![p] = [run |-> run[p], complete |-> FALSE]]
            /\ Continue(p, "publishStaged")
            /\ UNCHANGED holder
    /\ UNCHANGED <<controller, retired, active, archive, index, running, failures, clock>>

\* parent-run, work-unit, resource-claim and operation-contract are published
PublishStaged(p) ==
    /\ At(p, "publishStaged")
    /\ staging' = [staging EXCEPT ![p].complete = TRUE]
    /\ Continue(p, "renameStaged")
    /\ UNCHANGED <<controller, retired, active, archive, index, holder, running,
                   failures, clock>>

\* Mutant of RenameStaged: a directory in the way is removed first.
RenameStagedOver(p) ==
    LET r == run[p] IN
    /\ At(p, "renameStaged")
    /\ staging' = [staging EXCEPT ![p] = None]
    /\ active' = [active EXCEPT ![r] = Admission]
    /\ Continue(p, "indexActive")
    /\ UNCHANGED <<controller, retired, archive, index, holder, running, failures, clock>>

\* The rename admits the run.  It fails on a directory that is not empty, and
\* then the staging directory is removed.
RenameStaged(p) ==
    LET r == run[p] IN
    /\ At(p, "renameStaged")
    /\ staging' = [staging EXCEPT ![p] = None]
    /\ IF active[r] \in {None, EmptyDir}
       THEN /\ active' = [active EXCEPT ![r] = Admission]
            /\ Continue(p, "indexActive")
            /\ UNCHANGED holder
       ELSE Return(p) /\ holder' = None /\ UNCHANGED active
    /\ UNCHANGED <<controller, retired, archive, index, running, failures, clock>>

IndexActive(p) ==
    /\ At(p, "indexActive")
    /\ index' = [index EXCEPT ![run[p]] = "active"]
    /\ holder' = None
    /\ Finish(p)
    /\ UNCHANGED <<controller, retired, staging, active, archive, running, failures, clock>>

\* persistControllerRecord with the digest of the record read before.
Bind(p) ==
    LET r == run[p] IN
    /\ At(p, "bind")
    /\ controller' = IF controller[r] = base[p] /\ base[p] = "pending"
                     THEN [controller EXCEPT ![r] = "admitted"] ELSE controller
    /\ Return(p)
    /\ UNCHANGED <<retired, staging, active, archive, index, holder, running,
                   failures, clock>>

-----------------------------------------------------------------------------
\* The lifecycle phases of a current admitted run are all completed, by processes
\* outside this module (ControllerStore has the record's updates).
CompleteController(r) ==
    /\ clock < Deadline[r]
    /\ controller[r] = "admitted"
    /\ Admitted(r)
    /\ controller' = [controller EXCEPT ![r] = "done"]
    /\ UNCHANGED <<retired, staging, active, archive, index, holder, pc, locals,
                   running, failures, clock>>

-----------------------------------------------------------------------------
\* terminalizeV2Run and cancelExpiredV2Run.

\* A run archived by this kind of closing has nothing left to do.
ClosedBy(r, k) == \E d \in Archived(r) : archive[d][r][Receipt[k]] # None

\* The completion evidence of a terminalization is the caller's: the run's own
\* records are compared with it, its controller is not read.
MayTerminalize(r) == Admitted(r)

\* A cancellation is for an expired run without a terminalization receipt.
MayCancel(r, t) ==
    /\ Admitted(r)
    /\ t >= Deadline[r]
    /\ active[r][Receipt.terminalization] = None

\* The payload may carry the time t of an earlier try.
BeginClose(p, r, k, t) ==
    LET other == Receipts \ {Receipt[k]} IN
    /\ At(p, "idle")
    /\ ~ClosedBy(r, k)
    /\ IF k = "terminalization" THEN MayTerminalize(r) ELSE MayCancel(r, t)
    /\ t = clock \/ active[r][Receipt[k]] = <<k, t>>
    /\ "oneCall" \in Discipline => Calling(r, Points) = {}
    /\ "oneKind" \in Discipline => ReceiptsIn(active[r]) \cap other = {}
    /\ run' = [run EXCEPT ![p] = r]
    /\ kind' = [kind EXCEPT ![p] = k]
    /\ now' = [now EXCEPT ![p] = t]
    /\ name' = [name EXCEPT ![p] = Receipt[k]]
    /\ Goto(p, "check")
    /\ UNCHANGED <<files, holder, base, running, failures, clock>>

\* The record a call publishes under a name: everything it writes holds its
\* "now", except the projection of a terminalization, which is the payload's.
Record(p, n) ==
    <<kind[p], IF n = "projection" /\ kind[p] = "terminalization" THEN 0 ELSE now[p]>>

\* Mutant of NextRecord: the loop over the records does not end.
NextRecordUnended(p) ==
    /\ name' = [name EXCEPT ![p] =
          IF @ \in Receipts THEN "claim-release"
          ELSE IF @ = "claim-release" THEN "projection" ELSE None]
    /\ Goto(p, "check")
    /\ UNCHANGED <<run, kind, now, base>>

\* The receipt, the release and the projection, in this order, then the archive.
NextRecord(p) ==
    /\ name' = [name EXCEPT ![p] =
          IF @ \in Receipts THEN "claim-release"
          ELSE IF @ = "claim-release" THEN "projection" ELSE None]
    /\ Goto(p, IF name[p] = "projection" THEN "archive" ELSE "check")
    /\ UNCHANGED <<run, kind, now, base>>

\* Mutants of CheckRecord: a record that exists is accepted unread, ...
CheckRecordUnread(p) ==
    LET r == run[p]
        dir == IF active[r] = None THEN EmptyDir ELSE active[r] IN
    /\ At(p, "check")
    /\ active' = [active EXCEPT ![r] = dir]
    /\ IF dir[name[p]] = None THEN Continue(p, "write") ELSE NextRecord(p)
    /\ UNCHANGED <<controller, retired, staging, archive, index, holder, running,
                   failures, clock>>

\* ... is replaced, ...
CheckRecordReplaces(p) ==
    LET r == run[p]
        dir == IF active[r] = None THEN EmptyDir ELSE active[r] IN
    /\ At(p, "check")
    /\ active' = [active EXCEPT ![r] = dir]
    /\ Continue(p, "write")
    /\ UNCHANGED <<controller, retired, staging, archive, index, holder, running,
                   failures, clock>>

\* ... or ends the call.
CheckRecordOnlyNew(p) ==
    LET r == run[p]
        dir == IF active[r] = None THEN EmptyDir ELSE active[r] IN
    /\ At(p, "check")
    /\ active' = [active EXCEPT ![r] = dir]
    /\ IF dir[name[p]] = None THEN Continue(p, "write") ELSE Return(p)
    /\ UNCHANGED <<controller, retired, staging, archive, index, holder, running,
                   failures, clock>>

\* publishExpectedRecord makes the directory if it is not there, then looks for
\* the record; one that exists must be the one it would write.
CheckRecord(p) ==
    LET r == run[p]
        dir == IF active[r] = None THEN EmptyDir ELSE active[r] IN
    /\ At(p, "check")
    /\ active' = [active EXCEPT ![r] = dir]
    /\ \/ dir[name[p]] = None /\ Continue(p, "write")
       \/ dir[name[p]] = Record(p, name[p]) /\ NextRecord(p)
       \/ dir[name[p]] \notin {None, Record(p, name[p])} /\ Return(p)
    /\ UNCHANGED <<controller, retired, staging, archive, index, holder, running,
                   failures, clock>>

\* The synced temporary file is renamed over the name, whatever is there now; it
\* fails when the directory has been moved away.
WriteRecord(p) ==
    LET r == run[p] IN
    /\ At(p, "write")
    /\ IF active[r] = None THEN Return(p) /\ UNCHANGED active
       ELSE /\ active' = [active EXCEPT ![r][name[p]] = Record(p, name[p])]
            /\ NextRecord(p)
    /\ UNCHANGED <<controller, retired, staging, archive, index, holder, running,
                   failures, clock>>

\* Mutant of Archive: the manifest holds the time of its writing.
ArchiveStampsClock(p) ==
    LET r == run[p] IN
    /\ At(p, "archive")
    /\ IF holder # None \/ active[r] = None \/ archive[now[p]][r] # None
       THEN Return(p) /\ UNCHANGED <<active, holder>>
       ELSE /\ active' = [active EXCEPT ![r]["archive-manifest"] = <<kind[p], clock>>]
            /\ holder' = p
            /\ Continue(p, "move")
    /\ UNCHANGED <<controller, retired, staging, archive, index, running, failures, clock>>

\* archiveTerminalRun under the mutation lock: the manifest,
Archive(p) ==
    LET r == run[p] IN
    /\ At(p, "archive")
    /\ IF holder # None \/ active[r] = None \/ archive[now[p]][r] # None
       THEN Return(p) /\ UNCHANGED <<active, holder>>
       ELSE /\ active' = [active EXCEPT ![r]["archive-manifest"] = <<kind[p], now[p]>>]
            /\ holder' = p
            /\ Continue(p, "move")
    /\ UNCHANGED <<controller, retired, staging, archive, index, running, failures, clock>>

\* Mutant of Move: the directory is copied, not renamed.
MoveCopies(p) ==
    /\ At(p, "move")
    /\ archive' = [archive EXCEPT ![now[p]][run[p]] = active[run[p]]]
    /\ Continue(p, "indexArchived")
    /\ UNCHANGED <<controller, retired, staging, active, index, holder, running,
                   failures, clock>>

\* the rename of the directory, which releases the repository,
Move(p) ==
    LET r == run[p] IN
    /\ At(p, "move")
    /\ archive' = [archive EXCEPT ![now[p]][r] = active[r]]
    /\ active' = [active EXCEPT ![r] = None]
    /\ Continue(p, "indexArchived")
    /\ UNCHANGED <<controller, retired, staging, index, holder, running, failures, clock>>

\* and the index.
IndexArchived(p) ==
    /\ At(p, "indexArchived")
    /\ index' = [index EXCEPT ![run[p]] = "archived"]
    /\ holder' = None
    /\ Return(p)
    /\ UNCHANGED <<controller, retired, staging, active, archive, running, failures, clock>>

-----------------------------------------------------------------------------
\* executeExpiredPendingControllerRetirement, under the mutation lock: an expired
\* pending controller whose run is in no active, archive or index entry.
PendingBaseline(r) == controller[r] = "pending" /\ clock >= Deadline[r]
RunAbsent(r) == active[r] = None /\ Archived(r) = {} /\ index[r] = None
\* publishPendingRetirementReceipt, once.
PublishRetirement(r) == retired[r] = 0 /\ retired' = [retired EXCEPT ![r] = clock]

RetirePending(r) ==
    /\ holder = None
    /\ PendingBaseline(r) /\ RunAbsent(r) /\ PublishRetirement(r)
    /\ UNCHANGED <<controller, staging, active, archive, index, holder, pc, locals,
                   running, failures, clock>>

-----------------------------------------------------------------------------
\* A file-system call fails: the call returns, its staging directory is removed
\* and its lock released.
IoFailure(p) ==
    /\ p \in running
    /\ pc[p] \in FailPoints \ {"idle"}
    /\ failures < MaxFailures
    /\ failures' = failures + 1
    /\ staging' = [staging EXCEPT ![p] = None]
    /\ holder' = IF holder = p THEN None ELSE holder
    /\ Return(p)
    /\ UNCHANGED <<controller, retired, active, archive, index, running, clock>>

\* The process is killed: its files stay; its lock is free again, since the next
\* contender reclaims the lock of a dead owner.
End(p) ==
    /\ p \in running
    /\ pc[p] \in EndPoints
    /\ running' = running \ {p}
    /\ holder' = IF holder = p THEN None ELSE holder
    /\ Return(p)
    /\ UNCHANGED <<files, failures, clock>>

Step(p) ==
    \/ EnsureController(p) \/ Admit(p) \/ Stage(p) \/ PublishStaged(p)
    \/ RenameStaged(p) \/ IndexActive(p) \/ Bind(p)
    \/ CheckRecord(p) \/ WriteRecord(p) \/ Archive(p) \/ Move(p) \/ IndexArchived(p)

InitializeAny(p) == \E r \in Run : Initialize(p, r)
AdmitAny(p) == \E r \in Run : AdmitV2Run(p, r)
Close(p, k) == \E r \in Run, t \in 1..clock : BeginClose(p, r, k, t)

Next ==
    \/ Tick
    \/ \E r \in Run : CompleteController(r) \/ RetirePending(r)
    \/ \E p \in Process :
          \/ InitializeAny(p) \/ AdmitAny(p) \/ (\E k \in Kind : Close(p, k))
          \/ Step(p) \/ IoFailure(p) \/ End(p)

Spec == Init /\ [][Next]_vars

\* The closing that published its receipt, with the payload, "now" included, it
\* began with.
CloseAgain(p) ==
    \E r \in Run, k \in Kind, t \in 1..clock :
        /\ active[r] # None /\ active[r][Receipt[k]] = <<k, t>>
        /\ BeginClose(p, r, k, t)

\* The commands run on once started (they are synchronous code), and their
\* callers retry them: a run is initialized until it is bound, and a closing that
\* published its receipt is tried again as it began.
RetrySpec ==
    Spec /\ \A p \in Process :
        WF_vars(Step(p)) /\ SF_vars(InitializeAny(p)) /\ SF_vars(CloseAgain(p))

-----------------------------------------------------------------------------
TypeOK ==
    /\ controller \in [Run -> {"absent", "pending", "admitted", "done"}]
    /\ retired \in [Run -> 0..MaxClock]
    /\ staging \in [Process -> [run : Run, complete : BOOLEAN] \cup {None}]
    /\ active \in [Run -> Bundle \cup {None}]
    /\ archive \in [Day -> [Run -> Bundle \cup {None}]]
    /\ index \in [Run -> {None, "active", "archived"}]
    /\ holder \in Process \cup {None}
    /\ pc \in [Process -> Points]
    /\ run \in [Process -> Run \cup {None}]
    /\ kind \in [Process -> Kind \cup {None}]
    /\ now \in [Process -> 0..MaxClock]
    /\ name \in [Process -> Published \cup {None}]
    /\ base \in [Process -> {"absent", "pending", "admitted", "done", None}]
    /\ running \subseteq Process
    /\ failures \in 0..MaxFailures
    /\ clock \in 1..MaxClock
    /\ \A p \in running :
          /\ pc[p] # "idle" => run[p] \in Run /\ now[p] \in Day
          /\ pc[p] \in Closing => kind[p] \in Kind
          /\ pc[p] \in {"check", "write"} => name[p] \in Published

\* At most one admitted run is active in the repository, however the commands of
\* several processes interleave, fail and crash.
OneActiveRun == \A r, s \in Run : Admitted(r) /\ Admitted(s) => r = s

\* An admitted claim is never untracked: the controller's record is there first.
ClaimTracked == \A r \in Run : Admitted(r) => controller[r] # "absent"

\* A controller is bound only to a run that is there, active or archived; or that a
\* process left whole in its staging directory when it died.
HasRun(r) == Admitted(r) \/ Archived(r) # {}
LeftStaged(r) == \E p \in Process \ running : staging[p] = [run |-> r, complete |-> TRUE]
BoundHasRun ==
    \A r \in Run : controller[r] \in {"admitted", "done"} => HasRun(r) \/ LeftStaged(r)

\* Why OneActiveRun is preserved: admission runs under the lock from its inspection
\* on, and what it found, no admitted run, stays so until it renames its own.
LockPoints ==
    {"stage", "publishStaged", "renameStaged", "indexActive", "move", "indexArchived"}
HoldsLock == \A p \in Process : pc[p] \in LockPoints => holder = p
StagesOwn ==
    \A p \in Process : pc[p] \in {"publishStaged", "renameStaged"} => staging[p] # None
StagesAlone ==
    \A p \in Process : pc[p] \in {"stage", "publishStaged", "renameStaged"} =>
        \A r \in Run : ~Admitted(r)

ClaimInv == TypeOK /\ HoldsLock /\ StagesOwn /\ StagesAlone /\ OneActiveRun

\* Why BoundHasRun is: an admission is only resumed where the run itself is, or what
\* a dead process staged of it; and a run leaves active/ for the archive only.
StagesLive ==
    \A p \in running : staging[p] # None => pc[p] \in {"publishStaged", "renameStaged"}
MovesRun ==
    \A p \in Process : pc[p] = "move" => run[p] \in Run /\ active[run[p]] # None
BindsToRun ==
    \A p \in Process : pc[p] \in {"indexActive", "bind"} =>
        run[p] \in Run /\ (HasRun(run[p]) \/ LeftStaged(run[p]))

BoundInv == ClaimInv /\ StagesLive /\ MovesRun /\ BindsToRun /\ BoundHasRun

\* Why ClaimTracked is: an initializer goes to the admission with its record
\* written, and no record is ever deleted.
AdmitsTracked ==
    \A p \in Process : pc[p] \in {"admit", "stage", "publishStaged", "renameStaged"} =>
        run[p] \in Run /\ controller[run[p]] # "absent"

TrackedInv == ClaimInv /\ AdmitsTracked /\ ClaimTracked

\* A run in the archive is closed in one way, and its records agree.
ArchivesCoherent ==
    \A r \in Run : \A d \in Archived(r) : Coherent(archive[d][r])

\* No record is lost: what a run's active directory holds stays there or moves to
\* a new archive with it, and an archived directory never changes.
Keeps(dir, was) == dir # None /\ \A n \in Name : was[n] # None => dir[n] # None
RecordsKept ==
    [][\A r \in Run :
          /\ active[r] # None =>
                \/ Keeps(active'[r], active[r])
                \/ \E d \in Day : archive[d][r] = None /\ Keeps(archive'[d][r], active[r])
          /\ \A d \in Archived(r) : archive'[d][r] = archive[d][r]]_vars

\* Why: the destination of a move was free, and stays so under the lock.
MovesFresh ==
    \A p \in Process : pc[p] = "move" => now[p] \in Day /\ archive[now[p]][run[p]] = None
KeptInv == ClaimInv /\ MovesRun /\ MovesFresh

\* A published record is immutable: while its directory is active it keeps its
\* content, and the archive keeps it afterwards.
RecordsImmutable ==
    [][\A r \in Run, n \in Published \cup {"admission"} :
          active[r] # None /\ active[r][n] # None =>
              \/ active'[r] # None /\ active'[r][n] = active[r][n]
              \/ active'[r] = None /\ \E d \in Day :
                    archive'[d][r] # None /\ archive'[d][r][n] = active[r][n]]_vars

\* No later admission waits for a closed run: the next inventory verifies it.
ClosedRunsVerify ==
    \A r \in Run : Archived(r) # {} /\ active[r] = None => VerifiedTerminal(r)

\* ... as long as its controller was bound to it before it was closed, and complete
\* before it was closed as delivered.
ClosedInOrder(r) ==
    \/ controller[r] = "done"
    \/ controller[r] = "admitted" /\ ~ClosedBy(r, "terminalization")
BoundRunsVerify ==
    \A r \in Run : Archived(r) # {} /\ active[r] = None /\ ClosedInOrder(r) =>
        VerifiedTerminal(r)

\* The one admitted run, and the way each archived run was closed.
Claim == IF \E r \in Run : Admitted(r) THEN CHOOSE r \in Run : Admitted(r) ELSE None
ClosedAs(r) ==
    IF \E k \in Kind : \E d \in Archived(r) : archive[d][r][Receipt[k]] # None
    THEN CHOOSE k \in Kind : \E d \in Archived(r) : archive[d][r][Receipt[k]] # None
    ELSE None

Repository == INSTANCE RepositoryClaim
    WITH claim <- Claim, closed <- [r \in Run |-> ClosedAs(r)]

\* Read as one claim, the directories change only as the abstract repository
\* allows: a run is admitted once, and closed once and for all.
ImplementsClaim == Repository!Spec

\* An interrupted initialization is completed by the retries of a live process,
\* unless the run is closed or its authorization expires first, another run is in
\* its way, or a process died with a staging directory that is not its whole one.
Orphaned(r) ==
    \E p \in StagedBy \ running : staging[p] # [run |-> r, complete |-> TRUE]
AdmissionRecovers ==
    \A r \in Run : controller[r] = "pending" ~>
        \/ controller[r] # "pending" \/ Archived(r) # {}
        \/ clock >= Deadline[r] \/ running = {}
        \/ ~InventoryClear({r}, clock) \/ (\E s \in ActiveDirs : s # r) \/ Orphaned(r)

\* A closing that published its receipt is completed by the retries of a live
\* process, and the claim is released.
CloseFinishes ==
    \A r \in Run : Admitted(r) /\ ReceiptsIn(active[r]) # {} ~>
        (Archived(r) # {} \/ running = {})
=============================================================================
