# Verification of the autonomous SDD delivery core

TLA+ models, model-checking runs and machine-checked proofs for the delivery controller of this
repository: the Node.js scripts under `scripts/sdd/` that admit a run, keep its durable record,
drive its operations, have its changes reviewed, permit their merge, close and archive the run,
clean up after it and recover from crashes, and the installed runtime they are launched from.
Paths in this file are relative to the repository's root.

Contents: [the system](#the-system), [what is hard](#what-is-hard),
[modules](#modules), [runs](#runs), [bounds](#bounds), [fairness](#fairness),
[proofs](#proofs),
[what the code leaves to its operators](#what-the-code-leaves-to-its-operators),
[not modelled](#not-modelled), [plan](#plan), [running it](#running-it).

## The system

The repository is a collection of assistant skills with a program at its centre:
an *autonomous spec-driven-delivery controller*. There is no server. Every
operation is one short-lived Node.js process (`scripts/runtime/bin/*.mjs`, or a
script run directly) that reads and writes JSON files in a state directory,
usually `~/.ai-skills/sdd/repositories/<id>/` and
`~/.ai-skills/sdd/controllers/<id>/`. Several processes may run at once (several
assistants, a retry beside a call that has not ended), any of them may be killed,
and the files are all they share. That is where the difficulty lies, and what
the models are about.

### Components

| component | state it keeps | operations | talks to |
|---|---|---|---|
| **repository mutation lock** (`autonomous-sdd-local-store.mjs` 46–100) | `<id>.mutation.lock`, `.reclaim`, private owner files | acquire, reclaim from a dead owner, release | admission, archiving, pending retirement run inside it |
| **controller record store** (`autonomous-sdd-controller.mjs` 1230–1436) | `controller.json`, `.controller.json.lock` | compare-and-swap persist, eight mutation wrappers | every phase of a delivery |
| **early retirement** (`autonomous-sdd-controller-retirement.mjs`, controller 508–558, 616–797) | `controller-retirement.json`, `controller-terminal.json` | publish retiring and terminal marker, check them before and under the record lock | record store, cancellation |
| **run admission** (`autonomous-sdd-admission.mjs`, controller 857–941) | `active/<run>/`, staging directories, `index/runs/*.json` | initialize, admit, resume, bind | lock, record store, legacy inventory |
| **closing and archive** (controller 311–408, 616–752, local store 120–233) | receipts, claim release, projection, `archive/YYYY/MM/DD/<run>/` | terminalize, cancel an expired run, archive, index | lock, admission |
| **pending retirement** (`autonomous-sdd-pending-retirement.mjs`) | a signed receipt per expired pending controller | retire, validate, inventory | lock, admission's inventory |
| **legacy inventory and reconciliation** (`autonomous-sdd-legacy*.mjs`) | reconciliation receipts | classify every controller on disk, reconcile pre-v2 runs | admission |
| **controller phase machine, lifecycle cleanup** (controller 943–1227, 1439–1604, `sdd-workspace-cleanup.mjs`) | phases, resources, cleanup receipts inside `controller.json` | advance a phase, register a resource, bind a delivery, remove registered worktrees and branches | record store, git |
| **vertical slice and operation gate** (`autonomous-sdd-vertical-slice.mjs`, `check-operation-authorization.mjs`, `checkpoint.mjs`, ...) | checkpoint chain, operation receipts | gate each operation, record its result | controller, review, GitHub |
| **review admission, dispatch, launcher recovery** (`autonomous-sdd-review-*.mjs`, `review-launcher-recovery.mjs`, `review-worktree-lifecycle.mjs`, `correction-chain.mjs`) | attempts, generations, detached worktrees, the correction chain | admit one review, dispatch it, recover a dead launcher, bound the corrections | platform adapters, git |
| **review platform adapters and capture** (`platform-review-adapters.mjs`, `codex-review-event-capture.mjs`, ...) | event stream of a child process, evidence files | start a reviewer, capture and validate its events | launcher |
| **GitHub transitions and envelopes** (`autonomous-sdd-github-*.mjs`, `autonomous-sdd-finalization.mjs`) | none of their own | plan a transition, build and validate its records, judge what was observed | an assistant with a GitHub session, outside this code |
| **generic git cleanup** (`generic-git-repository-cleanup.mjs`) | inventory, approval | inventory, approve, revalidate, delete | git |
| **research and planning runtime** (`research-planning-skill-runtime.mjs`) | run state of the two planning skills | step functions | none |
| **runtime distribution** (`scripts/runtime/`) | version directories, `installed.json`, `active.json`, launcher shim | build, install, activate, roll back, launch | file system |
| **work tracking, validation, evaluation scripts** (`scripts/github`, `scripts/validation`, `evals`) | none of their own | validate documents, call `gh` | GitHub |
| **skills, specs, planning documents** | text | none | people and assistants |

### How a delivery passes through the components

`initialize-v2-delivery` inspects the repository, writes a *pending* controller
record, takes the mutation lock, inspects again, builds the run's directory in a
staging directory inside `active/`, renames it into place, indexes it, and binds
the controller record (*admitted*). Phases are then added to the record one by
one, each through the compare-and-swap of the record store. A finished run is
*terminalized*, an expired one *cancelled*: receipts are published in the run's
directory with create-only semantics, an archive manifest is added under the
mutation lock, and the directory is renamed into `archive/`. A run that never
made progress can be *retired* early, which also publishes two markers beside
the controller record that forbid any later progress. A pending controller whose
admission never happened is retired by a signed receipt once it has expired.

In between, each operation of the delivery passes a gate and is recorded ahead
of its effect. An Apply is admitted for a sealed package; an independent reviewer,
a child process in a view of the repository made for it, judges the package; its
event stream is parsed, its files are checked against what was pinned before, and
only then is the review accepted. If the strict review is unavailable, and that is
on record, a degraded one may be authorized, carried out by a launcher host in a
detached worktree. Corrections are bounded, each a record in a chain. A merge is
permitted from durable records alone. GitHub is changed by an assistant with an
authenticated session: the code plans each transition, builds its records and judges
what was observed, and the loop around that is not in the repository. In the end
worktrees, branches and stray files are removed, each after a fresh audit.

What must hold: at most one run of a repository is active; a run is admitted once, closed once and
in one way; a published record never changes; no completed phase is ever lost; retirement and
progress exclude each other; a crash at any point leaves something that a retry completes (where the code falls short of this,
[a section below](#what-the-code-leaves-to-its-operators) says so). A
review that counts was made of the package under review by the pinned program, and leaves nothing
behind; nothing is merged without one; no adapter is called again while it is open what its last
call did; nothing is removed that was not delivered, and nobody's commit with it.

## What is hard

Concurrency comes from processes interleaving between any two file-system calls;
failure from a process killed between any two of them, or from a call that
fails; ordering from retries with an older payload; time from authorizations that
expire between a check and its use. Outside the state directory it comes from what
the code does not control: a reviewer that is a child process, a transport that gives
up while its host goes on, an adapter that throws or never answers,
and people who edit, commit and push meanwhile. A unit test runs one process at a time and
mocks the clock, so it sees none of the interleavings. `PROJECT.json` lists the
hazards, each at the line where it bites, with the properties that watch it.

## Modules

| module | kind | models or states |
|---|---|---|
| `RepositoryMutex` | abstract | what `withRepositoryMutationLock` promises: one holder, released by it or by its end |
| `MutationLock` | detailed | the lock file, the `.reclaim` link and the owner files |
| `RetirableRecord` | abstract | a record that grows one update at a time, or is retired empty, in two steps |
| `ControllerStore` | detailed | compare-and-swap persistence, the record lock, the two retirement markers |
| `RepositoryClaim` | abstract | one active run at a time, each admitted once and closed once |
| `RunLifecycle` | detailed | admission, closing, archive and pending retirement over the directories of a repository |
| `DeliveryQueue` | abstract | entries delivered one by one, phase by phase, nothing left behind |
| `DeliveryLifecycle` | detailed | phases, queue, resources, bindings and the cleanup of one admitted record |
| `ReviewCapture` | detailed | one Codex review on the parent transport, from the pinned files to the removed view |
| `ReviewEvents` | detailed | the parser of the reviewer's event stream |
| `ReviewRecovery` | detailed | a strict review, its durable unavailability, the degraded review by a launcher host in a detached worktree |
| `OperationContract` | pure | the registry of operations, the gate before each, the classification of an outcome |
| `OperationSlice` | detailed | the vertical slice's driver over its write-ahead store |
| `MergeGate` | detailed | from the admission of Apply to the permission to merge, over the records of a change |
| `BranchRetirement` | detailed | generic cleanup of branches, worktrees and remote branches |
| `CleanupCommit` | detailed | generic cleanup of a file: a commit on the right branch, and its push |
| `BootstrapAttachment` | detailed | the cleanup attachment of a bootstrap run, written without a lock |
| `RuntimeInstall` | detailed | installation, rollback and launch of the runtime's versions, by several operators without a lock |
| `MCReview`, `MCDelivery` | instances | the components of the review, and those from the slice to the runtime, as scenes of one run each |
| other `MC...` | instances | the values the runs give to structured constants |
| `MCReviewProofs`, `MCDeliveryProofs` | proofs | the theorems about the components of these two instances, for all their constants |
| other `...Proofs` | proofs | the theorems about the module they extend |

The modules of the state directory form a stack. `RunLifecycle` takes the lock as one variable
`holder`, acquired and released as `RepositoryMutex` describes: `MutationLock`
shows (run and proof) that the files implement that. `DeliveryLifecycle` takes an
update of the record as one step that succeeds for a process with a current copy:
`ControllerStore` shows (run and proof) that lock, markers and digest comparison do
that. `MergeGate` and `OperationSlice` share `OperationContract`. The modules of the review,
of the gate, of the generic cleanup and of the runtime share no state with one another:
they meet in documents that one hands to the next, an accepted review or a merge
permission, so that each takes the other's result as a nondeterministic input. Each
definition of a module is bound to its source lines in
`PROJECT.json` under `map`.

A convention of the modules over the state directory: a process is a Node.js call. `pc[p]` says
which call of `fs`, `git` or `process.kill` it makes next, `locals` are its local
variables, `running` the processes that have not been killed. One action is one
call that another process can observe, with the guards and early returns that
follow it. `End(p)` kills a process at a point in the constant `EndPoints`; files
stay as they are.

### MutationLock (`autonomous-sdd-local-store.mjs` 46–100)

`lock` and `reclaim` are the inodes at `<id>.mutation.lock` and
`<id>.mutation.lock.reclaim`; an inode is its creator and one bit, which is enough
to tell a process's new owner file from its previous one. `LinkLock` is the
`linkSync` of line 71 in either round of the loop, `ClaimReclaim` the create-only link
of line 85, then `CompareInodes`, `ProbeOwner` (`process.kill(pid, 0)`), `UnlinkLock`
and the `finally` that drops the link (`DropReclaim`). `End` is the exit or the death of a
process, anywhere. `QuietSpec` excludes one of its cases (`MissedByProbe`): a process
gave its lock up while a reclaimer was between comparing the inodes and probing the pid, and
ends before the probe.

### ControllerStore (controller 1230–1436, 508–558, 616–797, `-controller-retirement.mjs`)

`record` is the set of updates in `controller.json`, so the digest comparison is
equality. `Prepare` takes the caller's copy (`base`); `ReadPersisted` is the check
before the lock, `PreCheckRetired` and `CheckRetired` the marker checks before and
under it, `CompareDigest` the compare, `RenameRecord` the swap. `Retire`,
`CheckBaseline`, `PublishRetirement`, `PublishReceipt`, `ArchiveRun`, `PublishTerminal` are
early retirement, which takes the same lock twice. `receipt` is the cancellation receipt in
the active directory: from its publication to the archive it is itself a progress artifact
(`ProgressArtifacts`, `activeRunHasProgressArtifacts`), so `Retire` refuses a run that was left
there. `InspectLock`, `ProbeOwner`, `UnlinkLock`
reclaim the record lock of a dead owner.

### RunLifecycle (`-admission.mjs`, `-local-store.mjs`, controller, `-pending-retirement.mjs`)

A directory is a function from file names to contents; a content is how it came to
be and the timestamp inside. `Initialize` … `Bind` is `initializeV2Delivery` from the
unlocked inspection through the pending record, the locked inspection, staging,
rename and index to the binding of the controller. `BeginClose` … `IndexArchived` is
`terminalizeV2Run` or `cancelExpiredV2Run`: for each record look whether it is there
(`CheckRecord`), rename it into place (`WriteRecord`), then manifest and rename under
the lock. `RetirePending` publishes a pending controller's retirement receipt.
`IoFailure` is a failing file-system call at a point in `FailPoints`. Terminalizing does not
read the controller (`MayTerminalize`), so `CompleteController`, which completes a bound
controller's phases, may come before a closing, during it or never.

The constant `Discipline` says what the operators keep to: `initializer` (runs are
admitted by `initialize-v2-delivery`), `oneCall` (one command at a time for one run),
`fresh` (a closed run is not admitted again), `oneKind` (a closing that began one way
is not finished the other way). None of it is enforced by the code; without each of
them some property fails (below). `RunLifecycleSafe` assumes none of them.

### DeliveryLifecycle (controller 943–1227, 1554–1604, `sdd-workspace-cleanup.mjs`)

`record` is `controller.json` (entry, completed phases, resources, last receipt of each
resource); `git` is what there is of each worktree and branch: absent, exactly what
was delivered, or something more. `Create`, `Change` and `Settle` are people.
`BeginCleanup` … `EndStage` is `executeControllerLifecycleCleanup`: plan a stage on a
fresh inspection, then for each resource inspect again (`Inspect`), persist the start
(`Start`), remove (`Remove`, `RemoveFails`), persist the outcome (`Finish`), worktrees
first. `overtaken` is history: the cleaners whose resource was changed, or whose entry was left
behind, since their last inspection. Nothing prevents either. The one discipline,
`oneCleaner` (one cleanup at a time), is held in the constant-valued variable `discipline`, so
that one run covers it and its absence; only the liveness property names it.

### ReviewCapture (`platform-review-adapters.mjs`, `codex-review-event-capture.mjs`, `detached-review-view.mjs`)

`installed` is what replacements (`Replace`) have made of the files that a review executes;
`StrictRequest` and `DegradedRequest` are the parent's preparation: it pins the files, creates the
view, seals the request in it and hands out a command. `Launch` starts that command, as often as
somebody likes: a capture goes through `Check` (expiry, digests of the files, an earlier result),
`Spawn`, `ChildEnds` with one retry, `PublishResult` and `PublishReceipt`, both create-only. The
parent's consumption is `ReadReceipt`, `Judge` (which compares every pinned version again),
`Inspect` and `Cleanup`. `Expire`, `Kill` and `Die` are time and ends of processes.

### ReviewEvents (`codex-review-event-capture.mjs`, `codex-review-event-contract.mjs`)

`stream` is what was consumed, a line being the event it parses to or `bad`;
`ConsumeTurn` and `ConsumeItem` are the transitions of the parser's turn and item states,
`End` its verdict at the end of the stream. `ParserAgrees` compares the verdict with a
definition over the whole stream, which the parser does not keep: the places of an item in
the stream (`Of`) and what may come before and after which (`Life`), and the places of the
messages (`Messages`).

### ReviewRecovery (`review-launcher-recovery.mjs`, `review-launcher-host.mjs`, `review-worktree-lifecycle.mjs`, `execute-independent-review.mjs`)

`package` is what is under review and changes with a correction; `durable` is the record that
the strict review of a package was unavailable, without which nothing degraded starts. The
host is a process with its own request: it makes a temporary root, registers a detached
worktree, reviews, and takes both away again (`MakeRoot` … `RemoveRoot`, `UndoWorktree`
on the error path). `TransportGivesUp` leaves it running; `TransportReturns` may deliver
the response of an earlier launch.

### OperationContract, OperationSlice (`autonomous-sdd-operation-contract.mjs`, `check-operation-authorization.mjs`, `autonomous-sdd-vertical-slice.mjs`, `checkpoint.mjs`)

`GateAllows` is the check of one operation on what holds at the call, `Route` the classification
of an operation's outcome: completed, to be corrected, or paused. The slice's store holds `stage`
and the sequence `attempts`; `Start` writes an attempt ahead of the adapter, which then throws
(`AdapterThrows`), returns (`AdapterReturns`) or never does either. `Review` and `ReviewAside` are
the review loop with and without a transport. A driver of either profile starts on the store that
an earlier one left.

### MergeGate (`autonomous-sdd-review-admission.mjs`, `-review-dispatcher.mjs`, `-strict-review-delivery.mjs`, `correction-chain.mjs`, `check-operation-authorization.mjs`, `checkpoint.mjs`)

`entry` is the change's durable checkpoint entry: the head of its pull request, its last
Apply, its reviews, the records of unavailability, the failures on record and the chain of
corrections. `head` and `pushed` are the branch, moved by corrections that are recorded and by
pushes that are not (`Drift`). A correction needs a failure that a durable review found or a
durable verification record has (`CorrectionAllowed`). What a session admitted, dispatched and
got as an answer is lost with it (`ReviewerLost`, `Resume`). `AuthorizeMerge` reads
the entry alone: the request names a head, or derives it from the pull request on record
(`derived`), and may name its operation's contract (`contract`). A review counts in one of two ways:
`ReviewHolds`, for sealed packages, goes by the time of the launch; `EvidenceHolds`, for
evidence of the older kind (`validateIndependentReviewEvidence`), by the time the evidence
bears.

### BranchRetirement, CleanupCommit (`generic-git-repository-cleanup.mjs`)

Both have the same shape: an audit, a plan that is confirmed, a verification of each step
against a fresh audit that rebuilds the git command, and the command itself, run some time
later by an assistant. Between any two of them people commit, push, merge, open worktrees
and claim branches, or edit, stage, commit and switch branches. In `BranchRetirement` the
commits of a branch are numbered, so that "what is merged" and "what the remote has" are
numbers. In `CleanupCommit` `work`, `index` and `tip` are the file in the worktree, staged
and committed; a governed file goes to a topic branch.

### BootstrapAttachment (controller 1439–1552, `sdd-workspace-cleanup.mjs`)

`attachment` is the file, `copy[c]` what caller `c` read; `Write`s rename the whole file
without comparing. `Attach`, `Retain`, `Plan`, `Inspect`, `Remove` and `Finish` are the two
commands that change it, `Close` the check that a bootstrap run may be closed.

### RuntimeInstall (`install-runtime.mjs`, `runtime-home.mjs`, `launcher.mjs`)

`directory` is a version's directory as its manifest describes it: whole, damaged (a manifest
that the content does not match), bare (no manifest) or absent; `installed` the history,
`active` the active metadata. `Install` … `Activate` is `installAiSkills` from the validated
staging directory on: skills first, unless they are left out, then promotion by one rename,
then the history read and written back, then the active metadata. `Rollback` … `WriteHistory`
is `activatePrevious`, which activates first and appends after; `PreviousOf` is
`previouslyActive`. `Launch`, `VerifyContent`, `Run` are a dispatch, which resolves the active
runtime once. `Stop` ends a command anywhere, by a failing write or a death. `Meddle` is people
in the version directories. `trail` and `disturbed` are history: the versions in the
order they became active, and whether two commands had the history open at one time or one
ended between its two writes.

## Runs

| run | result | shows |
|---|---|---|
| `MutationLockSafe` | passes | one reclaimer is elected; unless a process ends in the one window of `QuietSpec`, the lock is exclusive, never taken from a live owner and implements `RepositoryMutex`; a dead owner's lock is reclaimed |
| `MutationLockReplaced` | violation | a process that *releases* the lock and exits while a reclaimer is between its comparison of the inodes and its probe lets the reclaimer remove another process's live lock, against the comment at `autonomous-sdd-local-store.mjs` 83 |
| `ControllerStoreSafe` | passes | if nobody else takes the lock while a dead owner's lock is being reclaimed: one holder, no lost update, retirement and progress exclude each other, implements `RetirableRecord` |
| `ControllerStoreRecovery` | passes | a dead owner's record lock is reclaimed; a retirement retried with its original time completes, unless it stopped with its receipt still in the active directory |
| `ControllerStoreLostUpdate` | violation | two processes reclaim one dead owner's lock, both hold it and a completed phase is erased, against the comment at controller 1230 |
| `RunLifecycleSafe` | passes | any command at any time: one active run; a bound controller has its run; no record is lost and the archive never changes |
| `RunLifecycleRecovery` | passes | under the discipline, processes ending and calls failing anywhere: claims tracked, archives coherent, runs that were closed in order verified, `RepositoryClaim` implemented, interrupted initializations and closings completed |
| `RunLifecycleReplaced` | violation | two commands close one run at once and the later rename replaces a published receipt, against the local store's test (line 29, "immutable publication never replaces an existing record") and the run-contract specification, line 89 |
| `RunLifecycleUnbound` | violation | a crash between admission and binding, then cancellation: the archived run is never verified terminal, against the terminalization specification, line 54 |
| `DeliveryLifecycleSafe` | passes | receipts are truthful; what a cleaner removes that nobody overtook since its inspection is delivered work of the selected entry, its start on record; `DeliveryQueue` implemented; cleanups retried one at a time finish |
| `ReviewSafe` | passes | an accepted review is of the pinned program and package and the only accepted answer; its evidence stays in place while a receipt can be read; the parser's verdict is right; the view is released; degraded reviews are authorized, of the package under review, and leave no worktree without its root |
| `DeliverySafe` | passes | no adapter repeats what is in doubt; merges follow a passed review of the head of the last Apply, launched since that Apply or (older evidence) dated since, and bounded, unbroken corrections; cleanup commands lose no commit their verification saw and push only the cleanup's own commit, of content that was checked; a bootstrap run closes clean; the active runtime is whole; a rollback restores the runtime that was active before, unless commands overlapped or one was cut off between its writes |

A *violation* run checks one statement made by a comment or a specification of the
repository, quoted with its line under `findings`, and the trace shows what the code
does instead.

Every property of a passing run has a *mutant*: a plausible bug in a modelled
definition (a dropped guard, an off-by-one, a swapped order) under which the same run
finds the property violated. They stand beside the definition they change and begin
with its name.

## Bounds

- `MutationLockSafe`: three processes, because a replaced lock needs an owner, a
  reclaimer and a third who links the replacement. No other bound: the state space is
  finite.
- `ControllerStore*`: three processes and two updates for safety (two reclaimers of a
  third's lock; one update to lose and one to lose it to), two processes for recovery.
  `MaxClock` 2 gives every retirement an earlier and a later timestamp. The record is a
  set of updates, so each is added once, as a phase is.
- `RunLifecycle*`: two runs (a claim and its competitor) and two processes. `MaxClock` 2
  with deadlines 2 and 3: a run that expires during the run and one that does not.
  `MaxFailures` bounds failing calls (0 and 1): retries make two failures one failure
  twice. `RunLifecycleSafe` lets processes end before each rename that publishes
  something (`EndSafe`: a staging directory half or wholly written included),
  `RunLifecycleRecovery` anywhere. `RunLifecycleReplaced` and `RunLifecycleUnbound` need one run.
- `DeliveryLifecycleSafe`: two entries of two phases (an ordinary one and cleanup), a
  worktree and the branch it has checked out, which is what the order of the stages
  is about; two processes, one change and one failure. Processes end around the
  removal, where a crash leaves something unfinished.
- `ReviewSafe`: two captures of one command (a second started while the first runs or
  after it was killed), one replacement of installed files (before, between or after any
  two checks), two items and seven events (the shortest complete stream, and one event
  over the bound), two launches of the host (an answer of the earlier for the later) and
  one correction of the package. About a million states.
- `DeliverySafe`: the slice with four attempts; the gate with two pushes, one Apply (reviews
  are launched, or dated, before and after it), one recorded review, one failure with a
  budget of one (a correction, and one too many) and one unavailability; one branch with two
  commits; five steps by hand around a cleanup commit; two callers of the attachment; two
  operators, two versions, three activations (the first version, the second, and one of them
  again) and one version that people touch. About two million states. A second Apply and a
  second review make the gate alone too large for a run; the proof covers any number.

`MCReview` and `MCDelivery` put components that share no state into one run: a behaviour
picks its scene at the start and keeps to it, so that the states of the scenes add up and
do not multiply. The bounds of each scene are those of its module.

Symmetry in the processes is used in `RunLifecycleSafe` and `ControllerStoreSafe` only:
neither checks a liveness property and no definition tells processes apart.
The theorems cover every value of the constants where they exist. Deadlock is not
checked: every process may have ended and every counter be at its bound.

## Fairness

A command is synchronous code without waiting: once called it runs to its return or
is killed. That is `WF_vars(Step(p))`, and it does not forbid `End(p)`. The rest is the
callers, and each is named in the specification that assumes it:

- `MutationLock!RetrySpec`: a refused caller calls again, `WF_vars(Call(p))`.
- `ControllerStore!RetrySpec`: callers come back with a fresh copy, `SF_vars(PrepareAny(p))`
  (strong, because another's retirement or lock may disable it meanwhile), and a
  retirement that published its marker is retried with the payload it began with.
- `RunLifecycle!RetrySpec`: an initialization is retried until bound, a closing that
  published its receipt is retried with its payload, `now` included. The procedures
  ask for that, and the code depends on it.
- `DeliveryLifecycle!RetrySpec`: a caller with a stale copy reads the record again,
  `WF_vars(Load(p))`, and repeats the cleanup, `SF_vars(BeginCleanup(p))`; people settle
  what they changed, `WF_vars(Settle(r))`. Creating, changing and registering are not
  fair: nobody has to.

- `ReviewCapture!Spec`: the assistant runs the command it was given, `WF` of launching some
  capture, and a parent that has not answered goes on consuming, `WF` of its steps. No
  capture has to come to its end: the parent judges what it finds, and the view is released
  all the same (`ViewReleased`).

The modules of the delivery state safety only: whether GitHub, a host or a person ever
acts is not the code's to promise.

Liveness properties say what they need besides: a live process (`running = {}` is an
exit of each), no orphaned reclaim link, no retirement stranded with its receipt in the active
directory, no orphaned staging directory, an unexpired authorization.

## Proofs

TLAPS proves, for every set of processes, updates, resources and every bound:

| theorem | assumption | property |
|---|---|---|
| `MutationLockProofs!TypeCorrect` | – | `TypeOK` |
| `MutationLockProofs!ElectionCorrect` | – | `OneReclaimer` |
| `MutationLockProofs!MutualExclusionCorrect`, `LiveLockKeptCorrect`, `LockImplementsMutex` | `QuietSpec` | `MutualExclusion`, `LiveLockKept`, refinement of `RepositoryMutex` |
| `ControllerStoreProofs!TypeCorrect` | – | `TypeOK` |
| `ControllerStoreProofs!OneHolderCorrect`, `RetirementCorrect`, `NoLostUpdateCorrect`, `StoreImplementsRecord` | `QuietSpec` | `OneHolder`, `RetiredMadeNoProgress`, `NoLostUpdate`, refinement of `RetirableRecord` |
| `RunLifecycleProofs!TypeCorrect`, `OneActiveRunCorrect`, `BoundHasRunCorrect`, `RecordsKeptCorrect` | – | `TypeOK`, `OneActiveRun`, `BoundHasRun`, `RecordsKept` |
| `RunLifecycleProofs!ClaimTrackedCorrect` | `UsesInitializer` | `ClaimTracked` |
| `RunLifecycleProofs!ArchivesCoherentCorrect` | `KeepsToOneClosing` | `ArchivesCoherent` |
| `RunLifecycleProofs!BoundRunsVerifyCorrect`, `RunImplementsClaim` | `KeepsToOneLife` | `BoundRunsVerify`, refinement of `RepositoryClaim` |
| `DeliveryLifecycleProofs!TypeCorrect`, `ReceiptsCorrect`, `RemovesOnlyDeliveredCorrect`, `LifecycleImplementsQueue` | – | `TypeOK`, `ReceiptsTruthful`, `RemovesOnlyDelivered`, refinement of `DeliveryQueue` |
| `ReviewCaptureProofs!TypeCorrect`, `AcceptedReviewSoundCorrect`, `EvidenceInPlaceCorrect` | – | `TypeOK`, `AcceptedReviewSound`, `EvidenceInPlace` |
| `MergeGateProofs!MergePermittedSoundlyCorrect` | `GateConstants` | `MergePermittedSoundly` |
| `MCReviewProofs!ParserAgreesCorrect` | `ReviewConstants` | `ParserAgrees` |
| `MCReviewProofs!TypesCorrect` | `ReviewConstants` | `TypesOK` |
| `MCReviewProofs!RootOutlivesRegistrationCorrect`, `DegradedReviewSoundCorrect` | `ReviewConstants` | `RootOutlivesRegistration`, `DegradedReviewSound` |
| `MCDeliveryProofs!ObservedBeforeRetried` | – | `ObserveBeforeRetry` |
| `MCDeliveryProofs!CleanupVerified` | `CommitBound` | `CleanupDoesWhatItVerified` |
| `MCDeliveryProofs!ClosedWhenCleanCorrect` | – | `ClosedWhenClean` |
| `MCDeliveryProofs!RuntimeWholeCorrect`, `RollbackRestoresCorrect` | – | `RuntimeWhole`, `RollbackRestores` |
| `MCDeliveryProofs!TypesCorrect` | `GateConstants`, `CommitBound`, `HandBound` | `TypesOK` |

`KeepsToOneClosing` is the disciplines `oneCall` and `oneKind`, `KeepsToOneLife` adds `fresh`,
`UsesInitializer` is `initializer`. `GateConstants` says that the bounds are numbers, that the
budget of corrections is at most the three that a chain may have, and that a failure is not
called `none` or `drift`; `ReviewConstants` that the bounds are numbers and that no launch is
called `none` or `direct`; `CommitBound` and `HandBound` that the bounds of the generic cleanup
are numbers. The last four are `ASSUME`s of their modules, which the runs evaluate. Of the code
they say only that a budget is at most three; the numbers are bounds of the model, and the names
are the ones the model uses for "nobody".

**The lock.** `QuietSpec` lets processes exit and die anywhere but in one window: having given its
lock up after a reclaimer linked and compared it, a process stays alive until that reclaimer has
probed its pid. Short-lived callers do not see to that; `MutationLockReplaced` is what happens
then. An exit outside the window, before or after, is harmless, and the proof says so. None of the
promises is inductive alone. `SafeInv` adds what a reclaimer knows at each of its points
(`ClaimIsCurrent`: a claimed owner that is dead still owns the lock; `UnlinksStaleLock`: the lock
about to be unlinked has a dead owner) and that whoever is inside owns the lock
(`InsideOwnsLock`). The dangerous step is `UnlinkLock`.

**The store.** `QuietSpec` excludes the behaviour of `ControllerStoreLostUpdate`: from
seeing the lock of a dead owner until it is unlinked, no other process uses the lock.
`SafeInv` adds that a locked process owns the lock file (`HolderOwnsLock`), that an
unlinker's target is dead (`UnlinksDeadOwner`), that what was checked under the lock still
holds at the rename (`CheckedUnderLock`), and that the markers come in their order
(`MarkersInOrder`). `NoLostUpdate` and the refinement are one argument about
`RenameRecord`: the record is still the copy the update was made from, and no marker is
published.

**The run.** `OneActiveRun` is preserved because admission holds the lock from its
inspection to its rename. `ClaimInv` says so: at every point in between the process is the
holder (`HoldsLock`), its staging directory is there (`StagesOwn`) and nothing is admitted
(`StagesAlone`). That a failed call returns its lock, and that the records of a closing
neither admit a run nor take an admission away (`ClosingKeepsAdmissions`), are the two
lemmas it rests on. No discipline is assumed. `BoundInv` follows the run of a controller
that is about to be bound: a run leaves `active/` for the archive only (`RunStays`,
`MovesRun`), an admission is resumed only where its own run is
active, or where a dead process left its staging directory whole (`StagesLive`), and so what is
bound is there in one of these ways (`BindsToRun`). `RecordsKept` needs that the destination of
an archive's rename is free and stays so under the lock (`MovesFresh`). `TrackedInv` says that an
initializer reaches the admission with its record written (`AdmitsTracked`).

What a closing leaves behind rests on `CloseInv`: the records that a closing has passed hold its
kind and its `now` (`ClosesOwn`), nobody else closes the same run meanwhile (`OneCallEach`), so
what is moved is coherent (`MoveCoherent`). Where a closed run is not admitted again, `VerifyInv`
adds that a run is admitted before it is closed and archived once (`AdmitsFresh`,
`ActiveUnarchived`, `ArchivedOnce`) and that a call that returned has closed and archived it
(`DoneCloses`, `DoneArchives`). The refinement of `RepositoryClaim` follows: `RenameStaged` admits
a run that was not closed, the archive's rename closes the one that was admitted, and every other
step stutters.

**The delivery.** `TruthInv` strengthens `ReceiptsTruthful`: receipts are of delivered
resources, an idle process has nothing to do, and a cleaner whose copy is *current* is at
delivered resources and will record as completed only what is gone. A stale cleaner may
be wrong about everything, but its compare-and-swap fails. `CleanIsEmpty` then makes the
refinement of `DeliveryQueue` a step-by-step argument: with truthful receipts, a clean entry
owns nothing that is left. `RemovalInv` adds that a cleaner before a
removal, stale or not, is at a resource that is still as delivered, or was overtaken; its one
exit is what nothing in the code prevents.

**The review.** An accepted review ran the pinned program although the files may be replaced
at any time, because versions only grow: `Between` says that what a capture ran is not older
than what was pinned and not newer than what is installed, and `Judge` finds the installed
version to be the pinned one. `Attempted`, `Done` and `Pure` say what a capture's attempts and
its result were; `PlaceInv` and `ReceiptsOwn` that a receipt is its capture's and follows the
result.

**The merge.** The chain of corrections is checked link by link, so that no induction over it
is needed: `Numbered` says that in a linked prefix record *n* is of push *n*, and
`ChainCovers` that a chain that ends at the current head therefore has a record for every
push. `Timed` orders reviews and Applies, `Recorded` ties a record to its
push, `Budgeted` bounds the corrections of each failure.

**The parser.** The parser forgets the stream; the proof says what it keeps of it. Until a line
is refused (`Followed`), the turn is the shape of the stream (`InOrder`), the state of an item is
what the stream has of it (`Tracked`: nothing, a kind and no completion, or a completion, and
a legal life so far) and the candidate is the last message (`Heard`). A refused line makes a
stream that neither is closed nor can be completed (`Lost`): a second start, an update of what
is not there, a line after the completion, a line too many are illegal wherever they stand. Each
half has a lemma for the lines of the turn and one for those of an item (`TurnFollowed`,
`ItemLives`, `TurnLost`, `ItemLost`). Items, the bound and the length of the stream are
arbitrary, and no induction over the stream is needed: the invariant of the steps is one.

**The degraded review.** `Built(l)` says what a launch has on disk at each point of its host,
whatever git command failed before, so that the root is always the last to go; `Bound` that while
the caller is away, the unavailability that its request was made from is the one on record, and is
of the package under review. A late answer to an earlier launch is not the one that is waited for.

**The slice.** `SliceInv`: no attempt at a review is ever in doubt, because a review is written
when it returns. That is why `ReviewAside` may append one without looking; every other attempt
is recorded by a driver that found none of its step in doubt, in the whole store and not only
at its end.

**The generic cleanup.** Between a verification and its command people may do anything, but what
they do only adds: commits are numbered as they are made and what is merged stays merged
(`Ordered`). `Warranted` ties the verified step to that: what it looked at is still below what
is merged or on the remote, so the command loses at most commits that came later. For a file,
`FileInv` says that what a verified commit step saw in the index was looked at, and that the
commit noted for the push is the cleanup's own, of such content.

**The attachment.** `ReceiptsTrue`: no copy of the attachment, on disk or in a caller, records a
removal that did not happen. Lost writes lose receipts, and nobody brings a migrated
resource back; so an attachment that says all is removed is right.

**The runtime.** `SoundInv`: a version's directory comes by one rename or is left as it is, so
what is active, what a launcher resolved and what a command is about to activate is whole unless
people touched it. `HistoryInv`: while nothing disturbed it, the history is the trail of
activations, but for the one entry of the command that has it open (`Follows`); so the last entry
of another version is what was active before.

**The types.** Every module's type invariant is a theorem, for the components that a run puts side
by side as one, `TypesOK`. Two of its conjuncts are more than bookkeeping. That a capture
attempts at most twice needs `Attempted`: it repeats its first attempt only. That the stream
is at most one line over its bound needs `Followed`: the line too many is refused and nothing
is consumed after it.

Only model-checked are the seven liveness properties (fairness and `ENABLED` are outside the
prover's reach): `StaleLockReclaimed` of the lock and of the record store,
`RetirementFinishes`, `AdmissionRecovers`, `CloseFinishes`, `CleanupFinishes` and
`ViewReleased`. Every safety property of a passing run is a theorem. No recursive
definitions are used, so nothing rests on induction over data.

## What the code leaves to its operators

The models show behaviours that the operators of the code should know. Each is the reason for a
discipline, an assumption or an exit in a property. Those that a document or a test of the
repository excludes are marked; four of them are the findings that a violation run
demonstrates, the others are not demonstrated by a run of their own.

Excluded by a document or a test:

- *A process that exits just after it released the mutation lock can cost another its lock*
  (outside `QuietSpec` of `MutationLock`; finding, `MutationLockReplaced`).
- *Two reclaimers of one record lock lose an update* (outside `QuietSpec` of `ControllerStore`;
  finding, `ControllerStoreLostUpdate`).
- *Two closings of one run at once may replace an immutable record*: looking and renaming are
  two steps without a lock (`autonomous-sdd-local-store.mjs` 128–131; without `oneCall`;
  finding, `RunLifecycleReplaced`).
- *A closed run that was never bound is never verified terminal* (finding,
  `RunLifecycleUnbound`). The same holds of a bound one that was closed as delivered before its
  phases were complete: terminalizing does not read the controller, and the inventory
  (`autonomous-sdd-admission.mjs` 133) asks for them. `BoundRunsVerify` is stated for runs closed
  in order. The terminalization specification (lines 54–62) makes neither exception.
- *A delivered run can be cancelled, and a run whose cancellation began can be terminalized*
  (controller 668; without `oneKind`): a run terminalized after that has both receipts, and its
  archive is not coherent. The terminalization specification (lines 100 and 110–112) asks for a
  typed pause.
- *A driver restarted after a committed proposal invokes the proposal's adapter again*, against
  the vertical-slice specification (lines 123–126, "without duplicating completed work").
- *A production review without a transport is committed as fresh*, without a terminal artifact
  (`autonomous-sdd-vertical-slice.mjs` 319), against the comment at 295 and the
  vertical-slice specification (lines 61–63).
- *An interrupted installation, or two at once, may make a rollback activate a runtime that was
  not the one before*: `installed.json` is written before `active.json`
  (`install-runtime.mjs` 276–279), and read and written back without a lock. The
  distribution specification (lines 205–213) has the command restore the prior runtime. This is
  what `disturbed` takes out of `RollbackRestores`.

Not excluded by a document we know of:

- *An orphaned `.reclaim` link blocks the lock for ever.* A reclaimer killed between lines
  85 and 97 of `autonomous-sdd-local-store.mjs` leaves a link nobody drops (`OrphanReclaim`).
- *A retirement or closing retried with a later `now` never completes*: the records it
  would publish differ from the ones that are there (controller 381, 693).
- *A retirement that stops between its cancellation receipt and the archive is stuck*: the
  receipt is itself a progress artifact (controller 473–479, 671), so every retry is refused,
  the ordinary cancellation conflicts with the receipt, and the run stays active (`Stranded`). A
  busy mutation lock at the moment of archiving is enough. The terminalization specification
  (lines 116–127) has that refusal and does not say what becomes of a retirement cut off.
- *A staging directory of a killed process counts as an active run*
  (`autonomous-sdd-admission.mjs` 232) until someone deletes it. If it is whole, an
  initialization of the same run resumes it and binds a run that is not in `active/`
  (`LeftStaged`).
- *A closed run whose authorization has not expired can be admitted again* (without `fresh`).
- *Two pending initializations of one repository block each other* until one expires and is
  retired.
- *A late cleanup is not fenced.* Selecting the next entry while a cleanup of the previous one
  runs lets it remove a branch of the same name the new entry created (`overtaken`).
- *A commit between the last inspection and a forced branch deletion is lost* (`overtaken`).
- *Two cleanups at once can keep each other from finishing*: each persisted receipt, a
  repeated already-completed one included, makes the other's copy stale (without
  `oneCleaner`).
- *A merge may rest on older evidence*: `validateIndependentReviewEvidence`
  (`check-operation-authorization.mjs` 337–350) compares the time the evidence bears with Apply,
  not the time its reviewer was launched. A review begun before the last Apply and dated after it
  passes (`EvidenceHolds`), which a review of a sealed package would not.
- *The chain of a degraded review is checked against three corrections of a failure*, not
  against the budget of the authorization; that the budget holds rests on each correction
  having been authorized, and on pushes outside the chain breaking it.
- *An `objective-failure` review of the slice commits and advances the stage* like any other
  result; who reads the evidence must look.
- *An attachment undone by another caller's write may be lost for good*: if its branch is
  removed already, it cannot be attached again, and the bootstrap run cannot be closed
  without a new signed migration. Retained resources never enter the attachment's
  `resources`.
- *A commit between a generic verification and a forced branch deletion is lost*, and the
  verification of a remote branch does not look at claims again. The pushed commit of a
  file brings its unpushed ancestors along.
- *A degraded result is not compared with the package by the dispatcher*; the launcher's own
  checks do that.
- *An installation of a version that is there takes its directory on trust* if it has a manifest
  (`install-runtime.mjs` 256–266) and makes it active, damaged or not; the launcher then refuses
  to run from it. The launcher shim is not written by a rename.

## Not modelled

- Signatures, digests, schema validation and path containment: a record is valid or not there, a
  digest comparison is equality of what it covers. Properties about malformed or forged files are
  out of scope.
- Repository identity, worktree inspection and `gh`: external; only their answers matter.
- The expiry of an authorization inside `DeliveryLifecycle` (it only refuses calls), issue intakes
  and authentication contexts (bindings of their own in the same record, with the compare-and-swap
  that `ControllerStore` models), and the migration of legacy resources.
- In the review: which reviewer is configured, the diagnostics of an attempt, the cutting of a
  package into chunks and the Claude adapter's command line. In the gate: the operations other
  than a merge, and the form of a run policy (`validate-run-policy.mjs`); both decide on one
  document at a time and change no state. In the generic cleanup: the discovery of remotes and of
  the default branch, the receipt of a plan, several files at a time, and the primary worktree as
  the place of a cleanup commit.
- *The GitHub transitions.* `autonomous-sdd-github-transitions.mjs`, the envelopes, the merge
  policy and the finalization predicates are functions from documents to documents that nothing
  under `scripts/` but tests calls. What makes a delivery happen once is the loop that observes,
  sends and reconciles, and that is an assistant's, following a procedure. A model of it would be
  a model of the procedure, not of this code.
- What `git` and `gh` do with a command: external.
- *Legacy reconciliation*: one create-only receipt per pre-v2 controller, of the form that
  `RunLifecycle` models for pending retirement.
- In the runtime: the build, the contract versions of skills and runtime, the content of the
  installed skills (they are installed before the runtime is promoted, so a failure in between
  leaves new skills beside the old runtime until the contract check refuses them), the launcher
  shim, and an operator's override of the active runtime by an environment variable.
- In the review's parent: some twenty refusals of a tool result, each with its own removal of the
  view, are one step. `ViewReleased` is about the hosts and captures around them, not about a
  branch that forgets the removal.
- *Research and planning runtime*: functions from documents to documents that keep no state
  between two calls.
- *Run status, sync and archive contracts, work tracking, validation and evaluation scripts*:
  stateless readers and wrappers. Skills, specifications and planning documents are text.

## Plan

Done: every detailed module with its runs, its abstract specification where it has one
(`RepositoryMutex`, `RetirableRecord`, `RepositoryClaim`, `DeliveryQueue`), every
refinement, every type invariant of a module and every safety property of a passing run proved.

Left, in order of importance:

1. An abstract specification of the review service, one answer per request that is of its
   package, with `ReviewCapture` and `ReviewRecovery` shown to implement it.
2. Legacy reconciliation in `RunLifecycle`, beside pending retirement.
3. Skills and runtime installed as a pair, in `RuntimeInstall`.

## Running it

    cd tla
    tlc -workers 2 -config DeliveryLifecycleSafe.cfg MCDeliveryLifecycle
    tlapm DeliveryLifecycleProofs.tla

Each `X.cfg` belongs to the module `PROJECT.json` names for it under `runs`. The longest
passing run, `DeliverySafe`, takes about four minutes on two cores; `RunLifecycleProofs` takes
about three minutes to prove, `MCDeliveryProofs` two, the others less than one each.
