--------------------------- MODULE DeliveryLifecycle ---------------------------
(***************************************************************************)
(* One delivery as its admitted controller record sees it: the phases of   *)
(* the selected entry, the worktrees and branches registered for it, their *)
(* delivery bindings, and the cleanup that removes them, leaving a receipt *)
(* for every step (autonomous-sdd-controller.mjs, sdd-workspace-cleanup    *)
(* .mjs).  Processes share the record; people and assistants change the    *)
(* worktrees and branches beside them.                                     *)
(*                                                                         *)
(* An update of the record is one step here: it succeeds for the process   *)
(* whose copy is the durable record, and makes every other copy stale      *)
(* (ControllerStore shows how the compare-and-swap does that).  Of a       *)
(* resource's receipts only the last one counts, so only that is kept.     *)
(* Issue intakes and authentication contexts are left out: nothing here    *)
(* depends on them.                                                        *)
(***************************************************************************)
EXTENDS Naturals, Sequences, FiniteSets

CONSTANTS
    Process,
    Worktree, Branch,  \* the resources
    CheckedOut,        \* which worktree has which branch checked out
    Entries, LastPhase, Evidence,
    None,              \* no resource
    Disciplines,       \* what the processes may keep to, see below
    EndPoints,         \* the points at which a process may end
    MaxChanges,        \* bound on the changes to delivered resources
    MaxFailures        \* bound on the inspections and removals that fail

Resource == Worktree \cup Branch

ASSUME KindsDiffer == Worktree \cap Branch = {} /\ None \notin Resource
ASSUME CheckedOutRelates == CheckedOut \subseteq Worktree \X Branch
ASSUME QueueSize == Entries \in Nat \ {0} /\ LastPhase \in Nat \ {0}
ASSUME Bounds == MaxChanges \in Nat /\ MaxFailures \in Nat

\*   oneCleaner  one cleanup runs at a time
ASSUME WhatDisciplines == Disciplines \subseteq SUBSET {"oneCleaner"}

Points == {"idle", "plan", "inspect", "start", "remove", "finish"}
ASSUME PointsArePoints == EndPoints \subseteq Points

Terminal == {"completed", "already-completed"}
Receipt == {"none", "started", "blocked"} \cup Terminal

VARIABLES
    record,            \* controller.json
    git,               \* what there is of each resource
    discipline,        \* which of the Disciplines holds; it never changes
    current,           \* the processes whose copy is the durable record
    pc,
    stage,             \* the stage of each process's cleanup: the kind it removes
    todo,              \* the resources of the stage it has not come to
    target,            \* the resource it is at
    result,            \* how the removal went
    blocked,           \* some outcome of its stage was blocked
    overtaken,         \* history, read by no action: the cleaners whose resource was
                       \* changed, or whose entry was left, since they inspected it
    running,
    changes, failures

calls == <<stage, todo, target, result, blocked>>
locals == <<calls, overtaken>>
bounds == <<changes, failures>>
vars == <<record, git, discipline, current, pc, locals, running, bounds>>

Fresh == [entry |-> 1, done |-> <<>>,
          resources |-> [r \in Resource |-> "none"],
          receipts |-> [r \in Resource |-> "none"]]

Init ==
    /\ record = Fresh
    /\ git = [r \in Resource |-> "absent"]
    /\ discipline \in Disciplines
    /\ current = {}
    /\ pc = [p \in Process |-> "idle"]
    /\ stage = [p \in Process |-> "worktree"]
    /\ todo = [p \in Process |-> {}]
    /\ target = [p \in Process |-> None]
    /\ result = [p \in Process |-> "none"]
    /\ blocked = [p \in Process |-> FALSE]
    /\ overtaken = {}
    /\ running = Process
    /\ changes = 0 /\ failures = 0

At(p, point) == p \in running /\ pc[p] = point
Goto(p, point) == pc' = [pc EXCEPT ![p] = point]

Return(p) ==
    /\ Goto(p, "idle")
    /\ stage' = [stage EXCEPT ![p] = "worktree"]
    /\ todo' = [todo EXCEPT ![p] = {}]
    /\ target' = [target EXCEPT ![p] = None]
    /\ result' = [result EXCEPT ![p] = "none"]
    /\ blocked' = [blocked EXCEPT ![p] = FALSE]
    /\ overtaken' = overtaken \ {p}

\* The compare-and-swap of the record: p has the new record, the others' copies
\* are stale.
Persist(p, new) == p \in current /\ record' = new /\ current' = {p}

Cleaning == {p \in running : pc[p] # "idle"}

-----------------------------------------------------------------------------
\* What the record says.

Registered(rec) == {r \in Resource : rec.resources[r] # "none"}

\* validCompletedEntry: something was registered, and everything registered was
\* delivered and its last receipt is terminal.
EntryClean(rec) ==
    /\ Registered(rec) # {}
    /\ \A r \in Registered(rec) :
          rec.resources[r] = "delivered" /\ rec.receipts[r] \in Terminal

-----------------------------------------------------------------------------
\* People and assistants.

\* A resource is created once it is registered (the skill asks for that order).
Create(r) ==
    /\ record.resources[r] = "pending" /\ git[r] = "absent"
    /\ git' = [git EXCEPT ![r] = "undelivered"]
    /\ UNCHANGED <<record, discipline, current, pc, locals, running, bounds>>

\* Somebody commits on a delivered branch, or leaves changes in its worktree.
Change(r) ==
    /\ git[r] = "delivered" /\ changes < MaxChanges
    /\ git' = [git EXCEPT ![r] = "undelivered"]
    /\ changes' = changes + 1
    /\ overtaken' = overtaken \cup {p \in Process : target[p] = r}
    /\ UNCHANGED <<record, discipline, current, pc, calls, running, failures>>

\* The changes are taken back or moved elsewhere.
Settle(r) ==
    /\ record.resources[r] = "delivered" /\ git[r] = "undelivered"
    /\ git' = [git EXCEPT ![r] = "delivered"]
    /\ UNCHANGED <<record, discipline, current, pc, locals, running, bounds>>

-----------------------------------------------------------------------------
\* The calls that update the record.

\* The caller reads the durable record.
Load(p) ==
    /\ At(p, "idle") /\ p \notin current
    /\ current' = current \cup {p}
    /\ UNCHANGED <<record, git, discipline, pc, locals, running, bounds>>

\* registerControllerLifecycleResource.
Register(p, r) ==
    /\ At(p, "idle")
    /\ record.resources[r] = "none"
    /\ Persist(p, [record EXCEPT !.resources[r] = "pending"])
    /\ UNCHANGED <<git, discipline, pc, locals, running, bounds>>

\* bindControllerLifecycleDelivery, called when the resource's pull request is
\* merged: what there is of it is what was delivered.
Bind(p, r) ==
    /\ At(p, "idle")
    /\ record.resources[r] = "pending"
    /\ Persist(p, [record EXCEPT !.resources[r] = "delivered"])
    /\ git' = [git EXCEPT ![r] = IF @ = "absent" THEN @ ELSE "delivered"]
    /\ UNCHANGED <<discipline, pc, locals, running, bounds>>

\* Mutant of AdvancePhase: the cleanup phase takes the caller's word for it.
AdvancePhaseUnchecked(p, e) ==
    /\ At(p, "idle")
    /\ Len(record.done) < LastPhase
    /\ Persist(p, [record EXCEPT !.done = Append(@, e)])
    /\ UNCHANGED <<git, discipline, pc, locals, running, bounds>>

\* Mutant of AdvancePhase: a repeated call completes its phase once more.
AdvancePhaseBeyond(p, e) ==
    /\ At(p, "idle")
    /\ Len(record.done) + 1 >= LastPhase => EntryClean(record)
    /\ Persist(p, [record EXCEPT !.done = Append(@, e)])
    /\ UNCHANGED <<git, discipline, pc, locals, running, bounds>>

\* advanceControllerLifecyclePhase: only the first incomplete phase, with current
\* evidence.  A repeated call changes nothing, and so does one that is refused
\* because the authorization has expired: the model leaves time out.
AdvancePhase(p, e) ==
    /\ At(p, "idle")
    /\ Len(record.done) < LastPhase
    /\ Len(record.done) + 1 = LastPhase => EntryClean(record)
    /\ Persist(p, [record EXCEPT !.done = Append(@, e)])
    /\ UNCHANGED <<git, discipline, pc, locals, running, bounds>>

\* advanceControllerQueue, and the persistence of its result.
AdvanceQueue(p) ==
    /\ At(p, "idle")
    /\ Len(record.done) = LastPhase
    /\ record.entry < Entries
    /\ EntryClean(record)
    /\ Persist(p, [Fresh EXCEPT !.entry = record.entry + 1])
    /\ overtaken' = overtaken \cup {q \in Process : target[q] # None}
    /\ UNCHANGED <<git, discipline, pc, calls, running, bounds>>

-----------------------------------------------------------------------------
\* executeControllerLifecycleCleanup.

StageResources(kind) ==
    Registered(record) \cap (IF kind = "worktree" THEN Worktree ELSE Branch)

Referenced(r) == \E w \in Worktree : <<w, r>> \in CheckedOut /\ git[w] # "absent"

\* resourceEligible: everything in it was delivered, and it is free to go.
Removable(r) == git[r] = "delivered" /\ ~Referenced(r)

\* What the plan of a stage accepts: gone already, or removable now.
Eligible(r) ==
    record.resources[r] = "delivered" /\ (git[r] = "absent" \/ Removable(r))

\* Mutant of BeginCleanup: one stage for all, the branches first.
BeginCleanupBranches(p) ==
    /\ At(p, "idle") /\ p \in current
    /\ Registered(record) # {}
    /\ "oneCleaner" \in discipline => Cleaning = {}
    /\ stage' = [stage EXCEPT ![p] = "branch"]
    /\ Goto(p, "plan")
    /\ UNCHANGED <<record, git, discipline, current, todo, target, result, blocked,
                   overtaken, running, bounds>>

\* The stages with nothing registered are passed over.  With a stale copy the
\* call would persist nothing, and so remove nothing.
BeginCleanup(p) ==
    /\ At(p, "idle") /\ p \in current
    /\ Registered(record) # {}
    /\ "oneCleaner" \in discipline => Cleaning = {}
    /\ stage' = [stage EXCEPT ![p] =
                    IF StageResources("worktree") # {} THEN "worktree" ELSE "branch"]
    /\ Goto(p, "plan")
    /\ UNCHANGED <<record, git, discipline, current, todo, target, result, blocked,
                   overtaken, running, bounds>>

\* planWorkspaceCleanup on a fresh inspection: one ineligible resource stops the
\* stage before anything is recorded or removed.
Plan(p) ==
    /\ At(p, "plan")
    /\ IF p \in current /\ \A r \in StageResources(stage[p]) : Eligible(r)
       THEN /\ todo' = [todo EXCEPT ![p] = StageResources(stage[p])]
            /\ Goto(p, "inspect")
            /\ UNCHANGED <<stage, target, result, blocked, overtaken>>
       ELSE Return(p)
    /\ UNCHANGED <<record, git, discipline, current, running, bounds>>

\* persistOutcome for the target, and what the stage remembers of it: an outcome
\* that could not be persisted is a blocked one.
Outcome(p, r, status) ==
    /\ IF p \in current
       THEN Persist(p, [record EXCEPT !.receipts[r] = status])
       ELSE UNCHANGED <<record, current>>
    /\ blocked' = [blocked EXCEPT ![p] = @ \/ p \notin current \/ status = "blocked"]

\* Mutant of Inspect: what is there is taken to be what was planned.
InspectOnce(p) ==
    /\ At(p, "inspect")
    /\ \E r \in todo[p] :
          /\ todo' = [todo EXCEPT ![p] = @ \ {r}]
          /\ IF git[r] = "absent"
             THEN Outcome(p, r, "already-completed") /\ UNCHANGED <<pc, target>>
             ELSE /\ Goto(p, "start")
                  /\ target' = [target EXCEPT ![p] = r]
                  /\ UNCHANGED <<record, current, blocked>>
    /\ UNCHANGED <<git, discipline, stage, result, overtaken, running, bounds>>

\* The next resource of the stage is inspected again: gone, changed, or as planned.
Inspect(p) ==
    /\ At(p, "inspect")
    /\ \E r \in todo[p] :
          /\ todo' = [todo EXCEPT ![p] = @ \ {r}]
          /\ \/ /\ git[r] = "absent"
                /\ Outcome(p, r, "already-completed")
                /\ UNCHANGED <<pc, target>>
             \/ /\ git[r] # "absent" /\ ~Removable(r)
                /\ Outcome(p, r, "blocked")
                /\ UNCHANGED <<pc, target>>
             \/ /\ Removable(r)
                /\ Goto(p, "start")
                /\ target' = [target EXCEPT ![p] = r]
                /\ UNCHANGED <<record, current, blocked>>
    /\ UNCHANGED <<git, discipline, stage, result, overtaken, running, bounds>>

\* No removal without its start on record.
Start(p) ==
    /\ At(p, "start")
    /\ Outcome(p, target[p], "started")
    /\ IF p \in current THEN Goto(p, "remove") /\ UNCHANGED <<target, overtaken>>
       ELSE /\ Goto(p, "inspect")
            /\ target' = [target EXCEPT ![p] = None]
            /\ overtaken' = overtaken \ {p}
    /\ UNCHANGED <<git, discipline, stage, todo, result, running, bounds>>

\* git removes a branch, forced if need be, that is not checked out, and a worktree
\* that is clean; it refuses the others, and what is gone.
Remove(p) ==
    LET r == target[p]
        removes == IF r \in Branch THEN git[r] # "absent" /\ ~Referenced(r)
                   ELSE git[r] = "delivered" IN
    /\ At(p, "remove")
    /\ git' = IF removes THEN [git EXCEPT ![r] = "absent"] ELSE git
    /\ result' = [result EXCEPT ![p] = IF removes THEN "completed" ELSE "blocked"]
    /\ Goto(p, "finish")
    /\ UNCHANGED <<record, discipline, current, stage, todo, target, blocked, overtaken,
                   running, bounds>>

\* Mutant of RemoveFails: an exception leaves the result of a removal that worked.
RemoveFailsUnnoticed(p) ==
    /\ At(p, "remove")
    /\ failures < MaxFailures
    /\ failures' = failures + 1
    /\ result' = [result EXCEPT ![p] = "completed"]
    /\ Goto(p, "finish")
    /\ UNCHANGED <<record, git, discipline, current, stage, todo, target, blocked,
                   overtaken, running, changes>>

RemoveFails(p) ==
    /\ At(p, "remove")
    /\ failures < MaxFailures
    /\ failures' = failures + 1
    /\ result' = [result EXCEPT ![p] = "blocked"]
    /\ Goto(p, "finish")
    /\ UNCHANGED <<record, git, discipline, current, stage, todo, target, blocked,
                   overtaken, running, changes>>

Finish(p) ==
    /\ At(p, "finish")
    /\ Outcome(p, target[p], result[p])
    /\ Goto(p, "inspect")
    /\ target' = [target EXCEPT ![p] = None]
    /\ result' = [result EXCEPT ![p] = "none"]
    /\ overtaken' = overtaken \ {p}
    /\ UNCHANGED <<git, discipline, stage, todo, running, bounds>>

\* A stage with a blocked outcome ends the call; the branches come after the
\* worktrees.
EndStage(p) ==
    /\ At(p, "inspect") /\ todo[p] = {}
    /\ IF ~blocked[p] /\ stage[p] = "worktree" /\ StageResources("branch") # {}
       THEN /\ stage' = [stage EXCEPT ![p] = "branch"]
            /\ Goto(p, "plan")
            /\ UNCHANGED <<todo, target, result, blocked, overtaken>>
       ELSE Return(p)
    /\ UNCHANGED <<record, git, discipline, current, running, bounds>>

\* An inspection throws, and the call with it.
InspectFails(p) ==
    /\ At(p, "plan") \/ (At(p, "inspect") /\ todo[p] # {})
    /\ failures < MaxFailures
    /\ failures' = failures + 1
    /\ Return(p)
    /\ UNCHANGED <<record, git, discipline, current, running, changes>>

\* The process is killed.
End(p) ==
    /\ p \in running /\ pc[p] \in EndPoints
    /\ running' = running \ {p}
    /\ current' = current \ {p}
    /\ Return(p)
    /\ UNCHANGED <<record, git, discipline, bounds>>

Step(p) ==
    Plan(p) \/ Inspect(p) \/ Start(p) \/ Remove(p) \/ Finish(p) \/ EndStage(p)

Update(p) ==
    \/ \E r \in Resource : Register(p, r) \/ Bind(p, r)
    \/ \E e \in Evidence : AdvancePhase(p, e)
    \/ AdvanceQueue(p)

World ==
    \E r \in Resource : Create(r) \/ Change(r) \/ Settle(r)

Next ==
    \/ World
    \/ \E p \in Process :
          \/ Load(p) \/ Update(p) \/ BeginCleanup(p) \/ Step(p)
          \/ RemoveFails(p) \/ InspectFails(p) \/ End(p)

Spec == Init /\ [][Next]_vars

\* The scripts run on once started; their callers read the record again when theirs
\* is stale and repeat the cleanup; people settle what they changed.
RetrySpec ==
    /\ Spec
    /\ \A p \in Process :
          WF_vars(Step(p)) /\ WF_vars(Load(p)) /\ SF_vars(BeginCleanup(p))
    /\ \A r \in Resource : WF_vars(Settle(r))

-----------------------------------------------------------------------------
TypeOK ==
    /\ record \in [entry : 1..Entries, done : Seq(Evidence),
                   resources : [Resource -> {"none", "pending", "delivered"}],
                   receipts : [Resource -> Receipt]]
    /\ Len(record.done) <= LastPhase
    /\ git \in [Resource -> {"absent", "delivered", "undelivered"}]
    /\ discipline \in Disciplines
    /\ current \subseteq running /\ running \subseteq Process
    /\ pc \in [Process -> Points]
    /\ stage \in [Process -> {"worktree", "branch"}]
    /\ todo \in [Process -> SUBSET Resource]
    /\ target \in [Process -> Resource \cup {None}]
    /\ result \in [Process -> {"none", "completed", "blocked"}]
    /\ blocked \in [Process -> BOOLEAN]
    /\ overtaken \subseteq Process
    /\ changes \in 0..MaxChanges /\ failures \in 0..MaxFailures
    /\ \A p \in Process :
          /\ pc[p] \in {"start", "remove", "finish"} => target[p] \in Resource
          /\ pc[p] = "finish" => result[p] # "none"

\* A terminal receipt tells the truth: the resource is gone, whoever wrote the
\* receipt and whatever crashed between the removal and the receipt.
ReceiptsTruthful ==
    \A r \in Resource : record.receipts[r] \in Terminal => git[r] = "absent"

\* Why ReceiptsTruthful is preserved.  A receipt is only ever of a delivered resource,
\* and a cleaner with the current record is at delivered resources only; what it will
\* record as completed is gone.  A cleaner with a stale copy may be wrong about
\* everything, but records nothing.
ReceiptsOfDelivered ==
    \A r \in Resource :
        record.receipts[r] # "none" => record.resources[r] = "delivered"

IdleHasNothingToDo == \A p \in Process : pc[p] = "idle" => todo[p] = {}

CurrentCleaners ==
    \A p \in current :
        /\ \A r \in todo[p] : record.resources[r] = "delivered"
        /\ pc[p] \in {"start", "remove", "finish"} =>
              record.resources[target[p]] = "delivered"
        /\ pc[p] = "finish" /\ result[p] = "completed" => git[target[p]] = "absent"

TruthInv ==
    /\ TypeOK
    /\ ReceiptsTruthful
    /\ ReceiptsOfDelivered
    /\ IdleHasNothingToDo
    /\ CurrentCleaners

\* What a cleanup destroys is a resource of the selected entry with nothing in it but
\* delivered work, and the record has a receipt of the attempt already; unless the
\* cleaner was overtaken since its last inspection, which nothing prevents.
RemovesOnlyDelivered ==
    [][\A r \in Resource : git[r] # "absent" /\ git'[r] = "absent" =>
          \E p \in running :
              /\ target[p] = r /\ pc[p] = "remove" /\ pc'[p] = "finish"
              /\ \/ p \in overtaken
                 \/ /\ git[r] = "delivered"
                    /\ record.resources[r] = "delivered"
                    /\ record.receipts[r] # "none"]_vars

\* Why RemovesOnlyDelivered holds: only what the record has is there, and what is there
\* as delivered was bound; a cleaner about to remove a resource, its copy current or
\* stale, is at a delivered one of the selected entry, its start on record, or it
\* was overtaken.
GitFollowsRecord ==
    \A r \in Resource : git[r] # "absent" =>
        /\ record.resources[r] # "none"
        /\ git[r] = "delivered" => record.resources[r] = "delivered"

Remover(p) ==
    p \notin overtaken =>
        /\ pc[p] \in {"start", "remove"} =>
              /\ record.resources[target[p]] = "delivered"
              /\ git[target[p]] # "undelivered"
        /\ pc[p] = "remove" => record.receipts[target[p]] # "none"

Removers == \A p \in running : Remover(p)

RemovalInv == TruthInv /\ GitFollowsRecord /\ Removers

Queue == INSTANCE DeliveryQueue
    WITH entry <- record.entry, done <- record.done,
         left <- {r \in Registered(record) : git[r] # "absent"}

\* Whatever the order of the calls, the entries are delivered one by one, phase by
\* phase, and none is left before everything it owned is gone.
ImplementsQueue == Queue!Spec

\* Once everything registered is delivered, the cleanup's retries come to an end if
\* they come one at a time, unless more is registered or no process is left.
CleanupFinishes ==
    ("oneCleaner" \in discipline /\ Registered(record) # {}
     /\ \A r \in Registered(record) : record.resources[r] = "delivered") ~>
        \/ EntryClean(record) \/ running = {}
        \/ \E r \in Resource : record.resources[r] = "pending"
=============================================================================
