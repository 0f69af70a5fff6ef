-------------------------- MODULE BootstrapAttachment --------------------------
(***************************************************************************)
(* The cleanup attachment of a bootstrap run: the worktree and the branch  *)
(* that its signed binding migrates are attached one after the other and   *)
(* removed, the one it retains is recorded, and the run may then be        *)
(* closed.  The file is read, changed and renamed into place by callers    *)
(* that neither lock it nor compare it: of two at once, the later write    *)
(* undoes the earlier.  Of a resource's receipts only the last one counts. *)
(***************************************************************************)
EXTENDS FiniteSets

CONSTANT Caller

VARIABLES
    attachment, \* the durable file, or NoFile
    git,        \* what there is of each resource
    pc, copy,   \* of each caller: where it is, and its copy of the file
    todo,       \* the resources its cleanup has not come to
    closed      \* whether the run is closed

vars == <<attachment, git, pc, copy, todo, closed>>
callerVars == <<pc, copy, todo>>

Migrated == {"worktree", "branch"}
Retained == {"kept"}
\* Mutant of Terminal: a removal that began is taken to have been done.
TerminalOnceStarted == {"started", "completed", "already-completed"}
Terminal == {"completed", "already-completed"}
Receipt == {"none", "started", "blocked"} \cup Terminal
Empty == [resources |-> {}, receipts |-> [r \in Migrated |-> "none"], retained |-> {}]
NoFile == [resources |-> {}]
Attachment == [resources : SUBSET Migrated, receipts : [Migrated -> Receipt], retained : SUBSET Retained]

TypeOK ==
    /\ attachment \in Attachment \cup {NoFile} /\ closed \in BOOLEAN
    /\ git \in [Migrated \cup Retained -> {"clean", "changed", "absent"}]
    /\ pc \in [Caller -> {"idle", "attach", "retain", "plan", "inspect", "start", "finish"}]
    /\ copy \in [Caller -> Attachment] /\ todo \in [Caller -> SUBSET Migrated]

Init ==
    /\ attachment = NoFile /\ git = [r \in Migrated \cup Retained |-> "clean"]
    /\ pc = [c \in Caller |-> "idle"] /\ copy = [c \in Caller |-> Empty]
    /\ todo = [c \in Caller |-> {}] /\ closed = FALSE

At(c, point) == pc[c] = point
Goto(c, point) == pc' = [pc EXCEPT ![c] = point]
\* writeAttachment: the caller's copy, changed, replaces the file.
Write(c, new) == copy' = [copy EXCEPT ![c] = new] /\ attachment' = new
WriteReceipt(c, r, status) == Write(c, [copy[c] EXCEPT !.receipts[r] = status])

Change(r) ==
    /\ git[r] # "absent" /\ git' = [git EXCEPT ![r] = IF @ = "clean" THEN "changed" ELSE "clean"]
    /\ UNCHANGED <<attachment, callerVars, closed>>

\* A call reads the file, or starts one if it may; a closed run has none.
Read(c, call) ==
    /\ At(c, "idle") /\ ~closed /\ (call = "plan" => attachment # NoFile) /\ Goto(c, call)
    /\ copy' = [copy EXCEPT ![c] = IF attachment = NoFile THEN Empty ELSE attachment]
    /\ UNCHANGED <<attachment, git, todo, closed>>

\* attachBootstrapCleanupMigration: the branch after its worktree's removal.
Attach(c, r) ==
    /\ At(c, "attach") /\ Goto(c, "idle")
    /\ IF /\ r \notin copy[c].resources
          /\ r = "branch" => copy[c].receipts["worktree"] \in Terminal
       THEN Write(c, [copy[c] EXCEPT !.resources = @ \cup {r}])
       ELSE UNCHANGED <<copy, attachment>>
    /\ UNCHANGED <<git, todo, closed>>

\* retainBootstrapCleanupResource.
Retain(c, r) ==
    /\ At(c, "retain") /\ Goto(c, "idle")
    /\ IF r \notin copy[c].retained THEN Write(c, [copy[c] EXCEPT !.retained = @ \cup {r}])
                                    ELSE UNCHANGED <<copy, attachment>>
    /\ UNCHANGED <<git, todo, closed>>

Removable(r) == git[r] = "clean" /\ (r = "branch" => git["worktree"] = "absent")

\* executeBootstrapCleanupAttachment: one ineligible resource stops the
\* cleanup, with a receipt.
Plan(c) ==
    LET ineligible == {r \in copy[c].resources : git[r] # "absent" /\ ~Removable(r)}
    IN  /\ At(c, "plan")
        /\ IF ineligible = {}
           THEN Goto(c, "inspect") /\ todo' = [todo EXCEPT ![c] = copy[c].resources] /\ UNCHANGED <<copy, attachment>>
           ELSE /\ Goto(c, "idle") /\ UNCHANGED todo
                /\ Write(c, [copy[c] EXCEPT !.receipts =
                                 [r \in Migrated |-> IF r \in ineligible THEN "blocked" ELSE @[r]]])
        /\ UNCHANGED <<git, closed>>

\* executeWorkspaceCleanup: worktrees before branches, each inspected again.
Upcoming(c) == IF "worktree" \in todo[c] THEN "worktree" ELSE "branch"
Inspect(c) ==
    LET r == Upcoming(c)
    IN  /\ At(c, "inspect")
        /\ IF todo[c] = {} THEN Goto(c, "idle") /\ UNCHANGED <<copy, attachment, todo>>
           ELSE IF Removable(r)
           THEN WriteReceipt(c, r, "started") /\ Goto(c, "start") /\ UNCHANGED todo
           ELSE /\ WriteReceipt(c, r, IF git[r] = "absent" THEN "already-completed" ELSE "blocked")
                /\ todo' = [todo EXCEPT ![c] = @ \ {r}] /\ UNCHANGED pc
        /\ UNCHANGED <<git, closed>>

\* git removes what is there, clean and not checked out; the outcome of
\* anything else is blocked.
Remove(c) ==
    LET r == Upcoming(c)
    IN  /\ At(c, "start") /\ Goto(c, "finish")
        /\ \/ /\ Removable(r) /\ git' = [git EXCEPT ![r] = "absent"]
              /\ copy' = [copy EXCEPT ![c].receipts[r] = "completed"]
           \/ /\ UNCHANGED git /\ copy' = [copy EXCEPT ![c].receipts[r] = "blocked"]
        /\ UNCHANGED <<attachment, todo, closed>>
Finish(c) ==
    /\ At(c, "finish") /\ Goto(c, "inspect") /\ attachment' = copy[c]
    /\ todo' = [todo EXCEPT ![c] = @ \ {Upcoming(c)}]
    /\ UNCHANGED <<git, copy, closed>>

Kill(c) ==
    /\ ~At(c, "idle") /\ Goto(c, "idle") /\ todo' = [todo EXCEPT ![c] = {}]
    /\ UNCHANGED <<attachment, git, copy, closed>>

\* bootstrapAttachmentTerminal, in terminalizeV2Run.
Close ==
    /\ ~closed /\ attachment # NoFile /\ attachment.resources = Migrated /\ attachment.retained = Retained
    /\ \A r \in Migrated : attachment.receipts[r] \in Terminal
    /\ closed' = TRUE /\ UNCHANGED <<attachment, git, callerVars>>

Next ==
    \/ \E r \in Migrated \cup Retained : Change(r)
    \/ \E c \in Caller :
          \/ \E call \in {"attach", "retain", "plan"} : Read(c, call)
          \/ \E r \in Migrated : Attach(c, r)
          \/ \E r \in Retained : Retain(c, r)
          \/ Plan(c) \/ Inspect(c) \/ Remove(c) \/ Finish(c) \/ Kill(c)
    \/ Close

Spec == Init /\ [][Next]_vars

\* A bootstrap run is closed only when everything that its binding migrates is
\* gone, whichever writes of the attachment undid which
\* (bootstrapAttachmentTerminal, executeBootstrapCleanupAttachment).
ClosedWhenClean ==
    [][~closed /\ closed' => \A r \in Migrated : git[r] = "absent"]_vars

===============================================================================
