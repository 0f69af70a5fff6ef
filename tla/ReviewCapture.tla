------------------------------ MODULE ReviewCapture ------------------------------
(***************************************************************************)
(* One Codex review on the parent transport: the parent pins the installed *)
(* files, creates a review view with a sealed capture request in it and    *)
(* hands out the command; capture processes started from that command run  *)
(* the reviewer and publish a result and a receipt in the view; the parent *)
(* reads them, judges them and removes the view.  The installed files may  *)
(* be replaced, the request expires, the command may be run more than once *)
(* and every process may be killed.                                        *)
(***************************************************************************)
EXTENDS Naturals, Sequences, FiniteSets

CONSTANTS Capture,      \* the processes started from the sealed command
          MaxVersion,   \* how many replacements of installed files there are
          Nobody,       \* the author of a file that is not there
          Unpinned      \* the version of a file that is not pinned yet

ASSUME CaptureAssumption == Nobody \notin Capture
ASSUME VersionAssumption == MaxVersion \in Nat /\ Unpinned \notin Nat

VARIABLES
    parent,     \* where the parent is in preparing and consuming the request
    installed,  \* the version of each installed file on the host
    pinned,     \* the versions sealed into the request
    expired,    \* whether the request's expiry has passed
    view,       \* the review view, a temporary directory
    result,     \* the capture whose result file is in the view
    receipt,    \* the receipt in the view: its author and what it says
    pc,         \* where each capture process is
    attempts,   \* how each attempt of a capture to run the reviewer ended
    ran,        \* the file versions that a capture executed
    seen,       \* the receipt that the parent read, and whether the tool exited with 0
    candidate,  \* the author of the result that the parent is about to accept
    accepted    \* the captures whose result was returned as a review

parentVars  == <<parent, pinned, seen, candidate, accepted>>
captureVars == <<pc, attempts, ran>>
fileVars    == <<view, result, receipt>>
hostVars    == <<installed, expired>>
vars == <<parentVars, captureVars, fileVars, hostVars>>

\* The reviewer's executable, and the files of the capture itself: Node, the
\* capture adapter and the event contract.
File == {"codex", "host"}
Version == 0..MaxVersion

Receipt   == [by : Capture \cup {Nobody}, says : {"nothing", "published", "absent"}]
NoReceipt == [by |-> Nobody, says |-> "nothing"]

Finished == {"succeeded", "failed", "killed"}
Outcome  == {"complete", "retryable", "broken"}

TypeOK ==
    /\ parent \in {"idle", "pinned", "viewed", "ready", "reading", "inspecting",
                   "cleaning", "answered", "dead"}
    /\ installed \in [File -> Version] /\ pinned \in [File -> Version \cup {Unpinned}]
    /\ expired \in BOOLEAN
    /\ view \in {"none", "present", "broken", "removed"}
    /\ result \in Capture \cup {Nobody} /\ receipt \in Receipt
    /\ pc \in [Capture -> {"idle", "started", "checked", "child", "publishing",
                           "receipting", "failing"} \cup Finished]
    /\ \A c \in Capture : attempts[c] \in {<<>>} \cup {<<o>> : o \in Outcome}
                                          \cup {<<o, p>> : o, p \in Outcome}
    /\ ran \in [Capture -> SUBSET (File \X Version)]
    /\ seen \in [receipt : Receipt, exitZero : BOOLEAN]
    /\ candidate \in Capture \cup {Nobody} /\ accepted \subseteq Capture

NothingSeen == [receipt |-> NoReceipt, exitZero |-> FALSE]

Init ==
    /\ parent = "idle"
    /\ installed = [f \in File |-> 0] /\ pinned = [f \in File |-> Unpinned]
    /\ expired = FALSE
    /\ view = "none" /\ result = Nobody /\ receipt = NoReceipt
    /\ pc = [c \in Capture |-> "idle"] /\ attempts = [c \in Capture |-> <<>>]
    /\ ran = [c \in Capture |-> {}]
    /\ seen = NothingSeen /\ candidate = Nobody /\ accepted = {}

(***************************************************************************)
(* The host: installed files are replaced, and time passes.  A replaced    *)
(* file has a new inode, time and content; it does not become the old one  *)
(* again.                                                                  *)
(***************************************************************************)
Replace(f) ==
    /\ installed["codex"] + installed["host"] < MaxVersion
    /\ installed' = [installed EXCEPT ![f] = @ + 1]
    /\ UNCHANGED <<parentVars, captureVars, fileVars, expired>>

Expire ==
    /\ parent \notin {"idle", "pinned", "viewed"} /\ ~expired
    /\ expired' = TRUE
    /\ UNCHANGED <<parentVars, captureVars, fileVars, installed>>

(***************************************************************************)
(* The view.  Its removal verifies the ownership marker first and then     *)
(* deletes the directory; when that fails half way, any part of it may be  *)
(* gone.                                                                   *)
(***************************************************************************)
RemoveView ==
    /\ view \in {"present", "broken"}
    /\ view' = "removed" /\ result' = Nobody /\ receipt' = NoReceipt

RemovalFails ==
    /\ view' = IF view = "present" THEN "broken" ELSE view
    /\ result' \in {result, Nobody} /\ receipt' \in {receipt, NoReceipt}

(***************************************************************************)
(* Preparing the request.                                                  *)
(***************************************************************************)

PinExecutable ==
    /\ parent = "idle"
    /\ pinned' = [pinned EXCEPT !["codex"] = installed["codex"]]
    /\ parent' = "pinned"
    /\ UNCHANGED <<seen, candidate, accepted, captureVars, fileVars, hostVars>>

CreateView ==
    /\ parent \in {"idle", "pinned"}
    /\ view' = "present" /\ parent' = "viewed"
    /\ UNCHANGED <<pinned, seen, candidate, accepted, result, receipt, captureVars, hostVars>>

\* resolveManagedHostFileIdentity: what is not pinned is pinned.
PinHostFiles == pinned' = [f \in File |-> IF pinned[f] = Unpinned THEN installed[f] ELSE pinned[f]]
WriteRequest == parent = "viewed" /\ parent' = "ready"

\* The request, bound to the pinned files, is written into the view.
SealRequest ==
    /\ PinHostFiles /\ WriteRequest
    /\ UNCHANGED <<seen, candidate, accepted, captureVars, fileVars, hostVars>>

\* The package, the environment, the schema, a pin or the write fails.
PreparationFails ==
    /\ parent = "viewed" /\ parent' = "answered"
    /\ RemoveView \/ RemovalFails
    /\ UNCHANGED <<pinned, seen, candidate, accepted, captureVars, hostVars>>

\* The strict transport pins the executable before it makes a view, the
\* degraded one after.
StrictRequest == PinExecutable \/ (parent = "pinned" /\ CreateView) \/ SealRequest \/ PreparationFails
DegradedRequest == (parent = "idle" /\ CreateView) \/ SealRequest \/ PreparationFails

(***************************************************************************)
(* A capture process.                                                      *)
(***************************************************************************)
\* readAuthenticatedCaptureRequest does not find the request in a removed view.
Authenticated == view # "removed"
SealedIdentitiesCurrent == installed = pinned
DestinationsAbsent == result = Nobody /\ receipt = NoReceipt

\* A file is published by linking it, which fails when the name is taken.
Free(author) == view # "removed" /\ author = Nobody

Go(c, label) == pc' = [pc EXCEPT ![c] = label]

\* captureReceipt: what capture c says of itself.
Vouch(c, state) == [by |-> c, says |-> state]

\* The assistant runs the command: the process loads the capture adapter and
\* authenticates the request.
Launch(c) ==
    /\ pc[c] = "idle" /\ parent \in {"ready", "reading", "inspecting", "cleaning", "answered"}
    /\ view \notin {"none"}
    /\ ran' = [ran EXCEPT ![c] = {<<"host", installed["host"]>>}]
    /\ Go(c, IF Authenticated THEN "started" ELSE "failed")
    /\ UNCHANGED <<parentVars, attempts, fileVars, hostVars>>

\* The guards before the first attempt.
Check(c) ==
    /\ pc[c] = "started"
    /\ Go(c, IF ~expired /\ SealedIdentitiesCurrent /\ DestinationsAbsent THEN "checked" ELSE "failing")
    /\ UNCHANGED <<parentVars, attempts, ran, fileVars, hostVars>>

NoteAttempt(c, outcome) == attempts' = [attempts EXCEPT ![c] = Append(@, outcome)]

Spawn(c) ==
    /\ pc[c] = "checked"
    /\ IF expired
       THEN /\ NoteAttempt(c, "broken")
            /\ Go(c, "failing") /\ UNCHANGED ran
       ELSE /\ ran' = [ran EXCEPT ![c] = @ \cup {<<"codex", installed["codex"]>>}]
            /\ Go(c, "child") /\ UNCHANGED attempts
    /\ UNCHANGED <<parentVars, fileVars, hostVars>>

\* A first attempt that exited with 0 and lacks its last events is repeated once.
Repeats(c, outcome) ==
    /\ outcome = "retryable" /\ attempts[c] = <<>>
    /\ ~expired /\ SealedIdentitiesCurrent /\ DestinationsAbsent

\* The reviewer ends, on its own or because the capture ended it.
ChildEnds(c, outcome) ==
    /\ pc[c] = "child" /\ NoteAttempt(c, outcome)
    /\ Go(c, IF outcome = "complete" THEN "publishing"
             ELSE IF Repeats(c, outcome) THEN "checked" ELSE "failing")
    /\ UNCHANGED <<parentVars, ran, fileVars, hostVars>>

\* Mutant of PublishResult: a result is moved into place, over the one that is there.
PublishResultOver(c) ==
    /\ pc[c] = "publishing" /\ view # "removed"
    /\ result' = c /\ Go(c, "receipting")
    /\ UNCHANGED <<parentVars, attempts, ran, view, receipt, hostVars>>

\* The result first, the receipt that vouches for it second.
PublishResult(c) ==
    /\ pc[c] = "publishing" /\ Free(result)
    /\ result' = c /\ Go(c, "receipting")
    /\ UNCHANGED <<parentVars, attempts, ran, view, receipt, hostVars>>

\* The name is taken or the file system fails; a file that was linked and
\* then did not pass its inspection may stay.
ResultFails(c) ==
    /\ pc[c] = "publishing"
    /\ result' \in {result} \cup (IF Free(result) THEN {c} ELSE {})
    /\ Go(c, "failing")
    /\ UNCHANGED <<parentVars, attempts, ran, view, receipt, hostVars>>

PublishReceipt(c) ==
    /\ pc[c] = "receipting" /\ Free(receipt.by)
    /\ receipt' = Vouch(c, "published") /\ Go(c, "succeeded")
    /\ UNCHANGED <<parentVars, attempts, ran, view, result, hostVars>>

\* Without its receipt the capture takes its own result back, if it can.
ReceiptFails(c) ==
    /\ pc[c] = "receipting"
    /\ receipt' \in {receipt} \cup (IF Free(receipt.by) THEN {Vouch(c, "published")} ELSE {})
    /\ result' \in IF result = c THEN {Nobody, c} ELSE {result}
    /\ Go(c, "failing")
    /\ UNCHANGED <<parentVars, attempts, ran, view, hostVars>>

\* Every failure is receipted too, unless the place is taken.
PublishFailure(c) ==
    /\ pc[c] = "failing"
    /\ receipt' \in {receipt} \cup (IF Free(receipt.by) THEN {Vouch(c, "absent")} ELSE {})
    /\ Go(c, "failed")
    /\ UNCHANGED <<parentVars, attempts, ran, view, result, hostVars>>

\* The tool's deadline or the user ends the process.
Kill(c) ==
    /\ pc[c] \notin {"idle"} \cup Finished
    /\ Go(c, "killed")
    /\ UNCHANGED <<parentVars, attempts, ran, fileVars, hostVars>>

(***************************************************************************)
(* Consuming the tool's result.  The assistant may call it again.          *)
(***************************************************************************)

\* The receipt is read before anything is verified.  The tool reported the
\* exit of one run of the command, or that it gave up waiting.
ReadReceipt(c) ==
    /\ parent \in {"ready", "answered"} /\ pc[c] # "idle"
    /\ seen' = [receipt |-> receipt, exitZero |-> pc[c] = "succeeded"]
    /\ parent' = "reading"
    /\ UNCHANGED <<pinned, candidate, accepted, captureVars, fileVars, hostVars>>

\* The caller's own comparison of the pinned files with the installed ones.
PinnedFilesUnchanged == installed = pinned

\* Mutant of Judge: the pinned files were verified when the capture began.
JudgeOnce ==
    /\ parent = "reading"
    /\ parent' = IF ~expired /\ seen.exitZero /\ seen.receipt.says = "published"
                 THEN "inspecting" ELSE "cleaning"
    /\ UNCHANGED <<pinned, seen, candidate, accepted, captureVars, fileVars, hostVars>>

\* Mutant of Judge: what cannot be accepted is answered at once.
JudgeAtOnce ==
    /\ parent = "reading"
    /\ parent' = IF ~expired /\ PinnedFilesUnchanged /\ seen.exitZero /\ seen.receipt.says = "published"
                 THEN "inspecting" ELSE "answered"
    /\ UNCHANGED <<pinned, seen, candidate, accepted, captureVars, fileVars, hostVars>>

Judge ==
    /\ parent = "reading"
    /\ parent' = IF ~expired /\ PinnedFilesUnchanged /\ seen.exitZero /\ seen.receipt.says = "published"
                 THEN "inspecting" ELSE "cleaning"
    /\ UNCHANGED <<pinned, seen, candidate, accepted, captureVars, fileVars, hostVars>>

\* A result is sealed for the package, or it is malformed or names a file that
\* the view lacks.
Sealed(author) == {author, Nobody}

\* The result must be the one whose digest the receipt names.
Inspect ==
    /\ parent = "inspecting" /\ parent' = "cleaning"
    /\ candidate' \in IF result = seen.receipt.by THEN Sealed(result) ELSE {Nobody}
    /\ UNCHANGED <<pinned, seen, accepted, captureVars, fileVars, hostVars>>

\* Whatever the judgement, the view goes; only then is a result returned.
Cleanup ==
    /\ parent = "cleaning" /\ parent' = "answered"
    /\ \/ RemoveView /\ accepted' = accepted \cup ({candidate} \ {Nobody})
       \/ RemovalFails /\ UNCHANGED accepted
    /\ candidate' = Nobody /\ seen' = NothingSeen
    /\ UNCHANGED <<pinned, captureVars, hostVars>>

Die ==
    /\ parent \notin {"idle", "dead"} /\ parent' = "dead"
    /\ UNCHANGED <<pinned, seen, candidate, accepted, captureVars, fileVars, hostVars>>

Work(c) ==
    \/ Check(c) \/ Spawn(c) \/ \E o \in Outcome : ChildEnds(c, o)
    \/ PublishResult(c) \/ ResultFails(c) \/ PublishReceipt(c) \/ ReceiptFails(c)
    \/ PublishFailure(c)

Consume == (\E c \in Capture : ReadReceipt(c)) \/ Judge \/ Inspect \/ Cleanup

Next ==
    \/ StrictRequest \/ DegradedRequest
    \/ \E c \in Capture : Launch(c) \/ Work(c) \/ Kill(c)
    \/ Consume \/ Die
    \/ Expire \/ \E f \in File : Replace(f)

\* The assistant runs the command, and a consumption that began goes on.  It
\* takes what it finds: no capture has to come to its end.
Fairness ==
    /\ WF_vars(\E c \in Capture : Launch(c))
    /\ WF_vars(parent # "answered" /\ Consume)

Spec == Init /\ [][Next]_vars /\ Fairness

-----------------------------------------------------------------------------
(***************************************************************************)
(* Properties.                                                             *)
(***************************************************************************)

\* A review that is returned comes from one capture that ran nothing but the
\* pinned files, whose last attempt was complete and which tried again only
\* after an attempt that merely lacked its last events; the view it read is
\* gone, and nothing is returned twice (platform-review-adapters.mjs,
\* consumeCodexParentStrictReviewToolResult and
\* consumeCodexParentReviewHostToolResult).
AcceptedReviewSound ==
    \A c \in accepted :
        /\ attempts[c] \in {<<"complete">>, <<"retryable", "complete">>}
        /\ \A x \in ran[c] : x[2] = pinned[x[1]]
        /\ view = "removed" /\ accepted = {c}

\* A capture that exits with 0 has left a result and the receipt that vouches
\* for it, and no other capture of the same command replaces or removes
\* either before the view goes (publishExclusiveReviewArtifact,
\* publishCodexCaptureSuccess).
EvidenceInPlace ==
    view = "present" =>
        \A c \in Capture : pc[c] = "succeeded" =>
            result = c /\ receipt = [by |-> c, says |-> "published"]

\* A review that was prepared ends with its view removed, or with a removal
\* that failed and was reported, unless the parent dies first.
ViewReleased == parent = "ready" ~> (view # "present" \/ parent = "dead")

=============================================================================
