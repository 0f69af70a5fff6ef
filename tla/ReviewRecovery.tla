------------------------------ MODULE ReviewRecovery ------------------------------
(***************************************************************************)
(* The independent review of one package and its authorized fallback.  A   *)
(* strict review is tried first; only a durable record that it was         *)
(* unavailable opens the degraded one, which a launcher host, a process of *)
(* its own, carries out in a detached worktree.  The transport to the host *)
(* may give up while the host goes on, and may deliver the answer of an    *)
(* earlier launch.  Meanwhile authorizations expire and the package is     *)
(* corrected, and the host may be killed.                                  *)
(***************************************************************************)
EXTENDS Naturals, FiniteSets

CONSTANTS LaunchId,     \* the launches of the host, each with a request of its own
          MaxPackage    \* how often the package is corrected

VARIABLES
    package,    \* the current package; package 0 is the one that was authorized
    recorded,   \* the package that the launcher's and the worktree's records name
    covered,    \* the packages that an authorized correction chain reaches
    expired,    \* the authorization records that have expired
    durable,    \* the durable record of an unavailable strict review
    parent,     \* where the caller's review is
    request,    \* the package and failure that each launch was prepared for
    host,       \* where each host is
    tree,       \* what each host's detached worktree consists of
    outcome,    \* whether the host's reviewer gave a valid result
    response,   \* the hosts whose complete response exists
    returned    \* the degraded reviews that were returned

authVars == <<package, recorded, covered, expired, durable>>
callVars == <<parent, request, returned>>
hostVars == <<host, tree, outcome, response>>
vars == <<authVars, callVars, hostVars>>

\* degradedIndependentReview, reviewLauncher, reviewWorktreeLifecycle.
Record == {"degraded", "launcher", "worktree"}

\* A failure that the launcher can help with, and one that it cannot.
Failure == {"recoverable", "other"}

Package == 0..MaxPackage
NoRecord == [package |-> 0, failure |-> "none"]
Durable == [package : Package, failure : Failure] \cup {NoRecord}

\* The worktree in Git's metadata, its directory, the temporary root around
\* them and the ownership marker in that root.
Part == {"metadata", "directory", "root", "marker"}

Idle == [at |-> "idle", launch |-> "none"]
Via(at, l) == [at |-> at, launch |-> l]

TypeOK ==
    /\ package \in Package /\ recorded \in Package /\ covered \subseteq Package
    /\ expired \subseteq Record /\ durable \in Durable
    /\ parent \in {Idle} \cup [at : {"waiting"}, launch : LaunchId]
                  \cup [at : {"direct"}, launch : {"none"}]
    /\ request \in [LaunchId -> Durable]
    /\ host \in [LaunchId -> {"idle", "prepared", "rooted", "added", "viewed", "reviewing", "checking",
                            "removing", "undoing", "unrooting", "answered", "failed", "leaking", "dead"}]
    /\ tree \in [LaunchId -> SUBSET Part]
    /\ outcome \in [LaunchId -> {"none", "review"}]
    /\ response \subseteq LaunchId
    /\ returned \subseteq [by : LaunchId \cup {"direct"}, package : Package]

Init ==
    /\ package = 0 /\ recorded \in Package
    /\ covered = {0} /\ expired = {} /\ durable = NoRecord
    /\ parent = Idle /\ request = [l \in LaunchId |-> NoRecord]
    /\ host = [l \in LaunchId |-> "idle"] /\ tree = [l \in LaunchId |-> {}]
    /\ outcome = [l \in LaunchId |-> "none"]
    /\ response = {} /\ returned = {}

(***************************************************************************)
(* The surroundings.                                                       *)
(***************************************************************************)
Expire(r) ==
    /\ r \notin expired /\ expired' = expired \cup {r}
    /\ UNCHANGED <<package, recorded, covered, durable, callVars, hostVars>>

\* An objective correction makes a new package, with an authorized record in
\* the correction chain or without.
Correct ==
    /\ parent = Idle /\ package < MaxPackage
    /\ package' = package + 1
    /\ covered' \in {covered, covered \cup {package + 1}}
    /\ UNCHANGED <<recorded, expired, durable, callVars, hostVars>>

(***************************************************************************)
(* The caller: executeAuthorizedIndependentReview.                         *)
(***************************************************************************)

\* A durable record counts only for the package it was made for.
StrictUnavailable == durable # NoRecord /\ durable.package = package

\* The strict review is unavailable: the call ends, and the assistant makes
\* the record of it durable before it calls again.
StrictFails(failure) ==
    /\ parent = Idle /\ ~StrictUnavailable
    /\ durable' = [package |-> package, failure |-> failure]
    /\ UNCHANGED <<package, recorded, covered, expired, callVars, hostVars>>

\* validateDegradedIndependentReviewAuthorization: the exact package or a
\* chain of corrections from it, by a record that has not expired.
DegradedAuthorized(p) ==
    /\ "degraded" \notin expired
    /\ \A q \in 0..p : q \in covered

\* validateReviewLauncherRecovery: a correction chain does not extend the
\* records of the launcher and the worktree.
RecoveryValid(p) == DegradedAuthorized(p) /\ p = recorded /\ expired = {}

\* prepareReviewLauncherRecovery, and the host is invoked.
Recover(l) ==
    /\ parent = Idle /\ StrictUnavailable /\ durable.failure = "recoverable"
    /\ RecoveryValid(package) /\ request[l] = NoRecord
    /\ request' = [request EXCEPT ![l] = durable]
    /\ parent' = Via("waiting", l)
    /\ UNCHANGED <<authVars, returned, hostVars>>

\* Denied, timed out or failed: the review ends without a fallback, whatever
\* the host does.
TransportGivesUp ==
    /\ parent.at = "waiting" /\ parent' = Idle
    /\ UNCHANGED <<authVars, request, returned, hostVars>>

\* Mutant of TransportReturns: the response that arrives is taken for the one that was asked for.
TransportReturnsAny(l) ==
    /\ parent.at = "waiting" /\ l \in response
    /\ returned' = IF RecoveryValid(request[parent.launch].package)
                   THEN returned \cup {[by |-> l, package |-> request[parent.launch].package]}
                   ELSE returned
    /\ parent' = Idle
    /\ UNCHANGED <<authVars, request, hostVars>>

\* acceptReviewLauncherHostResponse: the records are validated again, by the
\* clock of now, and the response must be that of the caller's own launch.
TransportReturns(l) ==
    /\ parent.at = "waiting" /\ l \in response
    /\ LET own == parent.launch
       IN  returned' = IF RecoveryValid(request[own].package) /\ l = own
                       THEN returned \cup {[by |-> l, package |-> request[own].package]}
                       ELSE returned
    /\ parent' = Idle
    /\ UNCHANGED <<authVars, request, hostVars>>

\* Other failures go to the degraded adapter in this process.
InvokeDirect ==
    /\ parent = Idle /\ StrictUnavailable /\ durable.failure = "other"
    /\ DegradedAuthorized(package)
    /\ parent' = Via("direct", "none")
    /\ UNCHANGED <<authVars, request, returned, hostVars>>

\* Its authorization is validated again after it; its result may be bad.
DirectReturns ==
    /\ parent.at = "direct" /\ parent' = Idle
    /\ returned' \in {returned} \cup
          (IF DegradedAuthorized(package)
           THEN {returned \cup {[by |-> "direct", package |-> package]}} ELSE {})
    /\ UNCHANGED <<authVars, request, hostVars>>

(***************************************************************************)
(* The host: executeReviewLauncherHost.                                    *)
(***************************************************************************)
HostGoes(l, to, parts) ==
    /\ host' = [host EXCEPT ![l] = to] /\ tree' = [tree EXCEPT ![l] = parts]
    /\ UNCHANGED <<authVars, callVars>>

\* The host validates the request at its start and takes the time once.
Prepare(l) ==
    /\ host[l] = "idle" /\ request[l] # NoRecord
    /\ HostGoes(l, IF RecoveryValid(request[l].package) THEN "prepared" ELSE "failed", tree[l])
    /\ UNCHANGED <<outcome, response>>

MakeRoot(l) ==
    /\ host[l] = "prepared"
    /\ \/ HostGoes(l, "rooted", {"root"}) \/ HostGoes(l, "failed", {})
    /\ UNCHANGED <<outcome, response>>

\* git worktree add; when it fails it may leave nothing, or everything.
AddWorktree(l) ==
    /\ host[l] = "rooted"
    /\ LET added == {"root", "metadata", "directory"}
       IN  HostGoes(l, "added", added) \/ HostGoes(l, "undoing", added) \/ HostGoes(l, "undoing", {"root"})
    /\ UNCHANGED <<outcome, response>>

\* The head is verified and the marker written.
VerifyView(l) ==
    /\ host[l] = "added"
    /\ \/ HostGoes(l, "viewed", tree[l] \cup {"marker"}) \/ HostGoes(l, "undoing", tree[l])
    /\ UNCHANGED <<outcome, response>>

\* The package is derived again from the view and must be the requested one.
Rederive(l) ==
    /\ host[l] = "viewed"
    /\ HostGoes(l, "reviewing", tree[l]) \/ HostGoes(l, "removing", tree[l])
    /\ UNCHANGED <<outcome, response>>

\* The reviewer ends with a result or is unavailable.
RunReviewer(l) ==
    /\ host[l] = "reviewing"
    /\ HostGoes(l, "checking", tree[l]) \/ HostGoes(l, "removing", tree[l])
    /\ UNCHANGED <<outcome, response>>

\* A result must be valid for the package, the failure and the authorization.
CheckResult(l) ==
    /\ host[l] = "checking"
    /\ outcome' \in {outcome, [outcome EXCEPT ![l] = "review"]}
    /\ HostGoes(l, "removing", tree[l])
    /\ UNCHANGED response

\* removeDetachedReviewView: ownership is verified, Git removes the worktree,
\* then the root goes.  A failure loses the output.
RemoveWorktree(l) ==
    /\ host[l] = "removing"
    /\ \/ HostGoes(l, "unrooting", tree[l] \ {"metadata", "directory"})
       \/ HostGoes(l, "leaking", tree[l])
    /\ UNCHANGED <<outcome, response>>

\* Mutant of UndoWorktree: the root goes although Git did not remove the worktree in it.
UndoWorktreeAnyway(l) ==
    /\ host[l] = "undoing"
    /\ \/ HostGoes(l, "unrooting", tree[l] \ {"metadata", "directory"})
       \/ /\ "directory" \in tree[l] /\ HostGoes(l, "unrooting", tree[l])
    /\ UNCHANGED <<outcome, response>>

\* cleanupOwnedPath, when the view was not completed: a failure of Git leaves
\* the root alone.
UndoWorktree(l) ==
    /\ host[l] = "undoing"
    /\ \/ HostGoes(l, "unrooting", tree[l] \ {"metadata", "directory"})
       \/ /\ "directory" \in tree[l] /\ HostGoes(l, "leaking", tree[l])
    /\ UNCHANGED <<outcome, response>>

RemoveRoot(l) ==
    /\ host[l] = "unrooting"
    /\ \/ /\ HostGoes(l, IF outcome[l] = "review" THEN "answered" ELSE "failed",
                   tree[l] \ {"root", "directory", "marker"})
          /\ response' = IF outcome[l] = "review" THEN response \cup {l} ELSE response
       \/ HostGoes(l, "leaking", tree[l]) /\ UNCHANGED response
    /\ UNCHANGED outcome

Finished == {"answered", "failed", "leaking", "dead"}

Kill(l) ==
    /\ host[l] \notin Finished \cup {"idle"}
    /\ HostGoes(l, "dead", tree[l]) /\ UNCHANGED <<outcome, response>>

HostStep(l) ==
    \/ Prepare(l) \/ MakeRoot(l) \/ AddWorktree(l) \/ VerifyView(l)
    \/ Rederive(l) \/ RunReviewer(l) \/ CheckResult(l)
    \/ RemoveWorktree(l) \/ UndoWorktree(l) \/ RemoveRoot(l)

Next ==
    \/ \E r \in Record : Expire(r)
    \/ Correct \/ \E f \in Failure : StrictFails(f)
    \/ TransportGivesUp \/ InvokeDirect \/ DirectReturns
    \/ \E l \in LaunchId : Recover(l) \/ TransportReturns(l) \/ HostStep(l) \/ Kill(l)

Spec == Init /\ [][Next]_vars

-----------------------------------------------------------------------------
(***************************************************************************)
(* Properties.                                                             *)
(***************************************************************************)

\* When a degraded review is returned, it is one of the package under review,
\* whose strict review is durably unavailable and which the authorization
\* covers without a gap; nothing of the host's worktree is left; and one
\* launch answers one call (execute-independent-review.mjs,
\* executeAuthorizedIndependentReview; review-launcher-recovery.mjs,
\* acceptReviewLauncherHostResponse).
DegradedReviewSound ==
    [][\A r \in returned' \ returned :
          /\ r.package = package /\ StrictUnavailable
          /\ \A q \in 0..r.package : q \in covered
          /\ "degraded" \notin expired
          /\ r.by \in LaunchId => /\ parent = Via("waiting", r.by) /\ expired = {}
                                /\ tree[r.by] = {} /\ outcome[r.by] = "review"]_vars

\* The temporary root is the only local evidence of a worktree that Git still
\* has registered: it outlives the registration, whatever fails and whenever
\* the host dies (detached-review-view.mjs, cleanupOwnedPath and
\* removeDetachedReviewView).
RootOutlivesRegistration ==
    \A l \in LaunchId : "metadata" \in tree[l] => {"root", "directory"} \subseteq tree[l]

=============================================================================
