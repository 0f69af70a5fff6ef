--------------------------- MODULE BranchRetirement ---------------------------
(***************************************************************************)
(* The generic cleanup of delivered branches, their worktrees and their    *)
(* remote counterparts.  A plan is made from one audit and confirmed; each *)
(* of its steps is verified against a fresh audit, which rebuilds its git  *)
(* command, and an assistant then runs that command.  Meanwhile people     *)
(* commit, push, merge, open worktrees and claim branches.                 *)
(*                                                                         *)
(* The commits of a branch are numbered in order; 0 is the point where it  *)
(* left the default branch.  Nobody rewrites them.                         *)
(***************************************************************************)
EXTENDS Naturals, FiniteSets

CONSTANTS Branch,
          MaxCommit     \* bound on the commits of a branch

VARIABLES
    head,       \* of each local branch
    latest,     \* the last commit that anybody made for the branch
    remote,     \* head of the remote counterpart
    merged,     \* how far the remote's default branch contains the branch itself
    fetched,    \* how far its local tracking reference does
    squashed,   \* head of the merged pull request of the branch
    worktree,   \* of each branch
    claim,      \* what the active changes say of each branch
    plan,       \* the steps confirmed
    verified    \* the step that is about to be run

gitVars == <<head, latest, remote, merged, fetched, squashed, worktree, claim>>
vars == <<gitVars, plan, verified>>

Commit == 0..MaxCommit
Gone == MaxCommit + 1
NoStep == [kind |-> "none"]
Step == [kind : {"worktree-remove", "branch-delete", "remote-branch-delete"}, branch : Branch]

TypeOK ==
    /\ head \in [Branch -> Commit \cup {Gone}] /\ remote \in [Branch -> Commit \cup {Gone}]
    /\ {latest, merged, fetched, squashed} \subseteq [Branch -> Commit]
    /\ worktree \in [Branch -> {"none", "clean", "dirty", "locked"}]
    /\ claim \in [Branch -> {"free", "claimed", "unknown"}]
    /\ plan \subseteq Step
    /\ verified \in [step : Step, force : BOOLEAN, oid : Commit, upto : Commit] \cup {NoStep}

Init ==
    /\ head = [b \in Branch |-> 0] /\ latest = head /\ merged = head /\ fetched = head /\ squashed = head
    /\ remote = [b \in Branch |-> Gone] /\ worktree = [b \in Branch |-> "none"]
    /\ claim = [b \in Branch |-> "free"] /\ plan = {} /\ verified = NoStep

(***************************************************************************)
(* People.                                                                 *)
(***************************************************************************)
CommitTo(b) ==
    /\ head[b] = latest[b] /\ latest[b] < MaxCommit
    /\ latest' = [latest EXCEPT ![b] = @ + 1] /\ head' = [head EXCEPT ![b] = @ + 1]
    /\ UNCHANGED <<remote, merged, fetched, squashed, worktree, claim, plan, verified>>
CommitToRemote(b) ==
    /\ remote[b] = latest[b] /\ latest[b] < MaxCommit
    /\ latest' = [latest EXCEPT ![b] = @ + 1] /\ remote' = [remote EXCEPT ![b] = @ + 1]
    /\ UNCHANGED <<head, merged, fetched, squashed, worktree, claim, plan, verified>>
Push(b) ==
    /\ head[b] = latest[b] /\ remote' = [remote EXCEPT ![b] = head[b]]
    /\ UNCHANGED <<head, latest, merged, fetched, squashed, worktree, claim, plan, verified>>
Merge(b) ==
    /\ remote[b] # Gone
    /\ \/ merged' = [merged EXCEPT ![b] = remote[b]] /\ UNCHANGED squashed
       \/ squashed' = [squashed EXCEPT ![b] = remote[b]] /\ UNCHANGED merged
    /\ UNCHANGED <<head, latest, remote, fetched, worktree, claim, plan, verified>>
Fetch(b) ==
    /\ fetched' = [fetched EXCEPT ![b] = merged[b]]
    /\ UNCHANGED <<head, latest, remote, merged, squashed, worktree, claim, plan, verified>>
Arrange(b) ==
    /\ \/ /\ head[b] # Gone /\ UNCHANGED claim
          /\ worktree' \in {[worktree EXCEPT ![b] = w] : w \in {"none", "clean", "dirty", "locked"}}
       \/ claim' \in {[claim EXCEPT ![b] = c] : c \in {"free", "claimed", "unknown"}} /\ UNCHANGED worktree
    /\ UNCHANGED <<head, latest, remote, merged, fetched, squashed, plan, verified>>

(***************************************************************************)
(* The audit.                                                              *)
(***************************************************************************)

\* The ownership of every branch could be read, and nobody owns this one.
Unclaimed(b) == claim[b] = "free"

\* Mutant of ByPullRequest: any merged pull request of the branch will do.
ByAnyPullRequest(b) == squashed[b] > 0
\* The evidence is bound to the head of the local branch.
ByPullRequest(b) == squashed[b] > 0 /\ squashed[b] = head[b]

\* Ancestry is that of the local tracking reference.
ByAncestry(b) == head[b] <= fetched[b]

\* A clean worktree may go, and then its branch.
RetireEligible(b) ==
    /\ head[b] # Gone /\ Unclaimed(b) /\ worktree[b] \in {"none", "clean"}
    /\ ByAncestry(b) \/ ByPullRequest(b)

\* planGenericCleanupApply: a remote counterpart is listed for a branch that
\* ancestry proves delivered.
Listed(step) ==
    /\ RetireEligible(step.branch)
    /\ step.kind = "worktree-remove" => worktree[step.branch] = "clean"
    /\ step.kind = "remote-branch-delete" =>
           worktree[step.branch] = "none" /\ ByAncestry(step.branch) /\ remote[step.branch] # Gone

MakePlan(selection) ==
    /\ verified = NoStep /\ \A step \in selection : Listed(step)
    /\ plan' = selection /\ UNCHANGED <<gitVars, verified>>

RemoteMerged(b) == remote[b] # Gone /\ remote[b] <= merged[b]

\* verifyPlanFreshness.  For a remote branch it asks the remote alone.
Fresh(step) ==
    LET b == step.branch
    IN  CASE step.kind = "worktree-remove" -> RetireEligible(b) /\ worktree[b] = "clean"
          [] step.kind = "branch-delete" -> RetireEligible(b) /\ worktree[b] = "none"
          [] step.kind = "remote-branch-delete" -> RemoteMerged(b)

Verify(step) ==
    /\ verified = NoStep /\ step \in plan /\ Fresh(step)
    /\ verified' = [step |-> step, force |-> ~ByAncestry(step.branch),
                    oid |-> IF remote[step.branch] = Gone THEN 0 ELSE remote[step.branch],
                    upto |-> latest[step.branch]]
    /\ UNCHANGED <<gitVars, plan>>

(***************************************************************************)
(* The command, as git runs or refuses it.                                 *)
(***************************************************************************)
Kind(kind) == verified # NoStep /\ verified.step.kind = kind
RunCommand == verified' = NoStep /\ UNCHANGED plan

\* git worktree remove.
RemoveWorktree ==
    LET b == verified.step.branch
    IN  /\ Kind("worktree-remove") /\ RunCommand
        /\ worktree' = IF worktree[b] = "clean" THEN [worktree EXCEPT ![b] = "none"] ELSE worktree
        /\ UNCHANGED <<head, latest, remote, merged, fetched, squashed, claim>>

\* git branch -d asks for the commits in the upstream or in HEAD, -D does not.
DeleteBranch ==
    LET b == verified.step.branch
        elsewhere == ByAncestry(b) \/ (remote[b] # Gone /\ head[b] <= remote[b])
    IN  /\ Kind("branch-delete") /\ RunCommand
        /\ head' = IF worktree[b] = "none" /\ (verified.force \/ elsewhere)
                   THEN [head EXCEPT ![b] = Gone] ELSE head
        /\ UNCHANGED <<latest, remote, merged, fetched, squashed, worktree, claim>>

\* git push --force-with-lease.
DeleteRemoteBranch ==
    LET b == verified.step.branch
    IN  /\ Kind("remote-branch-delete") /\ RunCommand
        /\ remote' = IF remote[b] = verified.oid THEN [remote EXCEPT ![b] = Gone] ELSE remote
        /\ UNCHANGED <<head, latest, merged, fetched, squashed, worktree, claim>>

Next ==
    \/ \E b \in Branch : CommitTo(b) \/ CommitToRemote(b) \/ Push(b) \/ Merge(b) \/ Fetch(b) \/ Arrange(b)
    \/ \E selection \in SUBSET Step : MakePlan(selection)
    \/ \E step \in Step : Verify(step)
    \/ RemoveWorktree \/ DeleteBranch \/ DeleteRemoteBranch

Spec == Init /\ [][Next]_vars

\* Whether somebody still has a commit, or the default branch its content.
Kept(b, commit) ==
    \/ head[b] # Gone /\ commit <= head[b]
    \/ remote[b] # Gone /\ commit <= remote[b]
    \/ commit <= merged[b] \/ commit <= squashed[b]

\* A command loses no commit that had been made when its step was verified
\* (auditGenericGitRepository, verifyPlanFreshness).
LosesNothingVerified ==
    [][verified # NoStep =>
        \A b \in Branch : \A commit \in 1..latest[b] :
            (b = verified.step.branch => commit <= verified.upto) /\ Kept(b, commit) => Kept(b, commit)']_vars

===============================================================================
