----------------------------- MODULE CleanupCommit -----------------------------
(***************************************************************************)
(* The generic cleanup of a file that no active change owns: a commit on   *)
(* the default branch, or for a governed file on a topic branch made for   *)
(* it, and its push.  As with branches, every step of the confirmed plan   *)
(* is verified against a fresh audit and its command run afterwards, while *)
(* people edit, stage, commit and switch branches in the same worktree.    *)
(***************************************************************************)
EXTENDS Naturals

CONSTANT MaxByHand      \* bound on what people do

VARIABLES
    governed,   \* whether the file is governed by the specifications
    work,       \* the file in the worktree
    index,      \* the file in the index
    crowded,    \* whether something else is staged too
    on,         \* the branch of the worktree
    tip,        \* the commit that each branch ends at
    byHand,     \* how much they have done
    guarded,    \* the protected branches
    plan,       \* the steps of the confirmed plan
    outcome,    \* the commit that the assistant noted in the plan
    checked,    \* the step that is about to be run and the index it was verified with
    pushed      \* the commit that the cleanup pushed last

fileVars == <<governed, work, index, crowded>>
branchVars == <<on, tip, byHand, guarded>>
planVars == <<plan, outcome, checked>>
vars == <<fileVars, branchVars, planVars, pushed>>

Content == {"base", "safe", "sensitive"}
Place == {"default", "topic", "other"}
NoBranch == [content |-> "base", by |-> "nobody"]
Root == [content |-> "base", seen |-> "base", by |-> "people"]
CommitRecord == [content : Content, seen : Content, by : {"cleanup", "people"}]
StepKind == {"create-topic-branch", "stage-paths", "commit-paths", "push"}
NoStep == [kind |-> "none"]

TypeOK ==
    /\ governed \in BOOLEAN /\ {work, index} \subseteq Content /\ crowded \in BOOLEAN
    /\ on \in Place /\ tip \in [Place -> CommitRecord \cup {NoBranch}] /\ byHand \in 0..MaxByHand
    /\ guarded \subseteq Place /\ plan \subseteq StepKind
    /\ outcome \in CommitRecord \cup {NoBranch} /\ pushed \in CommitRecord \cup {NoBranch}
    /\ checked \in [kind : StepKind, index : Content] \cup {NoStep}

Init ==
    /\ governed \in BOOLEAN /\ work = "base" /\ index = "base" /\ crowded = FALSE
    /\ on \in {"default", "other"} /\ byHand = 0 /\ guarded = {}
    /\ tip = [b \in Place |-> IF b = "topic" THEN NoBranch ELSE Root]
    /\ plan = {} /\ outcome = NoBranch /\ checked = NoStep
    /\ pushed = NoBranch

Target == IF governed THEN "topic" ELSE "default"
InTip == tip[on].content

(***************************************************************************)
(* People.                                                                 *)
(***************************************************************************)
Hand == byHand < MaxByHand /\ byHand' = byHand + 1 /\ UNCHANGED <<governed, planVars, pushed>>

Edit(content) == Hand /\ work' = content /\ UNCHANGED <<index, crowded, on, tip, guarded>>
StageByHand ==
    /\ Hand /\ UNCHANGED <<work, on, tip, guarded>>
    /\ \/ index' \in {work, InTip} /\ UNCHANGED crowded
       \/ crowded' = ~crowded /\ UNCHANGED index
CommitByHand ==
    /\ Hand /\ crowded' = FALSE /\ UNCHANGED <<work, index, on, guarded>>
    /\ tip' = [tip EXCEPT ![on] = [content |-> index, seen |-> index, by |-> "people"]]
\* git takes the changes along, and refuses where they conflict.
Switch(b) ==
    /\ Hand /\ tip[b] # NoBranch /\ (work # InTip \/ index # InTip => tip[b].content = InTip) /\ on' = b
    /\ work' = IF work = InTip THEN tip[b].content ELSE work
    /\ index' = IF index = InTip THEN tip[b].content ELSE index
    /\ UNCHANGED <<crowded, tip, guarded>>
Protect == Hand /\ guarded' = {Target} \ guarded /\ UNCHANGED <<work, index, crowded, on, tip>>

(***************************************************************************)
(* The audit, the plan and the verification of its steps.                  *)
(***************************************************************************)

\* readFileAt looks at the file in the worktree.
WorkSafe == work # "sensitive"
Candidate == (work # InTip \/ index # InTip) /\ WorkSafe

MakePlan(push) ==
    /\ Candidate /\ checked = NoStep
    /\ plan' = {"stage-paths", "commit-paths"} \cup (IF governed THEN {"create-topic-branch"} ELSE {})
                                               \cup (IF push THEN {"push"} ELSE {})
    /\ outcome' = NoBranch /\ UNCHANGED <<fileVars, branchVars, checked, pushed>>

\* Mutant of IndexSafe: the audit has looked at the file already.
IndexChanged == index # InTip
\* The staged content is looked at too, not only the file in the worktree.
IndexSafe == index # InTip /\ index # "sensitive"

Fresh(kind) ==
    CASE kind = "create-topic-branch" -> Candidate /\ tip["topic"] = NoBranch
      [] kind = "stage-paths" -> Candidate
      [] kind = "commit-paths" -> Candidate /\ IndexSafe /\ ~crowded /\ on = Target
      [] kind = "push" -> /\ Target \notin guarded /\ outcome # NoBranch
                          /\ tip[on] = outcome /\ work = InTip /\ index = InTip /\ on = Target

Verify(kind) ==
    /\ checked = NoStep /\ kind \in plan /\ Fresh(kind)
    /\ checked' = [kind |-> kind, index |-> index]
    /\ UNCHANGED <<fileVars, branchVars, plan, outcome, pushed>>

(***************************************************************************)
(* The commands.                                                           *)
(***************************************************************************)
Runs(kind) == checked.kind = kind /\ checked' = NoStep

CreateTopicBranch ==
    /\ Runs("create-topic-branch")
    /\ IF tip["topic"] = NoBranch THEN tip' = [tip EXCEPT !["topic"] = tip[on]] /\ on' = "topic"
                                  ELSE UNCHANGED <<tip, on>>
    /\ UNCHANGED <<fileVars, byHand, guarded, plan, outcome, pushed>>

StagePaths ==
    /\ Runs("stage-paths") /\ index' = work
    /\ UNCHANGED <<governed, work, crowded, branchVars, plan, outcome, pushed>>

\* The assistant notes the new commit in the plan.
CommitPaths ==
    /\ Runs("commit-paths")
    /\ IF index = InTip /\ ~crowded THEN UNCHANGED <<tip, outcome, crowded>>
       ELSE /\ outcome' = [content |-> index, seen |-> checked.index, by |-> "cleanup"]
            /\ tip' = [tip EXCEPT ![on] = outcome'] /\ crowded' = FALSE
    /\ UNCHANGED <<governed, work, index, on, byHand, guarded, plan, pushed>>

\* The commit noted is pushed by its name, wherever the branch is by now.
PushCommit ==
    /\ Runs("push") /\ pushed' = outcome
    /\ UNCHANGED <<fileVars, branchVars, plan, outcome>>

Next ==
    \/ \E content \in Content : Edit(content)
    \/ \E b \in Place : Switch(b)
    \/ \E push \in BOOLEAN : MakePlan(push)
    \/ \E kind \in StepKind : Verify(kind)
    \/ StageByHand \/ CommitByHand \/ Protect
    \/ CreateTopicBranch \/ StagePaths \/ CommitPaths \/ PushCommit

Spec == Init /\ [][Next]_vars

\* What is pushed is a commit of the cleanup; sensitive content is in it only if
\* it was staged after the commit's verification (verifyPlanFreshness).
PushesWhatWasChecked ==
    pushed # NoBranch => pushed.by = "cleanup" /\ pushed.seen # "sensitive"

================================================================================
