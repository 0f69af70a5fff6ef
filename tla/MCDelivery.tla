------------------------------ MODULE MCDelivery ------------------------------
(***************************************************************************)
(* The model-checking instance of the delivery of a change and of what is  *)
(* cleaned up after it.  The components share no state: a behaviour is one *)
(* of the vertical slice, of the way to a merge, of the retirement of      *)
(* branches, of a cleanup commit, of a bootstrap attachment or of the      *)
(* installed runtime that all of them are dispatched from.                 *)
(***************************************************************************)
EXTENDS MergeGate

CONSTANTS MaxAttempts, Branch, MaxCommit, MaxByHand, Caller, Version, Operator, None, MaxHistory, MaxTouched

ASSUME CommitBound == MaxCommit \in Nat
ASSUME HandBound == MaxByHand \in Nat

VARIABLES
    scene,
    stage, owner, attempts, profile, evidence, step,                        \* OperationSlice
    tips, latest, remote, merged, fetched, squashed, worktree, claims,      \* BranchRetirement
    selected, verified,
    governed, work, index, crowded, on, tip, byHand, guarded,               \* CleanupCommit
    plan, outcome, checked, published,
    attachment, git, pc, copy, todo, closed,                                \* BootstrapAttachment
    directory, installed, active, calls, trail, disturbed, meddled          \* RuntimeInstall

Slice   == INSTANCE OperationSlice WITH at <- step
Retire  == INSTANCE BranchRetirement WITH head <- tips, claim <- claims, plan <- selected
File    == INSTANCE CleanupCommit WITH pushed <- published
Boot    == INSTANCE BootstrapAttachment
Runtime == INSTANCE RuntimeInstall

sliceVars == <<stage, owner, attempts, profile, evidence, step>>
retireVars == <<tips, latest, remote, merged, fetched, squashed, worktree, claims, selected, verified>>
fileVars == <<governed, work, index, crowded, on, tip, byHand, guarded, plan, outcome, checked, published>>
bootVars == <<attachment, git, pc, copy, todo, closed>>
runtimeVars == <<directory, installed, active, calls, trail, disturbed, meddled>>

\* The scenes that do not move start in one state.
MCInit ==
    /\ scene \in {"slice", "gate", "retire", "file", "boot", "runtime"}
    /\ Slice!Init /\ Init /\ Retire!Init /\ File!Init /\ Boot!Init /\ Runtime!Init
    /\ scene # "slice" => profile = "prototype-rapid"
    /\ scene # "file" => ~governed /\ on = "default"

MCNext ==
    /\ UNCHANGED scene
    /\ \/ scene = "slice" /\ Slice!Next /\ UNCHANGED <<vars, retireVars, fileVars, bootVars, runtimeVars>>
       \/ scene = "gate" /\ Next /\ UNCHANGED <<sliceVars, retireVars, fileVars, bootVars, runtimeVars>>
       \/ scene = "retire" /\ Retire!Next /\ UNCHANGED <<sliceVars, vars, fileVars, bootVars, runtimeVars>>
       \/ scene = "file" /\ File!Next /\ UNCHANGED <<sliceVars, vars, retireVars, bootVars, runtimeVars>>
       \/ scene = "boot" /\ Boot!Next /\ UNCHANGED <<sliceVars, vars, retireVars, fileVars, runtimeVars>>
       \/ scene = "runtime" /\ Runtime!Next /\ UNCHANGED <<sliceVars, vars, retireVars, fileVars, bootVars>>

mcVars == <<scene, sliceVars, vars, retireVars, fileVars, bootVars, runtimeVars>>
MCSpec == MCInit /\ [][MCNext]_mcVars

\* The values of the variables of every component.
TypesOK ==
    /\ TypeOK /\ Slice!TypeOK /\ Retire!TypeOK
    /\ File!TypeOK /\ Boot!TypeOK /\ Runtime!TypeOK

\* No adapter is invoked again while an earlier attempt of its step is in doubt.
ObserveBeforeRetry == Slice!ObserveBeforeRetry

\* A cleanup command loses no commit that its verification could see, and
\* a cleanup pushes what it committed, as it verified it.
CleanupDoesWhatItVerified == Retire!LosesNothingVerified /\ []File!PushesWhatWasChecked

\* A bootstrap run is closed only when what it migrated is gone.
ClosedWhenClean == Boot!ClosedWhenClean

\* The runtime that is active, and the one that a launcher has resolved, is
\* as it was built, wherever an installation or a rollback fails or ends.
RuntimeWhole == Runtime!RuntimeWhole

\* A rollback activates the runtime that was active before this one.
RollbackRestores == Runtime!RollbackRestores

===============================================================================
