--------------------------- MODULE MCDeliveryProofs ---------------------------
(***************************************************************************)
(* Proofs about the delivery of a change and what is cleaned up after it:  *)
(* one part for each of the components that MCDelivery puts side by side.  *)
(* A part first proves the component's invariant or its step, for every    *)
(* value of its constants, and then carries it over to the behaviours of   *)
(* MCDelivery, of which the component sees its own steps and stutters.     *)
(***************************************************************************)
EXTENDS MCDelivery, MergeGateProofs, SequenceTheorems, FiniteSetTheorems, TLAPS

\* A step of MCDelivery is a step or a stutter of every component.
LEMMA StepOfComponents ==
  [MCNext]_mcVars => /\ [Slice!Next]_sliceVars /\ [Retire!Next]_retireVars /\ [File!Next]_fileVars
                     /\ [Boot!Next]_bootVars /\ [Runtime!Next]_runtimeVars
BY DEF MCNext, mcVars

(***************************************************************************)
(* The vertical slice.  A review is never left in doubt, which is why it   *)
(* may be repeated without looking at earlier attempts.                    *)
(***************************************************************************)
SliceInv ==
    /\ attempts \in Seq(Slice!Attempt) /\ profile \in Profile
    /\ \A i \in DOMAIN attempts : attempts[i].state = "in-doubt" => attempts[i].step # "review"
    /\ Slice!ObserveBeforeRetry

\* The steps of the pipeline by name.
LEMMA SliceSteps == Slice!Step = {"proposal", "planningConformance", "apply", "review", "verify"}
<1>1. DOMAIN Slice!slicePipeline = 1..5
  BY DEF Slice!slicePipeline
<1>2. /\ Slice!slicePipeline[1] = "proposal" /\ Slice!slicePipeline[2] = "planningConformance"
      /\ Slice!slicePipeline[3] = "apply" /\ Slice!slicePipeline[4] = "review" /\ Slice!slicePipeline[5] = "verify"
  BY DEF Slice!slicePipeline
<1>3. 1..5 = {1, 2, 3, 4, 5}
  OBVIOUS
<1> QED BY <1>1, <1>2, <1>3 DEF Slice!Step

\* An attempt that is recorded keeps the invariant, unless it is at a step
\* that is in doubt.
LEMMA SliceRecords ==
  ASSUME SliceInv, NEW a \in Slice!Attempt, attempts' = Append(attempts, a), profile' \in Profile,
         a.state = "in-doubt" => a.step # "review",
         \A i \in DOMAIN attempts : attempts[i].state = "in-doubt" => attempts[i].step # a.step
  PROVE  SliceInv'
<1>1. /\ attempts' \in Seq(Slice!Attempt) /\ Len(attempts) \in Nat /\ DOMAIN attempts = 1..Len(attempts)
      /\ DOMAIN attempts' = 1..(Len(attempts) + 1) /\ attempts'[Len(attempts) + 1] = a
      /\ \A i \in 1..Len(attempts) : attempts'[i] = attempts[i]
  BY DEF SliceInv
<1>2. \A i \in DOMAIN attempts' : attempts'[i].state = "in-doubt" => attempts'[i].step # "review"
  BY <1>1 DEF SliceInv
<1>3. ASSUME NEW i \in DOMAIN attempts', NEW j \in DOMAIN attempts', i < j, attempts'[i].state = "in-doubt"
      PROVE  attempts'[j].step # attempts'[i].step
  <2>1. i \in DOMAIN attempts /\ attempts'[i] = attempts[i]
    BY <1>1, <1>3
  <2>2. CASE j \in DOMAIN attempts
    BY <1>1, <1>3, <2>1, <2>2 DEF SliceInv, Slice!ObserveBeforeRetry
  <2>3. CASE j = Len(attempts) + 1
    BY <1>1, <1>3, <2>1, <2>3
  <2> QED BY <1>1, <2>2, <2>3
<1> QED BY <1>1, <1>2, <1>3 DEF SliceInv, Slice!ObserveBeforeRetry

LEMMA SliceStep == ASSUME SliceInv, [Slice!Next]_sliceVars PROVE SliceInv'
<1> USE SliceSteps
<1>0. profile \in Profile
  BY DEF SliceInv
<1>1. CASE UNCHANGED <<attempts>> /\ profile' \in Profile
  BY <1>1 DEF SliceInv, Slice!ObserveBeforeRetry
<1>2. ASSUME NEW p \in Profile, Slice!Start(p) PROVE SliceInv'
  BY <1>1, <1>2 DEF Slice!Start, Slice!storeVars
<1>3. CASE Slice!Refused
  BY <1>0, <1>1, <1>3 DEF Slice!Refused
<1>4. ASSUME Slice!Invokes, NEW state \in Slice!AttemptState, NEW result \in Outcome \cup {"none"},
             Slice!Record(state, result, FALSE), UNCHANGED profile
      PROVE  SliceInv'
  <2> DEFINE a == [step |-> step, state |-> state, outcome |-> result, profile |-> profile, artifact |-> FALSE]
  <2>1. step \in Slice!Step \ {"review"} /\ ~Slice!Unreconciled(step)
    BY <1>4 DEF Slice!Invokes, Slice!Executes
  <2>2. a \in Slice!Attempt
    BY <1>0, <1>4, <2>1 DEF Slice!Attempt, Slice!Outcome, Outcome, Slice!Profile, Profile
  <2>3. attempts' = Append(attempts, a)
    BY <1>4 DEF Slice!Record
  <2>4. \A i \in DOMAIN attempts : attempts[i].state = "in-doubt" => attempts[i].step # a.step
    BY <2>1 DEF Slice!Unreconciled
  <2>5. a.step # "review"
    BY <2>1
  <2> HIDE DEF a
  <2> QED BY <1>0, <1>4, <2>2, <2>3, <2>4, <2>5, SliceRecords
<1>5. CASE Slice!AdapterThrows
  BY <1>4, <1>5 DEF Slice!AdapterThrows, Slice!AttemptState
<1>6. ASSUME NEW result \in Slice!Outcome, NEW signed \in BOOLEAN, Slice!AdapterReturns(result, signed) PROVE SliceInv'
  BY <1>4, <1>6 DEF Slice!AdapterReturns, Slice!AttemptState, Slice!Outcome, Outcome
<1>7. ASSUME NEW p \in Profile, NEW changed \in BOOLEAN, NEW transport \in Slice!Transport,
             attempts' = Append(attempts, [step |-> "review", state |-> "committed",
                                           outcome |-> Slice!Reviewed(p, changed, transport).outcome, profile |-> p,
                                           artifact |-> Slice!Reviewed(p, changed, transport).artifact]),
             UNCHANGED profile
      PROVE  SliceInv'
  <2> DEFINE review == Slice!Reviewed(p, changed, transport)
             a == [step |-> "review", state |-> "committed", outcome |-> review.outcome, profile |-> p,
                   artifact |-> review.artifact]
  <2>1. review.outcome \in Slice!ReviewOutcome /\ review.artifact \in BOOLEAN
    BY DEF Slice!Reviewed, Slice!ReviewOutcome
  <2> HIDE DEF review
  <2>2. a \in Slice!Attempt
    BY <2>1 DEF Slice!Attempt, Slice!AttemptState, Slice!Profile, Profile
  <2>3. a.step = "review" /\ a.state = "committed"
    OBVIOUS
  <2>4. attempts' = Append(attempts, a)
    BY <1>7 DEF review
  <2> HIDE DEF a
  <2> QED BY <1>0, <1>7, <2>2, <2>3, <2>4, SliceRecords DEF SliceInv
<1>8. ASSUME NEW changed \in BOOLEAN, NEW findings \in BOOLEAN, Slice!Review(changed, findings) PROVE SliceInv'
  BY <1>0, <1>7, <1>8 DEF Slice!Review, Slice!Record, Slice!Transport
<1>9. ASSUME NEW p \in Profile, NEW changed \in BOOLEAN, NEW t \in Slice!Transport, Slice!ReviewAside(p, changed, t)
      PROVE  SliceInv'
  BY <1>7, <1>9 DEF Slice!ReviewAside
<1> QED
  BY <1>0, <1>1, <1>2, <1>3, <1>5, <1>6, <1>8, <1>9 DEF Slice!Next, sliceVars, Slice!Profile, Profile

\* No adapter is invoked again for a step while an earlier attempt at it is
\* in doubt, whatever drivers follow each other on the store
\* (executeTransition's check for an unreconciled attempt).
THEOREM ObservedBeforeRetried == MCSpec => []ObserveBeforeRetry
<1>1. MCInit => SliceInv
  BY DEF MCInit, Slice!Init, SliceInv, Slice!ObserveBeforeRetry, Slice!Profile, Profile
<1>2. SliceInv /\ [MCNext]_mcVars => SliceInv'
  BY StepOfComponents, SliceStep
<1>3. SliceInv => ObserveBeforeRetry
  BY DEF SliceInv, ObserveBeforeRetry
<1> QED BY <1>1, <1>2, <1>3, PTL DEF MCSpec

(***************************************************************************)
(* The cleanup commit.  What is committed was looked at in the index when  *)
(* the commit's step was verified, and the commit noted is the cleanup's.  *)
(***************************************************************************)
FileInv ==
    /\ checked.kind = "commit-paths" => checked.index # "sensitive"
    /\ outcome # File!NoBranch => outcome.by = "cleanup" /\ outcome.seen # "sensitive"
    /\ File!PushesWhatWasChecked

LEMMA FileStep == ASSUME FileInv, [File!Next]_fileVars PROVE FileInv'
<1> USE DEF FileInv, File!PushesWhatWasChecked, File!NoBranch, File!NoStep
<1>1. CASE UNCHANGED <<checked, outcome, published>>
  BY <1>1
<1>2. ASSUME File!Hand PROVE FileInv'
  BY <1>1, <1>2 DEF File!Hand, File!planVars
<1>3. CASE File!StageByHand \/ File!CommitByHand \/ File!Protect
  BY <1>2, <1>3 DEF File!StageByHand, File!CommitByHand, File!Protect
<1>4. CASE \/ \E content \in File!Content : File!Edit(content)
           \/ \E b \in File!Place : File!Switch(b)
  BY <1>2, <1>4 DEF File!Edit, File!Switch
<1>5. ASSUME NEW push \in BOOLEAN, File!MakePlan(push) PROVE FileInv'
  BY <1>5 DEF File!MakePlan
<1>6. ASSUME NEW kind \in File!StepKind, File!Verify(kind) PROVE FileInv'
  BY <1>6 DEF File!Verify, File!Fresh, File!IndexSafe
<1>7. CASE File!CreateTopicBranch \/ File!StagePaths
  BY <1>7 DEF File!CreateTopicBranch, File!StagePaths, File!Runs
<1>8. CASE File!CommitPaths
  BY <1>8 DEF File!CommitPaths, File!Runs
<1>9. CASE File!PushCommit
  BY <1>9 DEF File!PushCommit, File!Runs
<1> QED
  BY <1>1, <1>3, <1>4, <1>5, <1>6, <1>7, <1>8, <1>9 DEF File!Next, fileVars

(***************************************************************************)
(* The retirement of branches.  People go on between a step's verification *)
(* and its command, but what the step was verified with can only grow: the *)
(* remote's default branch and the record of a merged pull request never   *)
(* fall behind the evidence of the audit.                                  *)
(***************************************************************************)
RetireTypes ==
    /\ tips \in [Branch -> Retire!Commit \cup {Retire!Gone}] /\ remote \in [Branch -> Retire!Commit \cup {Retire!Gone}]
    /\ latest \in [Branch -> Retire!Commit] /\ merged \in [Branch -> Retire!Commit]
    /\ fetched \in [Branch -> Retire!Commit] /\ squashed \in [Branch -> Retire!Commit]
    /\ verified \in [step : Retire!Step, force : BOOLEAN, oid : Retire!Commit, upto : Retire!Commit] \cup {Retire!NoStep}

\* How the histories of a branch stand to each other.
Ordered(b) ==
    /\ tips[b] # Retire!Gone => tips[b] <= latest[b]
    /\ remote[b] # Retire!Gone => remote[b] <= latest[b] /\ merged[b] <= remote[b] /\ squashed[b] <= remote[b]
    /\ merged[b] <= latest[b] /\ squashed[b] <= latest[b] /\ fetched[b] <= merged[b]

\* What a verified step may still rely on when its command runs.
Warranted ==
    verified # Retire!NoStep =>
        LET b == verified.step.branch
        IN  /\ verified.upto <= latest[b]
            /\ verified.step.kind = "remote-branch-delete" => verified.oid <= merged[b]
            /\ verified.step.kind = "branch-delete" /\ verified.force /\ tips[b] # Retire!Gone =>
                   \A c \in 1..verified.upto : c <= tips[b] => c <= squashed[b]

RetireInv == RetireTypes /\ (\A b \in Branch : Ordered(b)) /\ Warranted

LEMMA RetireTypeStep == ASSUME RetireTypes, [Retire!Next]_retireVars PROVE RetireTypes'
<1> USE CommitBound DEF RetireTypes, Retire!Commit, Retire!Gone, Retire!gitVars
<1>1. ASSUME NEW b \in Branch, Retire!CommitTo(b) PROVE RetireTypes'
  BY <1>1 DEF Retire!CommitTo
<1>2. ASSUME NEW b \in Branch, Retire!CommitToRemote(b) PROVE RetireTypes'
  BY <1>2 DEF Retire!CommitToRemote
<1>3. ASSUME NEW b \in Branch, Retire!Push(b) \/ Retire!Merge(b) \/ Retire!Fetch(b) \/ Retire!Arrange(b) PROVE RetireTypes'
  BY <1>3 DEF Retire!Push, Retire!Merge, Retire!Fetch, Retire!Arrange
<1>4. ASSUME NEW selection \in SUBSET Retire!Step, Retire!MakePlan(selection) PROVE RetireTypes'
  BY <1>4 DEF Retire!MakePlan
<1>5. ASSUME NEW s \in Retire!Step, Retire!Verify(s) PROVE RetireTypes'
  <2>1. s.branch \in Branch
    BY DEF Retire!Step
  <2>2. UNCHANGED <<tips, latest, remote, merged, fetched, squashed>>
    BY <1>5 DEF Retire!Verify
  <2>3. verified' \in [step : Retire!Step, force : BOOLEAN, oid : Retire!Commit, upto : Retire!Commit]
    <3> DEFINE oid == IF remote[s.branch] = Retire!Gone THEN 0 ELSE remote[s.branch]
               force == ~Retire!ByAncestry(s.branch)
    <3>1. oid \in Retire!Commit /\ latest[s.branch] \in Retire!Commit
      BY <2>1
    <3>2. verified' = [step |-> s, force |-> force, oid |-> oid, upto |-> latest[s.branch]]
      BY <1>5 DEF Retire!Verify
    <3>3. force \in BOOLEAN
      BY DEF Retire!ByAncestry
    <3> HIDE DEF oid, force
    <3> QED BY <3>1, <3>2, <3>3
  <2> QED BY <2>2, <2>3
<1>6. CASE Retire!RemoveWorktree \/ Retire!DeleteBranch \/ Retire!DeleteRemoteBranch
  <2>1. verified' = Retire!NoStep /\ UNCHANGED <<latest, merged, fetched, squashed>>
    BY <1>6 DEF Retire!RemoveWorktree, Retire!DeleteBranch, Retire!DeleteRemoteBranch, Retire!RunCommand
  <2>2. tips' \in [Branch -> Retire!Commit \cup {Retire!Gone}] /\ remote' \in [Branch -> Retire!Commit \cup {Retire!Gone}]
    BY <1>6 DEF Retire!RemoveWorktree, Retire!DeleteBranch, Retire!DeleteRemoteBranch
  <2> QED BY <2>1, <2>2
<1>7. CASE UNCHANGED retireVars
  BY <1>7 DEF retireVars
<1> QED
  BY <1>1, <1>2, <1>3, <1>4, <1>5, <1>6, <1>7 DEF Retire!Next

\* The histories of every branch stay in order.
LEMMA OrderedStep ==
  ASSUME RetireInv, [Retire!Next]_retireVars, NEW b \in Branch
  PROVE  Ordered(b)'
<1> USE CommitBound DEF Retire!Commit, Retire!Gone, Ordered
<1>0. RetireTypes /\ Ordered(b)
  BY DEF RetireInv
<1>1. ASSUME NEW c \in Branch, Retire!CommitTo(c) PROVE Ordered(b)'
  BY <1>0, <1>1 DEF Retire!CommitTo, RetireTypes
<1>2. ASSUME NEW c \in Branch, Retire!CommitToRemote(c) PROVE Ordered(b)'
  BY <1>0, <1>2 DEF Retire!CommitToRemote, RetireTypes
<1>3. ASSUME NEW c \in Branch, Retire!Push(c) PROVE Ordered(b)'
  BY <1>0, <1>3 DEF Retire!Push, RetireTypes
<1>4. ASSUME NEW c \in Branch, Retire!Merge(c) PROVE Ordered(b)'
  BY <1>0, <1>4 DEF Retire!Merge, RetireTypes
<1>5. ASSUME NEW c \in Branch, Retire!Fetch(c) PROVE Ordered(b)'
  BY <1>0, <1>5 DEF Retire!Fetch, RetireTypes
<1>6. CASE UNCHANGED <<tips, latest, remote, merged, fetched, squashed>>
  BY <1>0, <1>6
<1>7. CASE \/ \E c \in Branch : Retire!Arrange(c)
           \/ \E selection \in SUBSET Retire!Step : Retire!MakePlan(selection)
           \/ \E s \in Retire!Step : Retire!Verify(s)
           \/ Retire!RemoveWorktree \/ UNCHANGED retireVars
  BY <1>6, <1>7
     DEF Retire!Arrange, Retire!MakePlan, Retire!Verify, Retire!RemoveWorktree, Retire!gitVars, retireVars
<1>8. CASE Retire!DeleteBranch
  BY <1>0, <1>8 DEF Retire!DeleteBranch, RetireTypes
<1>9. CASE Retire!DeleteRemoteBranch
  BY <1>0, <1>9 DEF Retire!DeleteRemoteBranch, RetireTypes
<1> QED
  BY <1>1, <1>2, <1>3, <1>4, <1>5, <1>7, <1>8, <1>9 DEF Retire!Next

\* What people do moves neither the step nor what it relies on backwards.
LEMMA PeopleStep ==
  ASSUME RetireInv, NEW c \in Branch,
         \/ Retire!CommitTo(c) \/ Retire!CommitToRemote(c) \/ Retire!Push(c)
         \/ Retire!Merge(c) \/ Retire!Fetch(c) \/ Retire!Arrange(c)
  PROVE  /\ UNCHANGED verified
         /\ \A b \in Branch :
                /\ latest[b] <= latest'[b] /\ merged[b] <= merged'[b] /\ squashed[b] <= squashed'[b]
                /\ tips'[b] = tips[b] \/ (tips[b] = latest[b] /\ tips'[b] = tips[b] + 1 /\ tips'[b] # Retire!Gone)
                /\ remote'[b] = remote[b] \/ (remote'[b] # Retire!Gone /\ (remote[b] # Retire!Gone => remote[b] <= remote'[b]))
<1> USE CommitBound DEF Retire!Commit, Retire!Gone
<1>0. RetireTypes /\ Ordered(c) /\ verified' = verified
  BY DEF RetireInv, Retire!CommitTo, Retire!CommitToRemote, Retire!Push, Retire!Merge, Retire!Fetch,
         Retire!Arrange
<1>1. CASE Retire!CommitTo(c)
  BY <1>0, <1>1 DEF Retire!CommitTo, RetireTypes
<1>2. CASE Retire!CommitToRemote(c)
  BY <1>0, <1>2 DEF Retire!CommitToRemote, RetireTypes
<1>3. CASE Retire!Push(c)
  BY <1>0, <1>3 DEF Retire!Push, RetireTypes, Ordered
<1>4. CASE Retire!Merge(c)
  BY <1>0, <1>4 DEF Retire!Merge, RetireTypes, Ordered
<1>5. CASE Retire!Fetch(c) \/ Retire!Arrange(c)
  BY <1>0, <1>5 DEF Retire!Fetch, Retire!Arrange, RetireTypes
<1> QED BY <1>1, <1>2, <1>3, <1>4, <1>5

LEMMA WarrantedStep == ASSUME RetireInv, [Retire!Next]_retireVars PROVE Warranted'
<1> USE CommitBound DEF Retire!Commit, Retire!Gone
<1>0. RetireTypes /\ Warranted /\ \A b \in Branch : Ordered(b)
  BY DEF RetireInv
<1>1. ASSUME NEW c \in Branch,
             \/ Retire!CommitTo(c) \/ Retire!CommitToRemote(c) \/ Retire!Push(c)
             \/ Retire!Merge(c) \/ Retire!Fetch(c) \/ Retire!Arrange(c)
      PROVE  Warranted'
  <2>1. /\ verified' = verified
        /\ \A b \in Branch :
               /\ latest[b] <= latest'[b] /\ merged[b] <= merged'[b] /\ squashed[b] <= squashed'[b]
               /\ tips'[b] = tips[b] \/ (tips[b] = latest[b] /\ tips'[b] = tips[b] + 1 /\ tips'[b] # Retire!Gone)
    BY <1>1, PeopleStep
  <2>2. RetireTypes'
    BY <1>0, <1>1, RetireTypeStep DEF Retire!Next
  <2> SUFFICES ASSUME verified # Retire!NoStep
               PROVE  LET b == verified.step.branch
                      IN  /\ verified.upto <= latest'[b]
                          /\ verified.step.kind = "remote-branch-delete" => verified.oid <= merged'[b]
                          /\ verified.step.kind = "branch-delete" /\ verified.force /\ tips'[b] # Retire!Gone =>
                                 \A d \in 1..verified.upto : d <= tips'[b] => d <= squashed'[b]
    BY <2>1 DEF Warranted
  <2> DEFINE b == verified.step.branch
  <2>3. b \in Branch /\ verified.upto \in Nat /\ verified.oid \in Nat
    BY <1>0 DEF RetireTypes, Retire!Step
  <2>4. /\ latest[b] \in Nat /\ latest'[b] \in Nat /\ merged[b] \in Nat /\ merged'[b] \in Nat
        /\ squashed[b] \in Nat /\ squashed'[b] \in Nat /\ tips[b] \in Nat /\ tips'[b] \in Nat
    BY <1>0, <2>2, <2>3 DEF RetireTypes
  <2>5. /\ verified.upto <= latest[b]
        /\ verified.step.kind = "remote-branch-delete" => verified.oid <= merged[b]
        /\ verified.step.kind = "branch-delete" /\ verified.force /\ tips[b] # Retire!Gone =>
               \A d \in 1..verified.upto : d <= tips[b] => d <= squashed[b]
    BY <1>0 DEF Warranted
  <2>6. ASSUME verified.step.kind = "branch-delete", verified.force, tips'[b] # Retire!Gone,
               NEW d \in 1..verified.upto, d <= tips'[b]
        PROVE  d <= squashed'[b]
    <3>1. tips[b] # Retire!Gone /\ d <= tips[b]
      <4>1. CASE tips'[b] = tips[b]
        BY <2>6, <4>1
      <4>2. CASE tips[b] = latest[b]
        <5>1. latest[b] # Retire!Gone
          BY <1>0, <2>3 DEF RetireTypes
        <5> HIDE DEF Retire!Gone, b
        <5> QED BY <2>3, <2>4, <2>5, <4>2, <5>1
      <4> QED BY <2>1, <2>3, <4>1, <4>2
    <3> QED BY <2>1, <2>3, <2>4, <2>5, <2>6, <3>1
  <2> HIDE DEF b
  <2>7. verified.upto <= latest'[b] /\ (verified.step.kind = "remote-branch-delete" => verified.oid <= merged'[b])
    BY <2>1, <2>3, <2>4, <2>5
  <2> QED BY <2>6, <2>7 DEF b
<1>2. ASSUME NEW s \in Retire!Step, Retire!Verify(s) PROVE Warranted'
  <2> DEFINE b == s.branch
  <2>1. b \in Branch /\ s.kind \in {"worktree-remove", "branch-delete", "remote-branch-delete"}
    BY DEF Retire!Step
  <2>2. /\ verified'.step = s /\ verified'.force = ~Retire!ByAncestry(b) /\ verified'.upto = latest[b]
        /\ verified'.oid = IF remote[b] = Retire!Gone THEN 0 ELSE remote[b]
        /\ UNCHANGED <<tips, latest, merged, squashed>> /\ Retire!Fresh(s)
    BY <1>2 DEF Retire!Verify, Retire!gitVars
  <2>3. s.kind = "remote-branch-delete" => verified'.oid <= merged[b]
    BY <1>0, <2>1, <2>2 DEF Retire!Fresh, Retire!RemoteMerged
  <2>4. s.kind = "branch-delete" /\ verified'.force => squashed[b] = tips[b]
    BY <2>1, <2>2 DEF Retire!Fresh, Retire!RetireEligible, Retire!ByPullRequest
  <2>5. latest[b] \in Nat /\ latest[b] <= latest[b]
    BY <1>0, <2>1 DEF RetireTypes
  <2> HIDE DEF b
  <2> QED BY <2>2, <2>3, <2>4, <2>5 DEF Warranted, b
<1>3. ASSUME NEW selection \in SUBSET Retire!Step, Retire!MakePlan(selection) PROVE Warranted'
  BY <1>3 DEF Retire!MakePlan, Warranted
<1>4. CASE Retire!RemoveWorktree \/ Retire!DeleteBranch \/ Retire!DeleteRemoteBranch
  <2>1. verified' = Retire!NoStep
    BY <1>4 DEF Retire!RemoveWorktree, Retire!DeleteBranch, Retire!DeleteRemoteBranch, Retire!RunCommand
  <2> QED BY <2>1 DEF Warranted
<1>5. CASE UNCHANGED retireVars
  BY <1>0, <1>5 DEF Warranted, retireVars
<1> QED
  BY <1>1, <1>2, <1>3, <1>4, <1>5 DEF Retire!Next

\* A step of the retirement keeps every commit that LosesNothingVerified
\* speaks of.
LEMMA RetireKeeps ==
  ASSUME RetireInv, Retire!Next, verified # Retire!NoStep, NEW b \in Branch, NEW commit \in 1..latest[b],
         b = verified.step.branch => commit <= verified.upto, Retire!Kept(b, commit)
  PROVE  Retire!Kept(b, commit)'
<1> USE CommitBound DEF Retire!Commit, Retire!Gone
<1>0. RetireTypes /\ Warranted /\ Ordered(b)
  BY DEF RetireInv
<1>1. RetireTypes'
  BY RetireTypeStep DEF RetireInv
<1>2. /\ latest[b] \in Nat /\ merged[b] \in Nat /\ merged'[b] \in Nat /\ commit \in Nat /\ fetched[b] \in Nat
      /\ squashed[b] \in Nat /\ squashed'[b] \in Nat /\ tips[b] \in Nat /\ tips'[b] \in Nat
      /\ remote[b] \in Nat /\ remote'[b] \in Nat
  BY <1>0, <1>1 DEF RetireTypes
<1>3. ASSUME NEW c \in Branch,
             \/ Retire!CommitTo(c) \/ Retire!CommitToRemote(c) \/ Retire!Push(c)
             \/ Retire!Merge(c) \/ Retire!Fetch(c) \/ Retire!Arrange(c)
      PROVE  Retire!Kept(b, commit)'
  <2>1. /\ merged[b] <= merged'[b] /\ squashed[b] <= squashed'[b]
        /\ tips'[b] = tips[b] \/ (tips'[b] = tips[b] + 1 /\ tips'[b] # Retire!Gone)
        /\ remote'[b] = remote[b] \/ (remote'[b] # Retire!Gone /\ (remote[b] # Retire!Gone => remote[b] <= remote'[b]))
    BY <1>3, PeopleStep
  <2> HIDE DEF Retire!Gone
  <2> QED BY <1>2, <2>1 DEF Retire!Kept
<1>4. CASE UNCHANGED <<tips, remote, merged, squashed>>
  BY <1>4 DEF Retire!Kept
<1>5. CASE Retire!RemoveWorktree
  BY <1>4, <1>5 DEF Retire!RemoveWorktree
<1>6. CASE Retire!DeleteBranch
  <2> DEFINE v == verified.step.branch
  <2>1. /\ verified.step.kind = "branch-delete" /\ v \in Branch
        /\ UNCHANGED <<latest, remote, merged, squashed>>
        /\ tips' = tips \/ (/\ tips' = [tips EXCEPT ![v] = Retire!Gone]
                            /\ \/ verified.force \/ tips[v] <= fetched[v]
                               \/ remote[v] # Retire!Gone /\ tips[v] <= remote[v])
    BY <1>0, <1>6 DEF Retire!DeleteBranch, Retire!Kind, Retire!ByAncestry, RetireTypes, Retire!Step
  <2>2. CASE tips' = tips \/ b # v
    BY <1>0, <2>1, <2>2 DEF Retire!Kept, RetireTypes
  <2>3. CASE tips' # tips /\ b = v /\ ~(tips[b] # Retire!Gone /\ commit <= tips[b])
    BY <2>1, <2>3 DEF Retire!Kept
  <2>4. CASE tips' # tips /\ b = v /\ tips[b] # Retire!Gone /\ commit <= tips[b]
    <3>1. CASE verified.force
      <4>1. commit \in 1..verified.upto
        BY <2>4 
      <4>2. commit <= squashed[b]
        BY <1>0, <2>1, <2>4, <3>1, <4>1 DEF Warranted
      <4> QED BY <2>1, <4>2 DEF Retire!Kept
    <3>2. CASE tips[b] <= fetched[b]
      <4>1. commit <= merged[b]
        BY <1>0, <1>2, <2>4, <3>2 DEF Ordered
      <4> QED BY <2>1, <4>1 DEF Retire!Kept
    <3>3. CASE remote[b] # Retire!Gone /\ tips[b] <= remote[b]
      <4>1. commit <= remote[b]
        BY <1>2, <2>4, <3>3
      <4> QED BY <2>1, <3>3, <4>1 DEF Retire!Kept
    <3> QED BY <2>1, <2>4, <3>1, <3>2, <3>3
  <2> QED BY <2>2, <2>3, <2>4
<1>7. CASE Retire!DeleteRemoteBranch
  <2> DEFINE v == verified.step.branch
  <2>1. /\ verified.step.kind = "remote-branch-delete" /\ v \in Branch
        /\ UNCHANGED <<tips, latest, merged, squashed>>
        /\ remote' = IF remote[v] = verified.oid THEN [remote EXCEPT ![v] = Retire!Gone] ELSE remote
    BY <1>0, <1>7 DEF Retire!DeleteRemoteBranch, Retire!Kind, RetireTypes, Retire!Step
  <2>2. verified.oid <= merged[v]
    BY <1>0, <2>1 DEF Warranted
  <2>3. CASE remote' = remote \/ b # v
    BY <1>0, <2>1, <2>3 DEF Retire!Kept, RetireTypes
  <2>4. CASE b = v /\ remote[b] = verified.oid
    BY <1>2, <2>1, <2>2, <2>4 DEF Retire!Kept
  <2> QED BY <2>1, <2>3, <2>4
<1>8. CASE \E selection \in SUBSET Retire!Step : Retire!MakePlan(selection)
  BY <1>8 DEF Retire!MakePlan
<1>9. CASE \E s \in Retire!Step : Retire!Verify(s)
  BY <1>9 DEF Retire!Verify
<1> QED
  BY <1>3, <1>5, <1>6, <1>7, <1>8, <1>9 DEF Retire!Next

\* A command of the cleanup loses no commit that its verification could see,
\* whatever people did since, and what a cleanup pushes it committed itself,
\* from an index that was looked at (verifyPlanFreshness and the commands of
\* the plan's steps).
THEOREM CleanupVerified == MCSpec => CleanupDoesWhatItVerified
<1> DEFINE Loses == verified # Retire!NoStep =>
               \A b \in Branch : \A commit \in 1..latest[b] :
                   (b = verified.step.branch => commit <= verified.upto) /\ Retire!Kept(b, commit)
                       => Retire!Kept(b, commit)'
<1>1. MCInit => RetireInv /\ FileInv
  <2> SUFFICES ASSUME MCInit PROVE RetireInv /\ FileInv
    OBVIOUS
  <2>1. RetireInv
    BY CommitBound
       DEF MCInit, Retire!Init, RetireInv, RetireTypes, Warranted, Ordered, Retire!Commit, Retire!Gone
  <2>2. FileInv
    BY DEF MCInit, File!Init, FileInv, File!PushesWhatWasChecked, File!NoStep
  <2> QED BY <2>1, <2>2
<1>2. RetireInv /\ FileInv /\ [MCNext]_mcVars => (RetireInv /\ FileInv)' /\ [Loses]_(Retire!vars)
  <2> SUFFICES ASSUME RetireInv, FileInv, [MCNext]_mcVars PROVE (RetireInv /\ FileInv)' /\ [Loses]_(Retire!vars)
    OBVIOUS
  <2>1. [Retire!Next]_retireVars /\ [File!Next]_fileVars
    BY StepOfComponents
  <2>2. RetireInv'
    BY <2>1, RetireTypeStep, OrderedStep, WarrantedStep DEF RetireInv
  <2>3. FileInv'
    BY <2>1, FileStep
  <2>4. CASE UNCHANGED retireVars
    BY <2>2, <2>3, <2>4 DEF retireVars, Retire!vars, Retire!gitVars
  <2>5. CASE Retire!Next
    <3>1. Loses
      BY <2>5, RetireKeeps
    <3> QED BY <2>2, <2>3, <3>1
  <2> QED BY <2>1, <2>4, <2>5
<1>3. FileInv => File!PushesWhatWasChecked
  BY DEF FileInv
<1> QED BY <1>1, <1>2, <1>3, PTL DEF MCSpec, CleanupDoesWhatItVerified, Retire!LosesNothingVerified

(***************************************************************************)
(* The bootstrap attachment.  No copy of it, on disk or in a caller,       *)
(* records a removal that did not take place, and nobody brings a removed  *)
(* resource back; so a lost write loses receipts but makes none wrong.     *)
(***************************************************************************)
RemovedIn(file) == \A r \in Boot!Migrated : file.receipts[r] \in Boot!Terminal => git[r] = "absent"

ReceiptsTrue ==
    /\ attachment \in Boot!Attachment => RemovedIn(attachment)
    /\ \A c \in Caller : RemovedIn(copy[c])

BootInv == Boot!TypeOK /\ ReceiptsTrue

\* What the attachment gains keeps its type.
LEMMA Extended ==
  ASSUME NEW file \in Boot!Attachment
  PROVE  /\ \A r \in Boot!Migrated : [file EXCEPT !.resources = @ \cup {r}] \in Boot!Attachment
         /\ \A r \in Boot!Retained : [file EXCEPT !.retained = @ \cup {r}] \in Boot!Attachment
<1>1. ASSUME NEW r \in Boot!Migrated PROVE [file EXCEPT !.resources = @ \cup {r}] \in Boot!Attachment
  <2>1. file.resources \cup {r} \in SUBSET Boot!Migrated
    BY DEF Boot!Attachment
  <2> QED BY <2>1 DEF Boot!Attachment
<1>2. ASSUME NEW r \in Boot!Retained PROVE [file EXCEPT !.retained = @ \cup {r}] \in Boot!Attachment
  <2>1. file.retained \cup {r} \in SUBSET Boot!Retained
    BY DEF Boot!Attachment
  <2> QED BY <2>1 DEF Boot!Attachment
<1> QED BY <1>1, <1>2

LEMMA WriteKeepsType ==
  ASSUME Boot!TypeOK, NEW c \in Caller, NEW new \in Boot!Attachment, Boot!Write(c, new), Boot!Goto(c, "idle"),
         UNCHANGED <<git, todo, closed>>
  PROVE  Boot!TypeOK'
BY DEF Boot!TypeOK, Boot!Write, Boot!Goto

\* Every variable keeps its type.
LEMMA BootTypeStep == ASSUME Boot!TypeOK, [Boot!Next]_bootVars PROVE Boot!TypeOK'
<1> USE DEF Boot!TypeOK, Boot!Attachment, Boot!Migrated, Boot!Retained, Boot!Receipt, Boot!Terminal, Boot!At, Boot!Goto, Boot!callerVars
<1>1. ASSUME NEW r \in Boot!Migrated \cup Boot!Retained, Boot!Change(r) PROVE Boot!TypeOK'
  BY <1>1 DEF Boot!Change
<1>2. ASSUME NEW c \in Caller, NEW call \in {"attach", "retain", "plan"}, Boot!Read(c, call) PROVE Boot!TypeOK'
  BY <1>2 DEF Boot!Read, Boot!Empty, Boot!NoFile
<1>3. ASSUME NEW c \in Caller, NEW r \in Boot!Migrated, Boot!Attach(c, r) PROVE Boot!TypeOK'
  <2> HIDE DEF Boot!TypeOK, Boot!Attachment, Boot!Migrated, Boot!Goto
  <2>1. [copy[c] EXCEPT !.resources = @ \cup {r}] \in Boot!Attachment
    BY Extended DEF Boot!TypeOK
  <2>2. CASE UNCHANGED <<copy, attachment>>
    BY <1>3, <2>2 DEF Boot!Attach, Boot!TypeOK, Boot!Goto
  <2> QED BY <1>3, <2>1, <2>2, WriteKeepsType DEF Boot!Attach
<1>4. ASSUME NEW c \in Caller, NEW r \in Boot!Retained, Boot!Retain(c, r) PROVE Boot!TypeOK'
  <2> HIDE DEF Boot!TypeOK, Boot!Attachment, Boot!Retained, Boot!Goto
  <2>1. [copy[c] EXCEPT !.retained = @ \cup {r}] \in Boot!Attachment
    BY Extended DEF Boot!TypeOK
  <2>2. CASE UNCHANGED <<copy, attachment>>
    BY <1>4, <2>2 DEF Boot!Retain, Boot!TypeOK, Boot!Goto
  <2> QED BY <1>4, <2>1, <2>2, WriteKeepsType DEF Boot!Retain
<1>5. ASSUME NEW c \in Caller, Boot!Plan(c) PROVE Boot!TypeOK'
  <2> DEFINE ineligible == {r \in copy[c].resources : git[r] # "absent" /\ ~Boot!Removable(r)}
  <2>1. CASE ineligible = {}
    BY <1>5, <2>1 DEF Boot!Plan
  <2>2. CASE ineligible # {}
    <3> DEFINE new == [copy[c] EXCEPT !.receipts = [r \in Boot!Migrated |-> IF r \in ineligible THEN "blocked" ELSE @[r]]]
    <3>1. Boot!Goto(c, "idle") /\ UNCHANGED <<todo, git, closed>> /\ Boot!Write(c, new)
      BY <1>5, <2>2 DEF Boot!Plan
    <3>2. copy[c] \in Boot!Attachment
      OBVIOUS
    <3>3. new \in Boot!Attachment
      <4> DEFINE blocked == [r \in Boot!Migrated |-> IF r \in ineligible THEN "blocked" ELSE copy[c].receipts[r]]
      <4>1. blocked \in [Boot!Migrated -> Boot!Receipt]
        BY <3>2
      <4>2. new = [copy[c] EXCEPT !.receipts = blocked]
        OBVIOUS
      <4> QED BY <3>2, <4>1, <4>2
    <3> HIDE DEF new
    <3> QED BY <3>1, <3>3 DEF Boot!Write
  <2> QED BY <2>1, <2>2
<1>6. ASSUME NEW c \in Caller, Boot!Inspect(c) PROVE Boot!TypeOK'
  <2> DEFINE u == Boot!Upcoming(c)
             new(status) == [copy[c] EXCEPT !.receipts[u] = status]
  <2>1. u \in Boot!Migrated
    BY DEF Boot!Upcoming
  <2>2. \A status \in Boot!Receipt : new(status) \in Boot!Attachment
    BY <2>1
  <2> HIDE DEF u, new
  <2>3. /\ UNCHANGED <<git, closed>>
        /\ \/ UNCHANGED <<copy, attachment>>
           \/ \E status \in {"started", "already-completed", "blocked"} : Boot!Write(c, new(status))
    BY <1>6 DEF Boot!Inspect, Boot!WriteReceipt, u, new
  <2>4. attachment' \in Boot!Attachment \cup {Boot!NoFile} /\ copy' \in [Caller -> Boot!Attachment]
    BY <2>2, <2>3 DEF Boot!Write
  <2>5. pc' \in [Caller -> {"idle", "attach", "retain", "plan", "inspect", "start", "finish"}]
        /\ todo' \in [Caller -> SUBSET Boot!Migrated]
    <3> HIDE DEF Boot!Attachment, Boot!Receipt
    <3> QED BY <1>6 DEF Boot!Inspect
  <2> QED BY <2>3, <2>4, <2>5
<1>7. ASSUME NEW c \in Caller, Boot!Remove(c) PROVE Boot!TypeOK'
  <2> DEFINE u == Boot!Upcoming(c)
  <2>1. u \in Boot!Migrated
    BY DEF Boot!Upcoming
  <2>2. \A status \in Boot!Receipt : [copy EXCEPT ![c].receipts[u] = status] \in [Caller -> Boot!Attachment]
    BY <2>1
  <2> HIDE DEF u, Boot!Attachment
  <2> QED BY <1>7, <2>1, <2>2 DEF Boot!Remove, u
<1>8. ASSUME NEW c \in Caller, Boot!Finish(c) PROVE Boot!TypeOK'
  BY <1>8 DEF Boot!Finish, Boot!Upcoming
<1>9. ASSUME NEW c \in Caller, Boot!Kill(c) PROVE Boot!TypeOK'
  BY <1>9 DEF Boot!Kill
<1>10. CASE Boot!Close
  BY <1>10 DEF Boot!Close
<1>11. CASE UNCHANGED bootVars
  BY <1>11 DEF bootVars
<1> QED BY <1>1, <1>2, <1>3, <1>4, <1>5, <1>6, <1>7, <1>8, <1>9, <1>10, <1>11 DEF Boot!Next

\* What is gone stays gone.
LEMMA GoneStaysGone ==
  ASSUME Boot!TypeOK, [Boot!Next]_bootVars, NEW r \in Boot!Migrated, git[r] = "absent" PROVE git'[r] = "absent"
<1> USE DEF Boot!TypeOK, Boot!Migrated, Boot!Retained
<1>1. ASSUME NEW q \in Boot!Migrated \cup Boot!Retained, Boot!Change(q) PROVE git'[r] = "absent"
  BY <1>1 DEF Boot!Change
<1>2. ASSUME NEW c \in Caller, Boot!Remove(c) PROVE git'[r] = "absent"
  BY <1>2 DEF Boot!Remove
<1>3. CASE UNCHANGED git
  BY <1>3
<1> QED BY <1>1, <1>2, <1>3
           DEF Boot!Next, Boot!Read, Boot!Attach, Boot!Retain, Boot!Plan, Boot!Inspect, Boot!Finish, Boot!Kill,
               Boot!Close, bootVars

\* No step makes a receipt of a removal that has not taken place.
LEMMA ReceiptsStep == ASSUME BootInv, [Boot!Next]_bootVars PROVE ReceiptsTrue'
<1> USE DEF BootInv
<1>1. Boot!TypeOK'
  BY BootTypeStep
<1>2. \A r \in Boot!Migrated : git[r] = "absent" => git'[r] = "absent"
  BY GoneStaysGone
<1>3. ASSUME UNCHANGED <<attachment, copy>> PROVE ReceiptsTrue'
  BY <1>2, <1>3 DEF ReceiptsTrue, RemovedIn
<1>4. ASSUME NEW c \in Caller, NEW new, Boot!Write(c, new),
             \A r \in Boot!Migrated : new.receipts[r] \in Boot!Terminal => git'[r] = "absent"
      PROVE ReceiptsTrue'
  BY <1>2, <1>4 DEF ReceiptsTrue, RemovedIn, Boot!Write, Boot!TypeOK
<1>5. ASSUME NEW c \in Caller, NEW call \in {"attach", "retain", "plan"}, Boot!Read(c, call) PROVE ReceiptsTrue'
  <2>1. \A r \in Boot!Migrated : Boot!Empty.receipts[r] \notin Boot!Terminal
    BY DEF Boot!Empty, Boot!Migrated, Boot!Terminal
  <2>2. attachment # Boot!NoFile => RemovedIn(attachment)
    BY DEF ReceiptsTrue, Boot!TypeOK
  <2> QED BY <1>2, <1>5, <2>1, <2>2 DEF Boot!Read, ReceiptsTrue, RemovedIn, Boot!TypeOK
<1>6. ASSUME NEW c \in Caller, NEW q \in Boot!Migrated, Boot!Attach(c, q) PROVE ReceiptsTrue'
  <2> DEFINE new == [copy[c] EXCEPT !.resources = @ \cup {q}]
  <2>1. new.receipts = copy[c].receipts
    BY DEF Boot!TypeOK, Boot!Attachment
  <2>2. CASE Boot!Write(c, new)
    BY <1>2, <1>4, <2>1, <2>2 DEF ReceiptsTrue, RemovedIn
  <2> QED BY <1>3, <1>6, <2>2 DEF Boot!Attach
<1>7. ASSUME NEW c \in Caller, NEW q \in Boot!Retained, Boot!Retain(c, q) PROVE ReceiptsTrue'
  <2> DEFINE new == [copy[c] EXCEPT !.retained = @ \cup {q}]
  <2>1. new.receipts = copy[c].receipts
    BY DEF Boot!TypeOK, Boot!Attachment
  <2>2. CASE Boot!Write(c, new)
    BY <1>2, <1>4, <2>1, <2>2 DEF ReceiptsTrue, RemovedIn
  <2> QED BY <1>3, <1>7, <2>2 DEF Boot!Retain
<1>8. ASSUME NEW c \in Caller, Boot!Plan(c) PROVE ReceiptsTrue'
  <2> DEFINE ineligible == {r \in copy[c].resources : git[r] # "absent" /\ ~Boot!Removable(r)}
             new == [copy[c] EXCEPT !.receipts = [r \in Boot!Migrated |-> IF r \in ineligible THEN "blocked" ELSE @[r]]]
  <2>1. \A r \in Boot!Migrated : new.receipts[r] = IF r \in ineligible THEN "blocked" ELSE copy[c].receipts[r]
    BY DEF Boot!TypeOK, Boot!Attachment
  <2>2. CASE Boot!Write(c, new)
    <3>1. "blocked" \notin Boot!Terminal
      BY DEF Boot!Terminal
    <3> HIDE DEF new, ineligible
    <3>2. \A r \in Boot!Migrated : new.receipts[r] \in Boot!Terminal => git'[r] = "absent"
      BY <1>2, <2>1, <3>1 DEF ReceiptsTrue, RemovedIn
    <3> QED BY <1>4, <2>2, <3>2
  <2> QED BY <1>3, <1>8, <2>2 DEF Boot!Plan
<1>9. ASSUME NEW c \in Caller, Boot!Inspect(c) PROVE ReceiptsTrue'
  <2> DEFINE u == Boot!Upcoming(c)
             new(status) == [copy[c] EXCEPT !.receipts[u] = status]
  <2>1. u \in Boot!Migrated
    BY DEF Boot!Upcoming, Boot!Migrated
  <2>2. \A status : \A r \in Boot!Migrated :
            new(status).receipts[r] = IF r = u THEN status ELSE copy[c].receipts[r]
    BY <2>1 DEF Boot!TypeOK, Boot!Attachment
  <2>3. ASSUME NEW status, Boot!Write(c, new(status)), status \in Boot!Terminal => git'[u] = "absent" PROVE ReceiptsTrue'
    <3> HIDE DEF u, new
    <3>1. \A r \in Boot!Migrated : new(status).receipts[r] \in Boot!Terminal => git'[r] = "absent"
      BY <1>2, <2>2, <2>3 DEF ReceiptsTrue, RemovedIn
    <3> QED BY <1>4, <2>3, <3>1
  <2> HIDE DEF u, new
  <2>4. \/ UNCHANGED <<attachment, copy>>
        \/ Boot!Write(c, new("started"))
        \/ Boot!Write(c, new("already-completed")) /\ git[u] = "absent"
        \/ Boot!Write(c, new("blocked"))
    BY <1>9 DEF Boot!Inspect, Boot!WriteReceipt, u, new
  <2>5. "started" \notin Boot!Terminal /\ "blocked" \notin Boot!Terminal
    BY DEF Boot!Terminal
  <2> QED BY <1>2, <1>3, <2>1, <2>3, <2>4, <2>5
<1>10. ASSUME NEW c \in Caller, Boot!Remove(c) PROVE ReceiptsTrue'
  <2> DEFINE u == Boot!Upcoming(c)
  <2>1. u \in Boot!Migrated
    BY DEF Boot!Upcoming, Boot!Migrated
  <2>2. UNCHANGED attachment /\ \A d \in Caller \ {c} : copy'[d] = copy[d]
    BY <1>10 DEF Boot!Remove, Boot!TypeOK
  <2>3. \A r \in Boot!Migrated : copy'[c].receipts[r] =
            IF r = u THEN IF git'[u] = "absent" /\ copy'[c].receipts[u] = "completed" THEN "completed" ELSE "blocked"
            ELSE copy[c].receipts[r]
    BY <1>10, <2>1 DEF Boot!Remove, Boot!TypeOK, Boot!Attachment, Boot!Migrated
  <2>4. "blocked" \notin Boot!Terminal
    BY DEF Boot!Terminal
  <2>5. RemovedIn(copy[c])'
    BY <1>2, <2>3, <2>4 DEF ReceiptsTrue, RemovedIn
  <2> QED BY <1>2, <2>2, <2>5 DEF ReceiptsTrue, RemovedIn
<1>11. ASSUME NEW c \in Caller, Boot!Finish(c) PROVE ReceiptsTrue'
  BY <1>2, <1>11 DEF Boot!Finish, ReceiptsTrue, RemovedIn
<1> QED
  BY <1>3, <1>5, <1>6, <1>7, <1>8, <1>9, <1>10, <1>11
     DEF Boot!Next, Boot!Change, Boot!Kill, Boot!Close, Boot!callerVars, bootVars

\* The type and the truth of every receipt are invariants.
LEMMA BootInvariant == MCSpec => []BootInv
<1>1. MCInit => BootInv
  <2>1. MCInit => Boot!TypeOK
    <3>1. Boot!Empty \in Boot!Attachment
      BY DEF Boot!Empty, Boot!Attachment, Boot!Migrated, Boot!Receipt
    <3> QED BY <3>1 DEF MCInit, Boot!Init, Boot!TypeOK
  <2>2. \A r \in Boot!Migrated : Boot!Empty.receipts[r] \notin Boot!Terminal
    BY DEF Boot!Empty, Boot!Migrated, Boot!Terminal
  <2>3. Boot!NoFile \notin Boot!Attachment
    BY DEF Boot!NoFile, Boot!Attachment
  <2> QED BY <2>1, <2>2, <2>3 DEF MCInit, Boot!Init, BootInv, ReceiptsTrue, RemovedIn
<1>2. BootInv /\ [MCNext]_mcVars => BootInv'
  BY StepOfComponents, BootTypeStep, ReceiptsStep DEF BootInv
<1> QED BY <1>1, <1>2, PTL DEF MCSpec

\* A bootstrap run is closed only when everything that its binding migrates is
\* gone, whichever callers overwrite each other's attachment
\* (bootstrapAttachmentTerminal, writeAttachment).
THEOREM ClosedWhenCleanCorrect == MCSpec => ClosedWhenClean
<1> DEFINE Clean == ~closed /\ closed' => \A r \in Boot!Migrated : git[r] = "absent"
<1>1. BootInv /\ [MCNext]_mcVars => [Clean]_(Boot!vars)
  <2> SUFFICES ASSUME BootInv, [Boot!Next]_bootVars, ~closed, closed', NEW r \in Boot!Migrated
               PROVE git[r] = "absent"
    BY StepOfComponents
  <2>1. Boot!Close
    BY DEF Boot!Next, Boot!Change, Boot!Read, Boot!Attach, Boot!Retain, Boot!Plan, Boot!Inspect, Boot!Remove,
       Boot!Finish, Boot!Kill, bootVars
  <2>2. attachment \in Boot!Attachment /\ attachment.receipts[r] \in Boot!Terminal
    BY <2>1 DEF Boot!Close, BootInv, Boot!TypeOK
  <2> QED BY <2>2 DEF BootInv, ReceiptsTrue, RemovedIn
<1> QED BY <1>1, BootInvariant, PTL DEF MCSpec, ClosedWhenClean, Boot!ClosedWhenClean

(***************************************************************************)
(* The installed runtime.  A command goes on from its version's directory  *)
(* only when it is whole or people touched it, and nothing but people      *)
(* makes it less.  While one command at a time has the history open, the   *)
(* history in installed.json and that of the activations differ by the     *)
(* entry that the command has still to write.                              *)
(***************************************************************************)
Sound(v) == directory[v] = "whole" \/ v \in meddled

SoundCall(p) == calls[p].at \in {"append", "write", "activate", "verify", "run"} => Sound(calls[p].version)

SoundInv ==
    /\ \A v \in Version : directory[v] # "absent" => Sound(v)
    /\ active # None => Sound(active)
    /\ \A p \in Operator : SoundCall(p)

\* What a command that has the history open knows of it.
Follows(p) ==
    /\ calls[p].at = "choose" => calls[p].read = trail /\ installed = trail
    /\ Runtime!At(p, "install", "write") => calls[p].read = trail /\ installed = trail
    /\ Runtime!At(p, "install", "activate") => installed = Append(trail, calls[p].version)
    /\ Runtime!At(p, "rollback", "activate") =>
           installed = trail /\ calls[p].version \in Runtime!PreviousOf(trail, active)
    /\ Runtime!At(p, "rollback", "append") => trail = Append(installed, calls[p].version)
    /\ Runtime!At(p, "rollback", "write") =>
           calls[p].read = installed /\ trail = Append(installed, calls[p].version)

HistoryInv ==
    ~disturbed =>
        /\ \A p, q \in Operator : Runtime!Open(p) /\ Runtime!Open(q) => p = q
        /\ \A p \in Operator : Runtime!Open(p) => Follows(p)
        /\ (\A p \in Operator : ~Runtime!Open(p)) => installed = trail

RuntimeInv == Runtime!TypeOK /\ SoundInv /\ HistoryInv

Becomes(p, kind, version, read, at) ==
    calls' = [calls EXCEPT ![p] = [kind |-> kind, version |-> version, read |-> read, at |-> at]]

\* A call and its moves, field by field.
LEMMA CallForm ==
  ASSUME Runtime!TypeOK, NEW p \in Operator, calls[p] # Runtime!Idle
  PROVE  /\ calls[p].kind \in {"install", "rollback", "launch"} /\ calls[p].at \in Runtime!Points[calls[p].kind]
         /\ calls[p].version \in Version \cup {None} /\ calls[p].read \in Seq(Version)
         /\ calls[p].at # "choose" => calls[p].version \in Version
         /\ \A at : Runtime!Go(p, at) => Becomes(p, calls[p].kind, calls[p].version, calls[p].read, at)
         /\ \A at : Runtime!Forget(p, at) => Becomes(p, calls[p].kind, calls[p].version, <<>>, at)
<1>1. /\ calls \in [Operator -> Runtime!Call] /\ calls[p].at \in Runtime!Points[calls[p].kind]
      /\ calls[p].at # "choose" => calls[p].version \in Version
  BY DEF Runtime!TypeOK
<1>2. calls[p] \in [kind : DOMAIN Runtime!Points, version : Version \cup {None}, read : Seq(Version),
                    at : UNION {Runtime!Points[kind] : kind \in DOMAIN Runtime!Points}]
  BY <1>1 DEF Runtime!Call
<1>3. DOMAIN Runtime!Points = {"install", "rollback", "launch"}
  BY DEF Runtime!Points
<1>4. \A at : Runtime!Go(p, at) => Becomes(p, calls[p].kind, calls[p].version, calls[p].read, at)
  BY <1>1, <1>2 DEF Runtime!Go, Becomes
<1>5. \A at : Runtime!Forget(p, at) => Becomes(p, calls[p].kind, calls[p].version, <<>>, at)
  BY <1>1, <1>2 DEF Runtime!Forget, Becomes
<1> QED BY <1>1, <1>2, <1>3, <1>4, <1>5

LEMMA PointsFacts ==
  /\ Runtime!Points["install"] = {"skills", "promote", "rename", "append", "write", "activate"}
  /\ Runtime!Points["rollback"] = {"choose", "activate", "append", "write"}
  /\ Runtime!Points["launch"] = {"verify", "run"}
BY DEF Runtime!Points

\* A call ends or goes on with values of the right types.
Moved(p) ==
    \/ Runtime!Quit(p)
    \/ \E kind \in {"install", "rollback", "launch"} : \E at \in Runtime!Points[kind],
          version \in Version \cup {None}, read \in Seq(Version) :
              Becomes(p, kind, version, read, at) /\ (at # "choose" => version \in Version)

LEMMA CallsTyped ==
  ASSUME Runtime!TypeOK, NEW p \in Operator, Moved(p)
  PROVE  /\ calls' \in [Operator -> Runtime!Call]
         /\ \A q \in Operator : calls'[q] # Runtime!Idle =>
                /\ calls'[q].at \in Runtime!Points[calls'[q].kind]
                /\ calls'[q].at # "choose" => calls'[q].version \in Version
         /\ \A q \in Operator \ {p} : calls'[q] = calls[q]
<1>1. calls \in [Operator -> Runtime!Call]
  BY DEF Runtime!TypeOK
<1>2. ASSUME NEW c \in Runtime!Call, calls' = [calls EXCEPT ![p] = c],
             c # Runtime!Idle => c.at \in Runtime!Points[c.kind] /\ (c.at # "choose" => c.version \in Version)
      PROVE  /\ calls' \in [Operator -> Runtime!Call]
             /\ \A q \in Operator : calls'[q] # Runtime!Idle =>
                    /\ calls'[q].at \in Runtime!Points[calls'[q].kind]
                    /\ calls'[q].at # "choose" => calls'[q].version \in Version
             /\ \A q \in Operator \ {p} : calls'[q] = calls[q]
  BY <1>1, <1>2 DEF Runtime!TypeOK
<1>3. CASE Runtime!Quit(p)
  <2>1. Runtime!Idle \in Runtime!Call /\ calls' = [calls EXCEPT ![p] = Runtime!Idle]
    BY <1>3 DEF Runtime!Call, Runtime!Quit
  <2> QED BY <1>2, <2>1
<1>4. ASSUME NEW kind \in {"install", "rollback", "launch"}, NEW at \in Runtime!Points[kind],
             NEW version \in Version \cup {None}, NEW read \in Seq(Version),
             Becomes(p, kind, version, read, at), at # "choose" => version \in Version
      PROVE  \E c \in Runtime!Call : /\ calls' = [calls EXCEPT ![p] = c]
                                     /\ c.at \in Runtime!Points[c.kind] /\ (c.at # "choose" => c.version \in Version)
  <2> DEFINE c == [kind |-> kind, version |-> version, read |-> read, at |-> at]
  <2>1. DOMAIN Runtime!Points = {"install", "rollback", "launch"}
    BY DEF Runtime!Points
  <2>2. at \in UNION {Runtime!Points[k] : k \in DOMAIN Runtime!Points}
    BY <2>1
  <2>3. c \in Runtime!Call
    BY <2>1, <2>2 DEF Runtime!Call
  <2>4. calls' = [calls EXCEPT ![p] = c] /\ c.at = at /\ c.kind = kind /\ c.version = version
    BY <1>4 DEF Becomes
  <2> HIDE DEF c
  <2> QED BY <1>4, <2>3, <2>4
<1> QED BY <1>2, <1>3, <1>4 DEF Moved

\* The moves of a command, each to a point of its kind.
LEMMA RuntimeForms ==
  ASSUME Runtime!TypeOK, NEW p \in Operator
  PROVE  /\ \A v \in Version : Runtime!Install(p, v) =>
                \E at \in {"skills", "promote"} : Becomes(p, "install", v, <<>>, at)
         /\ Runtime!InstallSkills(p) =>
                Runtime!Quit(p) \/ Becomes(p, "install", calls[p].version, calls[p].read, "promote")
         /\ Runtime!Promote(p) \/ Runtime!Rename(p) =>
                Runtime!Quit(p) \/ \E at \in {"rename", "append"} :
                                      Becomes(p, "install", calls[p].version, calls[p].read, at)
         /\ Runtime!ReadHistory(p) => Becomes(p, calls[p].kind, calls[p].version, installed, "write")
         /\ Runtime!WriteHistory(p) =>
                \/ calls[p].kind = "install" /\ Becomes(p, "install", calls[p].version, <<>>, "activate")
                \/ calls[p].kind = "rollback" /\ Runtime!Quit(p)
         /\ Runtime!Activate(p) =>
                \/ calls[p].kind = "install" /\ Runtime!Quit(p)
                \/ calls[p].kind = "rollback" /\ Becomes(p, "rollback", calls[p].version, calls[p].read, "append")
         /\ Runtime!Rollback(p) => Becomes(p, "rollback", None, installed, "choose")
         /\ Runtime!Choose(p) =>
                Runtime!Quit(p) \/ \E v \in Runtime!PreviousOf(calls[p].read, active) :
                                      directory[v] = "whole" /\ Becomes(p, "rollback", v, <<>>, "activate")
         /\ Runtime!Launch(p) => Becomes(p, "launch", active, <<>>, "verify")
         /\ Runtime!VerifyContent(p) =>
                Runtime!Quit(p) \/ Becomes(p, "launch", calls[p].version, calls[p].read, "run")
<1> USE PointsFacts
<1>1. \A v \in Version : Runtime!Install(p, v) => \E at \in {"skills", "promote"} : Becomes(p, "install", v, <<>>, at)
  BY DEF Runtime!Install, Becomes
<1>2. Runtime!InstallSkills(p) =>
          Runtime!Quit(p) \/ Becomes(p, "install", calls[p].version, calls[p].read, "promote")
  BY CallForm DEF Runtime!InstallSkills, Runtime!At, Runtime!Idle
<1>3. Runtime!Promote(p) \/ Runtime!Rename(p) =>
          Runtime!Quit(p) \/ \E at \in {"rename", "append"} :
                                Becomes(p, "install", calls[p].version, calls[p].read, at)
  BY CallForm DEF Runtime!Promote, Runtime!Rename, Runtime!At, Runtime!Idle
<1>4. Runtime!ReadHistory(p) => Becomes(p, calls[p].kind, calls[p].version, installed, "write")
  <2> SUFFICES ASSUME Runtime!ReadHistory(p) PROVE Becomes(p, calls[p].kind, calls[p].version, installed, "write")
    OBVIOUS
  <2>1. calls[p] # Runtime!Idle /\ calls \in [Operator -> Runtime!Call]
    BY DEF Runtime!ReadHistory, Runtime!Idle, Runtime!TypeOK
  <2>2. calls[p] \in [kind : DOMAIN Runtime!Points, version : Version \cup {None}, read : Seq(Version),
                      at : UNION {Runtime!Points[kind] : kind \in DOMAIN Runtime!Points}]
    BY <2>1 DEF Runtime!Call
  <2> QED BY <2>1, <2>2 DEF Runtime!ReadHistory, Becomes
<1>5. Runtime!WriteHistory(p) =>
          \/ calls[p].kind = "install" /\ Becomes(p, "install", calls[p].version, <<>>, "activate")
          \/ calls[p].kind = "rollback" /\ Runtime!Quit(p)
  BY CallForm DEF Runtime!WriteHistory, Runtime!Idle
<1>6. Runtime!Activate(p) =>
          \/ calls[p].kind = "install" /\ Runtime!Quit(p)
          \/ calls[p].kind = "rollback" /\ Becomes(p, "rollback", calls[p].version, calls[p].read, "append")
  BY CallForm DEF Runtime!Activate, Runtime!Idle
<1>7. Runtime!Rollback(p) => Becomes(p, "rollback", None, installed, "choose")
  BY DEF Runtime!Rollback, Becomes
<1>8. Runtime!Choose(p) =>
          Runtime!Quit(p) \/ \E v \in Runtime!PreviousOf(calls[p].read, active) :
                                directory[v] = "whole" /\ Becomes(p, "rollback", v, <<>>, "activate")
  BY DEF Runtime!Choose, Becomes
<1>9. Runtime!Launch(p) => Becomes(p, "launch", active, <<>>, "verify")
  BY DEF Runtime!Launch, Becomes
<1>10. Runtime!VerifyContent(p) =>
           Runtime!Quit(p) \/ Becomes(p, "launch", calls[p].version, calls[p].read, "run")
  BY CallForm DEF Runtime!VerifyContent, Runtime!At, Runtime!Idle
<1> QED BY <1>1, <1>2, <1>3, <1>4, <1>5, <1>6, <1>7, <1>8, <1>9, <1>10

\* A step is one of a command or of people.
RuntimeMoves(p) ==
    \/ \E v \in Version : Runtime!Install(p, v)
    \/ Runtime!InstallSkills(p) \/ Runtime!Promote(p) \/ Runtime!Rename(p)
    \/ Runtime!ReadHistory(p) \/ Runtime!WriteHistory(p) \/ Runtime!Activate(p)
    \/ Runtime!Rollback(p) \/ Runtime!Choose(p)
    \/ Runtime!Launch(p) \/ Runtime!VerifyContent(p) \/ Runtime!Run(p) \/ Runtime!Stop(p)

\* What the commands leave alone.
LEMMA CommandsKeep ==
  ASSUME NEW p \in Operator, RuntimeMoves(p)
  PROVE  /\ meddled' = meddled
         /\ directory' = directory \/ Runtime!Rename(p)
         /\ installed' = installed \/ Runtime!WriteHistory(p)
         /\ UNCHANGED <<active, trail>> \/ Runtime!Activate(p)
         /\ disturbed' = disturbed \/ disturbed' \in BOOLEAN
<1>1. ASSUME NEW v \in Version, Runtime!Install(p, v)
      PROVE  UNCHANGED <<directory, installed, active, trail, disturbed, meddled>>
  BY <1>1 DEF Runtime!Install
<1>2. Runtime!InstallSkills(p) \/ Runtime!Promote(p) \/ Runtime!Choose(p) \/ Runtime!Launch(p)
        \/ Runtime!VerifyContent(p) \/ Runtime!Run(p)
      => UNCHANGED <<directory, installed, active, trail, disturbed, meddled>>
  BY DEF Runtime!InstallSkills, Runtime!Promote, Runtime!Choose, Runtime!Launch, Runtime!VerifyContent, Runtime!Run
<1>3. Runtime!Rename(p) => UNCHANGED <<installed, active, trail, disturbed, meddled>>
  BY DEF Runtime!Rename
<1>4. Runtime!WriteHistory(p) => UNCHANGED <<directory, active, trail, disturbed, meddled>>
  BY DEF Runtime!WriteHistory
<1>5. Runtime!Activate(p) => UNCHANGED <<directory, installed, disturbed, meddled>>
  BY DEF Runtime!Activate
<1>6. Runtime!ReadHistory(p) \/ Runtime!Rollback(p) \/ Runtime!Stop(p) =>
          UNCHANGED <<directory, installed, active, trail, meddled>> /\ (disturbed' = disturbed \/ disturbed' \in BOOLEAN)
  BY DEF Runtime!ReadHistory, Runtime!Rollback, Runtime!Stop, Runtime!Opens
<1> QED BY <1>1, <1>2, <1>3, <1>4, <1>5, <1>6 DEF RuntimeMoves

LEMMA PreviousIn ==
  ASSUME NEW log \in Seq(Version), NEW now, NEW v \in Runtime!PreviousOf(log, now)
  PROVE  v \in Version
BY DEF Runtime!PreviousOf

LEMMA CallsMove == ASSUME Runtime!TypeOK, NEW p \in Operator, RuntimeMoves(p) PROVE Moved(p)
<1>0. installed \in Seq(Version) /\ active \in Version \cup {None} /\ <<>> \in Seq(Version)
  BY DEF Runtime!TypeOK
<1>1. CASE Runtime!Quit(p)
  BY <1>1 DEF Moved
<1>2. ASSUME NEW kind \in {"install", "rollback", "launch"}, NEW at \in Runtime!Points[kind],
             NEW version \in Version, NEW read \in Seq(Version), Becomes(p, kind, version, read, at)
      PROVE  Moved(p)
  BY <1>2 DEF Moved
<1>3. ASSUME calls[p] # Runtime!Idle, calls[p].at # "choose", NEW read \in Seq(Version) \cup {calls[p].read},
             NEW at \in Runtime!Points[calls[p].kind], Becomes(p, calls[p].kind, calls[p].version, read, at)
      PROVE  Moved(p)
  BY <1>2, <1>3, CallForm
<1>4. ASSUME NEW v \in Version, Runtime!Install(p, v) PROVE Moved(p)
  <2>1. PICK at \in {"skills", "promote"} : Becomes(p, "install", v, <<>>, at)
    BY <1>4 DEF Runtime!Install, Becomes
  <2>2. at \in Runtime!Points["install"]
    BY PointsFacts
  <2> QED BY <1>0, <1>2, <2>1, <2>2
<1>5. CASE Runtime!InstallSkills(p) \/ Runtime!Promote(p) \/ Runtime!Rename(p)
  <2>1. calls[p] # Runtime!Idle /\ calls[p].at # "choose" /\ calls[p].kind = "install"
    BY <1>5 DEF Runtime!InstallSkills, Runtime!Promote, Runtime!Rename, Runtime!At, Runtime!Idle
  <2>2. Runtime!Quit(p) \/ \E at \in {"promote", "rename", "append"} :
                              Becomes(p, calls[p].kind, calls[p].version, calls[p].read, at)
    BY <1>5, <2>1, RuntimeForms
  <2>3. {"promote", "rename", "append"} \subseteq Runtime!Points[calls[p].kind]
    BY <2>1, PointsFacts
  <2> QED BY <1>1, <1>3, <2>1, <2>2, <2>3
<1>6. CASE Runtime!ReadHistory(p) \/ Runtime!WriteHistory(p) \/ Runtime!Activate(p)
  <2>1. calls[p] # Runtime!Idle /\ calls[p].at \in {"append", "write", "activate"}
    BY <1>6 DEF Runtime!ReadHistory, Runtime!WriteHistory, Runtime!Activate, Runtime!Idle
  <2>2. calls[p].kind \in {"install", "rollback"}
    BY <2>1, CallForm, PointsFacts
  <2>3. {"append", "write", "activate"} \subseteq Runtime!Points[calls[p].kind]
    BY <2>2, PointsFacts
  <2>4. Runtime!Quit(p) \/ \E at \in {"append", "write", "activate"}, read \in {installed, <<>>, calls[p].read} :
                              Becomes(p, calls[p].kind, calls[p].version, read, at)
    BY <1>6, RuntimeForms
  <2> QED BY <1>0, <1>1, <1>3, <2>1, <2>3, <2>4
<1>7. CASE Runtime!Rollback(p)
  <2>1. Becomes(p, "rollback", None, installed, "choose")
    BY <1>7 DEF Runtime!Rollback, Becomes
  <2>2. "choose" \in Runtime!Points["rollback"]
    BY PointsFacts
  <2> QED BY <1>0, <2>1, <2>2 DEF Moved
<1>8. CASE Runtime!Choose(p)
  <2>1. calls[p] # Runtime!Idle
    BY <1>8 DEF Runtime!Choose, Runtime!At, Runtime!Idle
  <2>2. calls[p].read \in Seq(Version)
    BY <2>1, CallForm
  <2>3. Runtime!Quit(p) \/ \E v \in Version : Becomes(p, "rollback", v, <<>>, "activate")
    BY <1>8, <2>2, RuntimeForms, PreviousIn
  <2>4. "activate" \in Runtime!Points["rollback"]
    BY PointsFacts
  <2> QED BY <1>0, <1>1, <1>2, <2>3, <2>4
<1>9. CASE Runtime!Launch(p)
  <2>1. active \in Version /\ Becomes(p, "launch", active, <<>>, "verify")
    BY <1>0, <1>9 DEF Runtime!Launch, Becomes
  <2>2. "verify" \in Runtime!Points["launch"]
    BY PointsFacts
  <2> QED BY <1>0, <1>2, <2>1, <2>2
<1>10. CASE Runtime!VerifyContent(p)
  <2>1. calls[p] # Runtime!Idle /\ calls[p].at # "choose" /\ calls[p].kind = "launch"
    BY <1>10 DEF Runtime!VerifyContent, Runtime!At, Runtime!Idle
  <2>2. "run" \in Runtime!Points[calls[p].kind]
    BY <2>1, PointsFacts
  <2> QED BY <1>1, <1>3, <1>10, <2>1, <2>2, RuntimeForms
<1>11. CASE Runtime!Run(p) \/ Runtime!Stop(p)
  BY <1>1, <1>11 DEF Runtime!Run, Runtime!Stop
<1> QED BY <1>4, <1>5, <1>6, <1>7, <1>8, <1>9, <1>10, <1>11 DEF RuntimeMoves

LEMMA CallsStep ==
  ASSUME Runtime!TypeOK, NEW p \in Operator, RuntimeMoves(p)
  PROVE  /\ calls' \in [Operator -> Runtime!Call]
         /\ \A q \in Operator : calls'[q] # Runtime!Idle =>
                /\ calls'[q].at \in Runtime!Points[calls'[q].kind]
                /\ calls'[q].at # "choose" => calls'[q].version \in Version
         /\ \A q \in Operator \ {p} : calls'[q] = calls[q]
BY CallsMove, CallsTyped

LEMMA RuntimeTypeStep == ASSUME Runtime!TypeOK, [Runtime!Next]_runtimeVars PROVE Runtime!TypeOK'
<1> USE DEF Runtime!TypeOK
<1>0. ASSUME NEW p \in Operator, RuntimeMoves(p) PROVE Runtime!TypeOK'
  <2>1. /\ calls' \in [Operator -> Runtime!Call]
        /\ \A q \in Operator : calls'[q] # Runtime!Idle =>
               /\ calls'[q].at \in Runtime!Points[calls'[q].kind]
               /\ calls'[q].at # "choose" => calls'[q].version \in Version
    BY <1>0, CallsStep
  <2>2. directory' \in [Version -> {"absent", "whole", "damaged", "bare"}]
    BY <1>0, CommandsKeep DEF Runtime!Rename
  <2>3. installed' \in Seq(Version)
    <3>1. CASE Runtime!WriteHistory(p)
      <4>1. calls[p] # Runtime!Idle /\ calls[p].at # "choose"
        BY <3>1 DEF Runtime!WriteHistory, Runtime!Idle
      <4>2. calls[p].read \in Seq(Version) /\ calls[p].version \in Version
        BY <4>1, CallForm
      <4> QED BY <3>1, <4>2 DEF Runtime!WriteHistory
    <3> QED BY <1>0, <3>1, CommandsKeep
  <2>4. active' \in Version \cup {None} /\ trail' \in Seq(Version)
    <3>1. CASE Runtime!Activate(p)
      <4>1. calls[p] # Runtime!Idle /\ calls[p].at # "choose"
        BY <3>1 DEF Runtime!Activate, Runtime!Idle
      <4>2. calls[p].version \in Version
        BY <4>1, CallForm
      <4> QED BY <3>1, <4>2 DEF Runtime!Activate
    <3> QED BY <1>0, <3>1, CommandsKeep
  <2>5. disturbed' \in BOOLEAN /\ meddled' \subseteq Version
    BY <1>0, CommandsKeep
  <2> QED BY <2>1, <2>2, <2>3, <2>4, <2>5
<1>1. ASSUME NEW v \in Version, Runtime!Meddle(v) PROVE Runtime!TypeOK'
  BY <1>1 DEF Runtime!Meddle
<1>2. CASE UNCHANGED runtimeVars
  BY <1>2 DEF runtimeVars
<1> QED BY <1>0, <1>1, <1>2 DEF Runtime!Next, RuntimeMoves

\* No command makes a version less than it was.
LEMMA VersionsKept ==
  ASSUME Runtime!TypeOK, NEW p \in Operator, RuntimeMoves(p)
  PROVE  /\ meddled' = meddled /\ \A v \in Version : directory'[v] \in {directory[v], "whole"}
         /\ \A v \in Version : Sound(v) => Sound(v)'
<1>1. directory \in [Version -> {"absent", "whole", "damaged", "bare"}]
  BY DEF Runtime!TypeOK
<1>2. CASE Runtime!Rename(p)
  BY <1>1, <1>2 DEF Runtime!Rename, Sound
<1>3. CASE directory' = directory /\ meddled' = meddled
  BY <1>3, CommandsKeep DEF Sound
<1> QED BY <1>2, <1>3, CommandsKeep

\* The version of the call that moves.
LEMMA SoundMove ==
  ASSUME Runtime!TypeOK, SoundInv, NEW p \in Operator, RuntimeMoves(p)
  PROVE  SoundCall(p)'
<1> DEFINE Past == {"append", "write", "activate", "verify", "run"}
<1>0. /\ calls \in [Operator -> Runtime!Call] /\ active \in Version \cup {None}
      /\ directory \in [Version -> {"absent", "whole", "damaged", "bare"}]
  BY DEF Runtime!TypeOK
<1>1. CASE Runtime!Quit(p)
  BY <1>0, <1>1 DEF Runtime!Quit, Runtime!Idle, SoundCall
<1>2. ASSUME NEW kind, NEW v, NEW read, NEW at, Becomes(p, kind, v, read, at), at \in Past => Sound(v)'
      PROVE  SoundCall(p)'
  BY <1>0, <1>2 DEF Becomes, SoundCall, Sound
<1>3. ASSUME calls[p].at \in Past, NEW kind, NEW read, NEW at, Becomes(p, kind, calls[p].version, read, at)
      PROVE  SoundCall(p)'
  <2>1. calls[p].version \in Version
    BY <1>3 DEF Runtime!TypeOK, Runtime!Idle
  <2>2. Sound(calls[p].version)
    BY <1>3 DEF SoundInv, SoundCall
  <2> DEFINE v == calls[p].version
  <2>3. Becomes(p, kind, v, read, at) /\ (directory'[v] = "whole" \/ v \in meddled')
    BY <1>3, <2>1, <2>2, VersionsKept DEF Sound
  <2> HIDE DEF v
  <2> QED BY <1>0, <2>3 DEF Becomes, SoundCall, Sound
<1>4. ASSUME NEW v \in Version, Runtime!Install(p, v) PROVE SoundCall(p)'
  BY <1>2, <1>4, RuntimeForms
<1>5. CASE Runtime!InstallSkills(p)
  BY <1>1, <1>2, <1>5, RuntimeForms
<1>6. CASE Runtime!Promote(p) \/ Runtime!Rename(p)
  <2> DEFINE v == calls[p].version
  <2>1. calls[p] # Runtime!Idle /\ v \in Version
    BY <1>6 DEF Runtime!Promote, Runtime!Rename, Runtime!At, Runtime!Idle, Runtime!TypeOK
  <2>2. \/ Runtime!Quit(p)
        \/ Runtime!Go(p, "rename")
        \/ Runtime!Go(p, "append") /\ (directory'[v] = "whole" \/ (directory' = directory /\ directory[v] # "absent"))
    <3>1. CASE Runtime!Promote(p)
      BY <3>1 DEF Runtime!Promote
    <3>2. CASE Runtime!Rename(p)
      <4>1. \/ Runtime!Quit(p)
            \/ directory' = [directory EXCEPT ![v] = "whole"] /\ Runtime!Go(p, "append")
        BY <3>2 DEF Runtime!Rename
      <4> QED BY <1>0, <2>1, <4>1
    <3> QED BY <1>6, <3>1, <3>2
  <2>3. ASSUME directory'[v] = "whole" \/ (directory' = directory /\ directory[v] # "absent")
        PROVE  directory'[v] = "whole" \/ v \in meddled'
    BY <2>1, <2>3, VersionsKept DEF SoundInv, Sound
  <2>4. CASE Runtime!Go(p, "rename")
    BY <1>2, <2>1, <2>4, CallForm
  <2>5. ASSUME Runtime!Go(p, "append"), directory'[v] = "whole" \/ v \in meddled' PROVE SoundCall(p)'
    <3>1. Becomes(p, calls[p].kind, v, calls[p].read, "append")
      BY <2>1, <2>5, CallForm
    <3> HIDE DEF v
    <3> QED BY <1>0, <2>5, <3>1 DEF Becomes, SoundCall, Sound
  <2> QED BY <1>1, <2>2, <2>3, <2>4, <2>5
<1>7. CASE Runtime!ReadHistory(p)
  BY <1>3, <1>7, RuntimeForms DEF Runtime!ReadHistory
<1>8. CASE Runtime!WriteHistory(p)
  BY <1>1, <1>3, <1>8, RuntimeForms DEF Runtime!WriteHistory
<1>9. CASE Runtime!Activate(p)
  BY <1>1, <1>3, <1>9, RuntimeForms DEF Runtime!Activate
<1>10. CASE Runtime!Rollback(p)
  BY <1>2, <1>10, RuntimeForms
<1>11. CASE Runtime!Choose(p)
  <2>1. ASSUME NEW v, directory[v] = "whole", Becomes(p, "rollback", v, <<>>, "activate") PROVE SoundCall(p)'
    <3>1. directory'[v] = "whole"
      BY <1>11, <2>1 DEF Runtime!Choose
    <3> QED BY <1>0, <2>1, <3>1 DEF Becomes, SoundCall, Sound
  <2> QED BY <1>1, <1>11, <2>1, RuntimeForms
<1>12. CASE Runtime!Launch(p)
  <2>1. Becomes(p, "launch", active, <<>>, "verify") /\ active # None /\ UNCHANGED <<directory, meddled>>
    BY <1>12, RuntimeForms DEF Runtime!Launch
  <2>2. Sound(active)
    BY <2>1 DEF SoundInv
  <2> QED BY <1>0, <2>1, <2>2 DEF Becomes, SoundCall, Sound
<1>13. CASE Runtime!VerifyContent(p)
  BY <1>1, <1>3, <1>13, RuntimeForms DEF Runtime!VerifyContent, Runtime!At
<1>14. CASE Runtime!Run(p) \/ Runtime!Stop(p)
  BY <1>1, <1>14 DEF Runtime!Run, Runtime!Stop
<1> QED
  BY <1>4, <1>5, <1>6, <1>7, <1>8, <1>9, <1>10, <1>11, <1>12, <1>13, <1>14 DEF RuntimeMoves

LEMMA SoundStep ==
  ASSUME Runtime!TypeOK, SoundInv, [Runtime!Next]_runtimeVars
  PROVE  SoundInv'
<1>0. /\ calls \in [Operator -> Runtime!Call] /\ active \in Version \cup {None}
      /\ directory \in [Version -> {"absent", "whole", "damaged", "bare"}]
  BY DEF Runtime!TypeOK
<1>A. ASSUME NEW q \in Operator, calls[q].at \in {"append", "write", "activate", "verify", "run"}
      PROVE  calls[q].version \in Version
  <2>1. calls[q] # Runtime!Idle /\ calls[q].at # "choose"
    BY <1>A DEF Runtime!Idle
  <2> QED BY <2>1, CallForm
<1>1. ASSUME NEW p \in Operator, RuntimeMoves(p) PROVE SoundInv'
  <2>1. \A v \in Version : directory'[v] # "absent" => Sound(v)'
    BY <1>0, <1>1, VersionsKept DEF SoundInv, Sound
  <2>2. active' # None => Sound(active)'
    <3>1. CASE active' = active
      BY <1>0, <1>1, <3>1, VersionsKept DEF SoundInv, Sound
    <3>2. CASE Runtime!Activate(p)
      BY <1>0, <1>A, <3>2 DEF Runtime!Activate, SoundInv, SoundCall, Sound
    <3> QED BY <1>1, <3>1, <3>2, CommandsKeep
  <2>3. ASSUME NEW q \in Operator \ {p} PROVE SoundCall(q)'
    <3>1. calls'[q] = calls[q]
      BY <1>1, CallsStep
    <3> QED BY <1>0, <1>A, <1>1, <3>1, VersionsKept DEF SoundInv, SoundCall, Sound
  <2>4. SoundCall(p)'
    BY <1>1, SoundMove
  <2> QED BY <2>1, <2>2, <2>3, <2>4 DEF SoundInv
<1>2. ASSUME NEW v \in Version, Runtime!Meddle(v) PROVE SoundInv'
  BY <1>0, <1>2 DEF Runtime!Meddle, SoundInv, SoundCall, Sound
<1>3. CASE UNCHANGED runtimeVars
  BY <1>3 DEF runtimeVars, SoundInv, SoundCall, Sound
<1> QED BY <1>1, <1>2, <1>3 DEF Runtime!Next, RuntimeMoves

\* The command that has the history open is the only one.
LEMMA OpenAlone ==
  ASSUME HistoryInv, ~disturbed, NEW p \in Operator, Runtime!Open(p)
  PROVE  Follows(p) /\ \A q \in Operator \ {p} : ~Runtime!Open(q)
BY DEF HistoryInv

\* A command moves outside of the history, or as the only one inside.
LEMMA HistoryMove ==
  ASSUME Runtime!TypeOK, HistoryInv, ~disturbed, NEW p \in Operator, RuntimeMoves(p),
         \/ ~Runtime!Open(p) /\ ~Runtime!Open(p)' /\ UNCHANGED <<installed, active, trail>>
         \/ /\ \A q \in Operator \ {p} : ~Runtime!Open(q)
            /\ Runtime!Open(p)' => Follows(p)'
            /\ Runtime!Open(p)' \/ installed' = trail'
  PROVE  HistoryInv'
<1>1. ASSUME NEW q \in Operator \ {p} PROVE Runtime!Open(q)' <=> Runtime!Open(q)
  <2>1. calls'[q] = calls[q]
    BY CallsStep
  <2> QED BY <2>1 DEF Runtime!Open, Runtime!At
<1>2. CASE ~Runtime!Open(p) /\ ~Runtime!Open(p)' /\ UNCHANGED <<installed, active, trail>>
  <2>1. ASSUME NEW q \in Operator, Runtime!Open(q)' PROVE Runtime!Open(q) /\ Follows(q)'
    <3>1. q # p
      BY <1>2, <2>1
    <3>2. Runtime!Open(q) /\ calls'[q] = calls[q]
      BY <1>1, <2>1, <3>1, CallsStep
    <3>3. Follows(q)
      BY <3>2, OpenAlone
    <3> QED BY <1>2, <3>2, <3>3 DEF Follows, Runtime!At
  <2>2. ASSUME \A q \in Operator : ~Runtime!Open(q)' PROVE installed' = trail'
    <3>1. \A q \in Operator : ~Runtime!Open(q)
      BY <1>1, <1>2, <2>2
    <3> QED BY <1>2, <3>1 DEF HistoryInv
  <2>3. ASSUME NEW q \in Operator, NEW r \in Operator, Runtime!Open(q)', Runtime!Open(r)' PROVE q = r
    BY <2>1, <2>3 DEF HistoryInv
  <2> QED BY <2>1, <2>2, <2>3 DEF HistoryInv
<1>3. CASE /\ \A q \in Operator \ {p} : ~Runtime!Open(q)
           /\ Runtime!Open(p)' => Follows(p)'
           /\ Runtime!Open(p)' \/ installed' = trail'
  <2>1. \A q \in Operator : Runtime!Open(q)' => q = p
    BY <1>1, <1>3
  <2> QED BY <1>3, <2>1 DEF HistoryInv
<1> QED BY <1>2, <1>3

LEMMA HistoryStep ==
  ASSUME Runtime!TypeOK, HistoryInv, [Runtime!Next]_runtimeVars
  PROVE  HistoryInv'
<1>0. calls \in [Operator -> Runtime!Call]
  BY DEF Runtime!TypeOK
<1>1. ASSUME NEW p \in Operator, RuntimeMoves(p) PROVE HistoryInv'
  <2>1. ~disturbed' => ~disturbed
    BY <1>1 DEF RuntimeMoves, Runtime!Install, Runtime!InstallSkills, Runtime!Promote, Runtime!Rename, Runtime!ReadHistory,
                Runtime!WriteHistory, Runtime!Activate, Runtime!Rollback, Runtime!Choose, Runtime!Launch,
                Runtime!VerifyContent, Runtime!Run, Runtime!Stop, Runtime!Opens
  <2> SUFFICES ASSUME ~disturbed, ~disturbed' PROVE HistoryInv'
    BY <2>1 DEF HistoryInv
  <2>A. ASSUME Runtime!Quit(p) PROVE ~Runtime!Open(p)'
    BY <1>0, <2>A DEF Runtime!Quit, Runtime!Idle, Runtime!Open, Runtime!At
  <2>B. ASSUME NEW kind, NEW version, NEW read, NEW at, Becomes(p, kind, version, read, at)
        PROVE  calls'[p] = [kind |-> kind, version |-> version, read |-> read, at |-> at]
    BY <1>0, <2>B DEF Becomes
  <2>C. ASSUME NEW kind, NEW version, NEW read, NEW at, Becomes(p, kind, version, read, at),
               at \notin {"choose", "write", "activate", "append"} \/ (kind = "install" /\ at = "append")
        PROVE  ~Runtime!Open(p)'
    <3>1. calls'[p].at = at /\ calls'[p].kind = kind
      BY <1>0, <2>C DEF Becomes
    <3> QED BY <2>C, <3>1 DEF Runtime!Open, Runtime!At
  <2>2. ASSUME NEW v \in Version, Runtime!Install(p, v) PROVE HistoryInv'
    <3>1. ~Runtime!Open(p) /\ UNCHANGED <<installed, active, trail>>
      BY <2>2 DEF Runtime!Install, Runtime!Idle, Runtime!Open, Runtime!At
    <3>2. ~Runtime!Open(p)'
      BY <2>C, <2>2, RuntimeForms
    <3> QED BY <1>1, <3>1, <3>2, HistoryMove
  <2>3. CASE Runtime!InstallSkills(p) \/ Runtime!Promote(p) \/ Runtime!Rename(p)
    <3>1. ~Runtime!Open(p) /\ UNCHANGED <<installed, active, trail>>
      BY <2>3 DEF Runtime!InstallSkills, Runtime!Promote, Runtime!Rename, Runtime!Open, Runtime!At
    <3>2. ~Runtime!Open(p)'
      BY <2>A, <2>C, <2>3, RuntimeForms
    <3> QED BY <1>1, <3>1, <3>2, HistoryMove
  <2>4. CASE Runtime!Launch(p) \/ Runtime!VerifyContent(p) \/ Runtime!Run(p)
    <3>1. ~Runtime!Open(p) /\ UNCHANGED <<installed, active, trail>>
      BY <2>4 DEF Runtime!Launch, Runtime!VerifyContent, Runtime!Run, Runtime!Idle, Runtime!Open, Runtime!At
    <3>2. ~Runtime!Open(p)'
      <4>1. Runtime!Run(p) => Runtime!Quit(p)
        BY DEF Runtime!Run
      <4> QED BY <2>A, <2>C, <2>4, <4>1, RuntimeForms
    <3> QED BY <1>1, <3>1, <3>2, HistoryMove
  <2>5. CASE Runtime!ReadHistory(p)
    <3>1. /\ calls'[p] = [kind |-> calls[p].kind, version |-> calls[p].version, read |-> installed, at |-> "write"]
          /\ UNCHANGED <<installed, active, trail>> /\ calls[p].at = "append"
      <4>1. Becomes(p, calls[p].kind, calls[p].version, installed, "write")
        BY <2>5, RuntimeForms
      <4>2. UNCHANGED <<installed, active, trail>> /\ calls[p].at = "append"
        BY <2>5 DEF Runtime!ReadHistory
      <4> QED BY <2>B, <4>1, <4>2
    <3>2. calls[p].kind \in {"install", "rollback"}
      <4>1. calls[p] # Runtime!Idle
        BY <3>1 DEF Runtime!Idle
      <4> QED BY <3>1, <4>1, CallForm, PointsFacts
    <3>3. CASE calls[p].kind = "install"
      <4>1. ~Runtime!Open(p) /\ \A q \in Operator \ {p} : ~Runtime!Open(q)
        BY <2>5, <3>1, <3>3 DEF Runtime!ReadHistory, Runtime!Opens, Runtime!Open, Runtime!At
      <4>2. installed = trail
        BY <4>1 DEF HistoryInv
      <4>3. Follows(p)'
        BY <3>1, <3>3, <4>2 DEF Follows, Runtime!At
      <4> QED BY <1>1, <3>1, <4>1, <4>2, <4>3, HistoryMove
    <3>4. CASE calls[p].kind = "rollback"
      <4>1. Runtime!Open(p)
        BY <3>1, <3>4 DEF Runtime!Open, Runtime!At
      <4>2. Follows(p) /\ \A q \in Operator \ {p} : ~Runtime!Open(q)
        BY <4>1, OpenAlone
      <4>3. Follows(p)' /\ Runtime!Open(p)'
        BY <3>1, <3>4, <4>2 DEF Follows, Runtime!Open, Runtime!At
      <4> QED BY <1>1, <4>2, <4>3, HistoryMove
    <3> QED BY <3>2, <3>3, <3>4
  <2>6. CASE Runtime!WriteHistory(p)
    <3>1. calls[p].at = "write" /\ installed' = Append(calls[p].read, calls[p].version) /\ UNCHANGED <<active, trail>>
      BY <2>6 DEF Runtime!WriteHistory
    <3>2. Runtime!Open(p)
      BY <3>1 DEF Runtime!Open
    <3>3. Follows(p) /\ \A q \in Operator \ {p} : ~Runtime!Open(q)
      BY <3>2, OpenAlone
    <3>4. CASE calls[p].kind = "install" /\ Becomes(p, "install", calls[p].version, <<>>, "activate")
      <4>1. calls'[p] = [kind |-> "install", version |-> calls[p].version, read |-> <<>>, at |-> "activate"]
        BY <2>B, <3>4
      <4>2. Follows(p)' /\ Runtime!Open(p)'
        BY <3>1, <3>3, <3>4, <4>1 DEF Follows, Runtime!Open, Runtime!At
      <4> QED BY <1>1, <3>3, <4>2, HistoryMove
    <3>5. CASE calls[p].kind = "rollback" /\ Runtime!Quit(p)
      <4>1. installed' = trail'
        BY <3>1, <3>3, <3>5 DEF Follows, Runtime!At
      <4> QED BY <1>1, <2>A, <3>3, <3>5, <4>1, HistoryMove
    <3> QED BY <2>6, <3>4, <3>5, RuntimeForms
  <2>7. CASE Runtime!Activate(p)
    <3>1. /\ calls[p].at = "activate" /\ active' = calls[p].version /\ trail' = Append(trail, calls[p].version)
          /\ installed' = installed
      BY <2>7 DEF Runtime!Activate
    <3>2. Runtime!Open(p)
      BY <3>1 DEF Runtime!Open
    <3>3. Follows(p) /\ \A q \in Operator \ {p} : ~Runtime!Open(q)
      BY <3>2, OpenAlone
    <3>4. CASE calls[p].kind = "install" /\ Runtime!Quit(p)
      <4>1. installed' = trail'
        BY <3>1, <3>3, <3>4 DEF Follows, Runtime!At
      <4> QED BY <1>1, <2>A, <3>3, <3>4, <4>1, HistoryMove
    <3>5. CASE calls[p].kind = "rollback" /\ Becomes(p, "rollback", calls[p].version, calls[p].read, "append")
      <4>1. calls'[p] = [kind |-> "rollback", version |-> calls[p].version, read |-> calls[p].read, at |-> "append"]
        BY <2>B, <3>5
      <4>2. Follows(p)' /\ Runtime!Open(p)'
        BY <3>1, <3>3, <3>5, <4>1 DEF Follows, Runtime!Open, Runtime!At
      <4> QED BY <1>1, <3>3, <4>2, HistoryMove
    <3> QED BY <2>7, <3>4, <3>5, RuntimeForms
  <2>8. CASE Runtime!Rollback(p)
    <3>1. /\ calls'[p] = [kind |-> "rollback", version |-> None, read |-> installed, at |-> "choose"]
          /\ UNCHANGED <<installed, active, trail>>
      <4>1. Becomes(p, "rollback", None, installed, "choose")
        BY <2>8, RuntimeForms
      <4>2. UNCHANGED <<installed, active, trail>>
        BY <2>8 DEF Runtime!Rollback
      <4> QED BY <2>B, <4>1, <4>2
    <3>2. ~Runtime!Open(p) /\ \A q \in Operator \ {p} : ~Runtime!Open(q)
      <4>1. calls[p] = Runtime!Idle /\ Runtime!Opens(p)
        BY <2>8 DEF Runtime!Rollback
      <4>2. ~Runtime!Open(p)
        BY <4>1 DEF Runtime!Open, Runtime!At, Runtime!Idle
      <4> QED BY <4>1, <4>2 DEF Runtime!Opens
    <3>3. installed = trail
      BY <3>2 DEF HistoryInv
    <3>4. Follows(p)'
      BY <3>1, <3>3 DEF Follows, Runtime!At
    <3> QED BY <1>1, <3>1, <3>2, <3>3, <3>4, HistoryMove
  <2>9. CASE Runtime!Choose(p)
    <3>1. calls[p].at = "choose" /\ UNCHANGED <<installed, active, trail>>
      BY <2>9 DEF Runtime!Choose, Runtime!At
    <3>2. Follows(p) /\ \A q \in Operator \ {p} : ~Runtime!Open(q)
      BY <3>1, OpenAlone DEF Runtime!Open
    <3>3. calls[p].read = trail /\ installed = trail
      BY <3>1, <3>2 DEF Follows
    <3>4. ASSUME NEW v \in Runtime!PreviousOf(calls[p].read, active), Becomes(p, "rollback", v, <<>>, "activate")
          PROVE  HistoryInv'
      <4>1. calls'[p] = [kind |-> "rollback", version |-> v, read |-> <<>>, at |-> "activate"]
        BY <2>B, <3>4
      <4>2. v \in Runtime!PreviousOf(trail', active')
        BY <3>1, <3>3, <3>4
      <4>3. Follows(p)' /\ Runtime!Open(p)'
        BY <3>1, <3>3, <4>1, <4>2 DEF Follows, Runtime!Open, Runtime!At
      <4> QED BY <1>1, <3>2, <4>3, HistoryMove
    <3>5. CASE Runtime!Quit(p)
      BY <1>1, <2>A, <3>1, <3>2, <3>3, <3>5, HistoryMove
    <3> QED BY <2>9, <3>4, <3>5, RuntimeForms
  <2>10. CASE Runtime!Stop(p)
    <3>1. /\ Runtime!Quit(p) /\ ~Runtime!HalfWritten(p) /\ UNCHANGED <<installed, active, trail>>
          /\ calls[p] # Runtime!Idle
      BY <2>10 DEF Runtime!Stop
    <3>2. CASE Runtime!Open(p)
      <4>1. Follows(p) /\ \A q \in Operator \ {p} : ~Runtime!Open(q)
        BY <3>2, OpenAlone
      <4>2. calls[p].kind \in {"install", "rollback", "launch"} /\ calls[p].at \in Runtime!Points[calls[p].kind]
        BY <3>1, CallForm
      <4>3. installed = trail
        BY <3>1, <3>2, <4>1, <4>2, PointsFacts DEF Follows, Runtime!HalfWritten, Runtime!Open, Runtime!At
      <4> QED BY <1>1, <2>A, <3>1, <4>1, <4>3, HistoryMove
    <3>3. CASE ~Runtime!Open(p)
      BY <1>1, <2>A, <3>1, <3>3, HistoryMove
    <3> QED BY <3>2, <3>3
  <2> QED
    BY <1>1, <2>2, <2>3, <2>4, <2>5, <2>6, <2>7, <2>8, <2>9, <2>10 DEF RuntimeMoves
<1>2. CASE UNCHANGED <<installed, active, calls, trail, disturbed>>
  BY <1>2 DEF HistoryInv, Follows, Runtime!Open, Runtime!At
<1>3. ASSUME NEW v \in Version, Runtime!Meddle(v) PROVE HistoryInv'
  BY <1>2, <1>3 DEF Runtime!Meddle
<1>4. CASE UNCHANGED runtimeVars
  BY <1>2, <1>4 DEF runtimeVars
<1> QED BY <1>1, <1>3, <1>4 DEF Runtime!Next, RuntimeMoves

LEMMA RuntimeInvariant == MCSpec => []RuntimeInv
<1>1. MCInit => RuntimeInv
  <2> SUFFICES ASSUME Runtime!Init PROVE RuntimeInv
    BY DEF MCInit
  <2>1. Runtime!TypeOK
    <3>1. /\ directory \in [Version -> {"absent", "whole", "damaged", "bare"}] /\ meddled \subseteq Version
          /\ installed \in Seq(Version) /\ trail \in Seq(Version) /\ active \in Version \cup {None}
      BY DEF Runtime!Init
    <3>2. disturbed \in BOOLEAN
      BY DEF Runtime!Init
    <3>3. calls \in [Operator -> Runtime!Call] /\ \A p \in Operator : calls[p] = Runtime!Idle
      BY DEF Runtime!Init, Runtime!Call
    <3> QED BY <3>1, <3>2, <3>3 DEF Runtime!TypeOK
  <2>2. SoundInv
    BY DEF Runtime!Init, SoundInv, SoundCall, Sound, Runtime!Idle
  <2>3. HistoryInv
    BY DEF Runtime!Init, HistoryInv, Runtime!Open, Runtime!At, Runtime!Idle
  <2> QED BY <2>1, <2>2, <2>3 DEF RuntimeInv
<1>2. RuntimeInv /\ [MCNext]_mcVars => RuntimeInv'
  BY StepOfComponents, RuntimeTypeStep, SoundStep, HistoryStep DEF RuntimeInv
<1> QED BY <1>1, <1>2, PTL DEF MCSpec

\* The runtime that is active, and the one that a launcher has resolved, is
\* as it was built unless people touched it, for any number of operators and
\* versions, wherever installations and rollbacks overlap, fail or end
\* (installAiSkills, activatePrevious and prepareDispatch).
THEOREM RuntimeWholeCorrect == MCSpec => []RuntimeWhole
<1>1. RuntimeInv => RuntimeWhole
  <2> SUFFICES ASSUME RuntimeInv, NEW v \in ({active} \cup Runtime!Resolved) \ {None} PROVE Sound(v)
    BY DEF RuntimeWhole, Runtime!RuntimeWhole, Sound
  <2>1. CASE v = active
    BY <2>1 DEF RuntimeInv, SoundInv
  <2>2. ASSUME NEW p \in Operator, calls[p].kind = "launch", v = calls[p].version PROVE Sound(v)
    <3>1. calls[p] # Runtime!Idle
      BY <2>2 DEF Runtime!Idle
    <3>2. calls[p].at \in {"verify", "run"}
      BY <2>2, <3>1, PointsFacts, CallForm DEF RuntimeInv
    <3> QED BY <2>2, <3>2 DEF RuntimeInv, SoundInv, SoundCall
  <2> QED BY <2>1, <2>2 DEF Runtime!Resolved
<1> QED BY <1>1, RuntimeInvariant, PTL

\* A rollback activates the runtime that was active immediately before the
\* one that is, for any number of versions and activations, unless commands
\* had the history open at one time or one of them ended between its two
\* writes (previouslyActive and the writes of installAiSkills and
\* activatePrevious).
THEOREM RollbackRestoresCorrect == MCSpec => RollbackRestores
<1> DEFINE Restored(p) ==
               Runtime!At(p, "rollback", "activate") /\ calls'[p].at = "append" /\ ~disturbed =>
                   /\ active' # active
                   /\ \E i \in 1..Len(trail) :
                          trail[i] = active' /\ \A j \in i + 1..Len(trail) : trail[j] = active
<1>1. RuntimeInv /\ [MCNext]_mcVars => [\A p \in Operator : Restored(p)]_(Runtime!vars)
  <2> SUFFICES ASSUME RuntimeInv, Runtime!Next, NEW p \in Operator, Runtime!At(p, "rollback", "activate"),
                      calls'[p].at = "append", ~disturbed
               PROVE  /\ active' # active
                      /\ \E i \in 1..Len(trail) :
                             trail[i] = active' /\ \A j \in i + 1..Len(trail) : trail[j] = active
    BY StepOfComponents DEF runtimeVars, Runtime!vars
  <2>1. calls[p].at = "activate" /\ calls[p].kind = "rollback"
    BY DEF Runtime!At
  <2>2. calls[p].version \in Runtime!PreviousOf(trail, active)
    BY <2>1, OpenAlone DEF RuntimeInv, Follows, Runtime!Open, Runtime!At
  <2>3. Runtime!Activate(p)
    <3>1. PICK q \in Operator : RuntimeMoves(q)
      BY <2>1 DEF Runtime!Next, RuntimeMoves, Runtime!Meddle
    <3>2. q = p
      BY <2>1, <3>1, CallsStep DEF RuntimeInv
    <3>3. ~Runtime!Stop(p)
      BY <2>1 DEF RuntimeInv, Runtime!TypeOK, Runtime!Stop, Runtime!Quit, Runtime!Idle
    <3> QED
      BY <2>1, <3>1, <3>2, <3>3
         DEF RuntimeMoves, Runtime!Install, Runtime!InstallSkills, Runtime!Promote, Runtime!Rename, Runtime!ReadHistory,
             Runtime!WriteHistory, Runtime!Rollback, Runtime!Choose, Runtime!Launch, Runtime!VerifyContent,
             Runtime!Run, Runtime!At, Runtime!Idle
  <2>4. active' = calls[p].version
    BY <2>3 DEF Runtime!Activate
  <2> QED BY <2>2, <2>4 DEF Runtime!PreviousOf
<1> QED BY <1>1, RuntimeInvariant, PTL DEF MCSpec, RollbackRestores, Runtime!RollbackRestores

(***************************************************************************)
(* The values of the variables.  The components' own invariants have most  *)
(* of their types; what follows adds the rest.                             *)
(***************************************************************************)
LEMMA SliceTypeStep == ASSUME SliceInv, Slice!TypeOK, [Slice!Next]_sliceVars PROVE Slice!TypeOK'
<1> DEFINE Stages == {"admitted", "planned", "applied", "reviewed", "verified"}
           Evidence == {"proposal", "planning", "planningConformance", "apply", "current", "verify",
                        "applyEligibility", "reviewReady"}
           Places == {"proposal", "planningConformance", "apply", "review", "verify", "ended"}
           Owners == Profile \cup {"nobody"}
<1>1. {Slice!stageOf[s] : s \in Slice!Step} \cup {"verified"} = Stages
  BY SliceSteps DEF Slice!stageOf
<1>2. {"applyEligibility", "reviewReady"} \cup UNION {Slice!committedEvidence[s] : s \in Slice!Step} = Evidence
  <2>1. /\ Slice!committedEvidence["proposal"] = {"proposal", "planning"}
        /\ Slice!committedEvidence["planningConformance"] = {"planningConformance"}
        /\ Slice!committedEvidence["apply"] = {"apply"} /\ Slice!committedEvidence["review"] = {"current"}
        /\ Slice!committedEvidence["verify"] = {"verify"}
    BY DEF Slice!committedEvidence
  <2> QED BY <2>1, SliceSteps
<1>3. Slice!Step \cup {"ended"} = Places
  BY SliceSteps
<1>4. Slice!TypeOK <=> /\ stage \in Stages /\ owner \in Owners /\ attempts \in Seq(Slice!Attempt)
                       /\ profile \in Profile /\ evidence \subseteq Evidence /\ step \in Places
  BY <1>1, <1>2, <1>3 DEF Slice!TypeOK, Slice!Profile, Profile
<1>5. Slice!TypeOK' <=> /\ stage' \in Stages /\ owner' \in Owners /\ attempts' \in Seq(Slice!Attempt)
                        /\ profile' \in Profile /\ evidence' \subseteq Evidence /\ step' \in Places
  BY <1>1, <1>2, <1>3 DEF Slice!TypeOK, Slice!Profile, Profile
<1>6. attempts' \in Seq(Slice!Attempt) /\ profile' \in Profile
  BY SliceStep DEF SliceInv
<1>7. \A s \in Slice!Step : /\ Slice!After[s] \in Places /\ Slice!nextStage[s] \in Stages
                            /\ Slice!committedEvidence[s] \subseteq Evidence
  BY SliceSteps DEF Slice!After, Slice!nextStage, Slice!committedEvidence
<1>8. ASSUME NEW p \in Profile, Slice!Start(p) PROVE Slice!TypeOK'
  BY <1>4, <1>5, <1>6, <1>8 DEF Slice!Start, Slice!storeVars
<1>9. CASE Slice!Refused
  BY <1>4, <1>5, <1>6, <1>9 DEF Slice!Refused
<1>10. CASE Slice!AdapterThrows
  BY <1>4, <1>5, <1>6, <1>10 DEF Slice!AdapterThrows
<1>11. ASSUME NEW result \in Slice!Outcome, NEW signed \in BOOLEAN, Slice!AdapterReturns(result, signed)
       PROVE  Slice!TypeOK'
  <2>1. step \in Slice!Step
    BY <1>11 DEF Slice!AdapterReturns, Slice!Invokes, Slice!Executes
  <2>2. CASE Slice!RoutedToCommit(result, signed)
    BY <1>4, <1>5, <1>6, <1>7, <1>11, <2>1, <2>2 DEF Slice!AdapterReturns
  <2>3. CASE ~Slice!RoutedToCommit(result, signed)
    BY <1>4, <1>5, <1>6, <1>11, <2>3 DEF Slice!AdapterReturns
  <2> QED BY <2>2, <2>3
<1>12. ASSUME NEW changed \in BOOLEAN, NEW findings \in BOOLEAN, Slice!Review(changed, findings) PROVE Slice!TypeOK'
  BY <1>4, <1>5, <1>6, <1>7, <1>12, SliceSteps DEF Slice!Review
<1>13. ASSUME NEW p \in Profile, NEW changed \in BOOLEAN, NEW t \in Slice!Transport, Slice!ReviewAside(p, changed, t)
       PROVE  Slice!TypeOK'
  BY <1>4, <1>5, <1>6, <1>13 DEF Slice!ReviewAside
<1>14. CASE UNCHANGED sliceVars
  BY <1>4, <1>5, <1>14 DEF sliceVars
<1> QED
  BY <1>8, <1>9, <1>10, <1>11, <1>12, <1>13, <1>14 DEF Slice!Next, Slice!Profile, Profile

LEMMA FileTypeStep == ASSUME File!TypeOK, [File!Next]_fileVars PROVE File!TypeOK'
<1> USE HandBound DEF File!TypeOK, File!fileVars, File!branchVars, File!planVars
<1>1. on \in File!Place /\ tip[on] \in File!CommitRecord \cup {File!NoBranch}
  OBVIOUS
<1>2. \A c \in File!CommitRecord \cup {File!NoBranch} : c.content \in File!Content
  BY DEF File!CommitRecord, File!NoBranch, File!Content
<1>3. ASSUME NEW content \in File!Content, File!Edit(content) PROVE File!TypeOK'
  BY <1>3 DEF File!Edit, File!Hand
<1>4. CASE File!StageByHand
  <2>1. File!InTip \in File!Content
    BY <1>1, <1>2 DEF File!InTip
  <2>2. index' \in File!Content /\ crowded' \in BOOLEAN
    BY <1>4, <2>1 DEF File!StageByHand
  <2> QED BY <1>4, <2>2 DEF File!StageByHand, File!Hand
<1>5. CASE File!CommitByHand
  <2>1. [content |-> index, seen |-> index, by |-> "people"] \in File!CommitRecord
    BY DEF File!CommitRecord
  <2>2. tip' \in [File!Place -> File!CommitRecord \cup {File!NoBranch}]
    BY <1>5, <2>1 DEF File!CommitByHand
  <2>3. crowded' = FALSE /\ File!Hand /\ UNCHANGED <<work, index, on, guarded>>
    BY <1>5 DEF File!CommitByHand
  <2>4. crowded' \in BOOLEAN
    BY ONLY <2>3
  <2>5. byHand' \in 0..MaxByHand
    BY <2>3 DEF File!Hand
  <2> QED BY <2>2, <2>3, <2>4, <2>5 DEF File!Hand
<1>6. ASSUME NEW b \in File!Place, File!Switch(b) PROVE File!TypeOK'
  <2>1. tip[b].content \in File!Content
    BY <1>2
  <2> QED BY <1>6, <2>1 DEF File!Switch, File!Hand
<1>7. CASE File!Protect
  <2>1. File!Target \in File!Place
    BY DEF File!Target, File!Place
  <2> QED BY <1>7, <2>1 DEF File!Protect, File!Hand
<1>8. ASSUME NEW push \in BOOLEAN, File!MakePlan(push) PROVE File!TypeOK'
  BY <1>8 DEF File!MakePlan, File!StepKind
<1>9. ASSUME NEW kind \in File!StepKind, File!Verify(kind) PROVE File!TypeOK'
  BY <1>9 DEF File!Verify
<1>10. CASE File!CreateTopicBranch
  <2>1. "topic" \in File!Place
    BY DEF File!Place
  <2> QED BY <1>1, <1>10, <2>1 DEF File!CreateTopicBranch, File!Runs
<1>11. CASE File!StagePaths
  BY <1>11 DEF File!StagePaths, File!Runs
<1>12. CASE File!CommitPaths
  <2> DEFINE new == [content |-> index, seen |-> checked.index, by |-> "cleanup"]
  <2>1. checked.index \in File!Content /\ checked' = File!NoStep
    BY <1>12 DEF File!CommitPaths, File!Runs, File!NoStep
  <2>2. new \in File!CommitRecord
    BY <2>1 DEF File!CommitRecord
  <2>3. \/ UNCHANGED <<tip, outcome, crowded>>
        \/ outcome' = new /\ tip' = [tip EXCEPT ![on] = new] /\ crowded' = FALSE
    BY <1>12 DEF File!CommitPaths
  <2> HIDE DEF new
  <2> QED BY <1>1, <1>12, <2>1, <2>2, <2>3 DEF File!CommitPaths
<1>13. CASE File!PushCommit
  BY <1>13 DEF File!PushCommit, File!Runs
<1>14. CASE UNCHANGED fileVars
  BY <1>14 DEF fileVars
<1> QED
  BY <1>3, <1>4, <1>5, <1>6, <1>7, <1>8, <1>9, <1>10, <1>11, <1>12, <1>13, <1>14 DEF File!Next

LEMMA RetireAllTypesStep ==
  ASSUME RetireTypes, Retire!TypeOK, [Retire!Next]_retireVars
  PROVE  Retire!TypeOK'
<1> DEFINE Rest == /\ worktree \in [Branch -> {"none", "clean", "dirty", "locked"}]
                   /\ claims \in [Branch -> {"free", "claimed", "unknown"}] /\ selected \subseteq Retire!Step
<1>1. RetireTypes'
  BY RetireTypeStep
<1>2. Rest /\ (RetireTypes' /\ Rest' => Retire!TypeOK')
  BY DEF Retire!TypeOK, RetireTypes
<1>3. ASSUME NEW b \in Branch,
             \/ Retire!CommitTo(b) \/ Retire!CommitToRemote(b) \/ Retire!Push(b) \/ Retire!Merge(b) \/ Retire!Fetch(b)
      PROVE  Rest'
  BY <1>2, <1>3 DEF Retire!CommitTo, Retire!CommitToRemote, Retire!Push, Retire!Merge, Retire!Fetch
<1>4. ASSUME NEW b \in Branch, Retire!Arrange(b) PROVE Rest'
  BY <1>2, <1>4 DEF Retire!Arrange
<1>5. ASSUME NEW selection \in SUBSET Retire!Step, Retire!MakePlan(selection) PROVE Rest'
  BY <1>2, <1>5 DEF Retire!MakePlan, Retire!gitVars
<1>6. ASSUME NEW s \in Retire!Step, Retire!Verify(s) PROVE Rest'
  BY <1>2, <1>6 DEF Retire!Verify, Retire!gitVars
<1>7. ASSUME Retire!RemoveWorktree PROVE Rest'
  BY <1>2, <1>7 DEF Retire!RemoveWorktree, Retire!RunCommand
<1>8. ASSUME Retire!DeleteBranch \/ Retire!DeleteRemoteBranch PROVE Rest'
  BY <1>2, <1>8 DEF Retire!DeleteBranch, Retire!DeleteRemoteBranch, Retire!RunCommand
<1>9. ASSUME UNCHANGED retireVars PROVE Rest'
  BY <1>2, <1>9 DEF retireVars
<1>10. Rest'
  BY <1>3, <1>4, <1>5, <1>6, <1>7, <1>8, <1>9 DEF Retire!Next
<1> QED BY <1>1, <1>2, <1>10

\* Every variable of every component keeps to its type, for every value of
\* the constants (the records of executeTransition, revalidateControllerAdvance,
\* planGenericCleanupApply and writeAttachment).
THEOREM TypesCorrect == MCSpec => []TypesOK
<1> DEFINE Types == /\ SliceInv /\ Slice!TypeOK /\ RetireTypes /\ Retire!TypeOK /\ File!TypeOK
<1>1. MCInit => Types
  <2> SUFFICES ASSUME MCInit PROVE Types
    OBVIOUS
  <2>1. Slice!Step # {} /\ "admitted" \in {Slice!stageOf[s] : s \in Slice!Step}
    BY SliceSteps DEF Slice!stageOf
  <2>2. SliceInv /\ Slice!TypeOK
    BY <2>1 DEF MCInit, Slice!Init, SliceInv, Slice!TypeOK, Slice!ObserveBeforeRetry, Slice!Profile, Profile
  <2>3. RetireTypes /\ Retire!TypeOK
    BY CommitBound DEF MCInit, Retire!Init, RetireTypes, Retire!TypeOK, Retire!Commit, Retire!Gone
  <2>4. File!TypeOK
    <3>1. File!Root \in File!CommitRecord /\ "base" \in File!Content
      BY DEF File!Root, File!CommitRecord, File!Content
    <3>2. tip \in [File!Place -> File!CommitRecord \cup {File!NoBranch}]
      BY <3>1 DEF MCInit, File!Init
    <3>3. on \in File!Place /\ guarded \subseteq File!Place /\ plan \subseteq File!StepKind
      BY DEF MCInit, File!Init, File!Place
    <3>4. governed \in BOOLEAN /\ crowded \in BOOLEAN /\ {work, index} \subseteq File!Content
      BY <3>1 DEF MCInit, File!Init
    <3>5. byHand \in 0..MaxByHand
      BY HandBound DEF MCInit, File!Init
    <3>6. outcome = File!NoBranch /\ published = File!NoBranch /\ checked = File!NoStep
      BY DEF MCInit, File!Init
    <3> QED BY <3>2, <3>3, <3>4, <3>5, <3>6 DEF File!TypeOK
  <2> QED BY <2>2, <2>3, <2>4
<1>2. Types /\ [MCNext]_mcVars => Types'
  BY StepOfComponents, SliceStep, SliceTypeStep, RetireTypeStep, RetireAllTypesStep, FileTypeStep
<1>3. RuntimeInv => Runtime!TypeOK
  BY DEF RuntimeInv
<1>4. GateInv /\ Types /\ BootInv /\ RuntimeInv => TypesOK
  BY <1>3 DEF GateInv, BootInv, TypesOK
<1>5. MCSpec => []GateInv
  <2>1. MCInit => Init
    BY DEF MCInit
  <2>2. [MCNext]_mcVars => [Next]_vars
    BY DEF MCNext, mcVars
  <2>3. MCSpec => Spec
    BY <2>1, <2>2, PTL DEF MCSpec, Spec
  <2> QED BY <2>3, GateInvariant
<1> QED BY <1>1, <1>2, <1>4, <1>5, BootInvariant, RuntimeInvariant, PTL DEF MCSpec

================================================================================
