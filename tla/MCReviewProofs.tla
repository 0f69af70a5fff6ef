---------------------------- MODULE MCReviewProofs ----------------------------
(***************************************************************************)
(* Proofs about the independent review: a part for the fallback and one    *)
(* for the parser of the event stream, each for every value of its         *)
(* constants.  ReviewCaptureProofs has the capture.                        *)
(***************************************************************************)
EXTENDS MCReview, ReviewCaptureProofs, TLAPS

\* A step of MCReview is a step or a stutter of either component.
LEMMA StepOfComponents == [MCNext]_mcVars => [Ev!Next]_eventVars /\ [Rec!Next]_recoveryVars
BY DEF MCNext, mcVars

(***************************************************************************)
(* The fallback.  A host's worktree goes through its parts in order, so    *)
(* where the host is says what can be left of it; and the caller waits for *)
(* a launch only while its request is the durable record of the package    *)
(* under review.                                                           *)
(***************************************************************************)
HostState == {"idle", "prepared", "rooted", "added", "viewed", "reviewing", "checking", "removing", "undoing",
              "unrooting", "answered", "failed", "leaking", "dead"}
RecTypes ==
    /\ package \in Rec!Package /\ durable \in Rec!Durable
    /\ caller \in {Rec!Idle} \cup [at : {"waiting"}, launch : LaunchId] \cup [at : {"direct"}, launch : {"none"}]
    /\ host \in [LaunchId -> HostState] /\ tree \in [LaunchId -> SUBSET Rec!Part]
    /\ request \in [LaunchId -> Rec!Durable] /\ outcome \in [LaunchId -> {"none", "review"}]
    /\ response \subseteq LaunchId

\* What there is of a host's worktree, by where the host is.
Built(l) ==
    /\ host[l] \in {"idle", "prepared", "answered"} => tree[l] = {}
    /\ host[l] = "rooted" => tree[l] = {"root"}
    /\ host[l] \in {"unrooting", "failed"} => "metadata" \notin tree[l]
    /\ host[l] = "answered" => outcome[l] = "review"
    /\ l \in response => host[l] = "answered"

\* What the caller relies on while it is away.
Bound ==
    /\ caller.at = "waiting" => request[caller.launch] = durable /\ Rec!StrictUnavailable
    /\ caller.at = "direct" => Rec!StrictUnavailable

RecInv == RecTypes /\ (\A l \in LaunchId : Built(l)) /\ Rec!RootOutlivesRegistration /\ Bound

\* A step of the launcher's host leaves the caller and the records alone.
LEMMA HostLeavesCaller ==
  ASSUME NEW l \in LaunchId, Rec!HostStep(l) \/ Rec!Kill(l)
  PROVE  UNCHANGED <<package, recorded, covered, lapsed, durable, caller, request, returned>>
BY DEF Rec!HostStep, Rec!Kill, Rec!Prepare, Rec!MakeRoot, Rec!AddWorktree, Rec!VerifyView, Rec!Rederive,
       Rec!RunReviewer, Rec!CheckResult, Rec!RemoveWorktree, Rec!UndoWorktree, Rec!RemoveRoot, Rec!HostGoes,
       Rec!authVars, Rec!callVars

\* Everything else leaves the hosts alone.
LEMMA CallerLeavesHosts ==
  ASSUME [Rec!Next]_recoveryVars, ~ \E l \in LaunchId : Rec!HostStep(l) \/ Rec!Kill(l)
  PROVE  UNCHANGED <<host, tree, outcome, response>>
BY DEF Rec!Next, Rec!Expire, Rec!Correct, Rec!StrictFails, Rec!TransportGivesUp, Rec!InvokeDirect,
       Rec!DirectReturns, Rec!Recover, Rec!TransportReturns, Rec!hostVars, recoveryVars

\* What a host may leave behind when it comes to a point other than its answer.
Fits(point, parts) ==
    /\ point \in HostState \ {"answered"} /\ parts \subseteq Rec!Part
    /\ point \in {"idle", "prepared"} => parts = {}
    /\ point = "rooted" => parts = {"root"}
    /\ point \in {"unrooting", "failed"} => "metadata" \notin parts
    /\ "metadata" \in parts => {"root", "directory"} \subseteq parts

\* One host's step, in terms of its own worktree.
LEMMA HostMoves ==
  ASSUME RecInv, NEW l \in LaunchId, Rec!HostStep(l) \/ Rec!Kill(l)
  PROVE  /\ host' \in [LaunchId -> HostState] /\ tree' \in [LaunchId -> SUBSET Rec!Part]
         /\ outcome' \in [LaunchId -> {"none", "review"}] /\ response' \subseteq LaunchId
         /\ \A k \in LaunchId \ {l} :
                /\ host'[k] = host[k] /\ tree'[k] = tree[k] /\ outcome'[k] = outcome[k]
                /\ k \in response' => k \in response
         /\ Built(l)'
         /\ "metadata" \in tree'[l] => {"root", "directory"} \subseteq tree'[l]
<1> DEFINE Goal ==
        /\ host' \in [LaunchId -> HostState] /\ tree' \in [LaunchId -> SUBSET Rec!Part]
        /\ outcome' \in [LaunchId -> {"none", "review"}] /\ response' \subseteq LaunchId
        /\ \A k \in LaunchId \ {l} :
               /\ host'[k] = host[k] /\ tree'[k] = tree[k] /\ outcome'[k] = outcome[k]
               /\ k \in response' => k \in response
        /\ Built(l)'
        /\ "metadata" \in tree'[l] => {"root", "directory"} \subseteq tree'[l]
<1>0. /\ host \in [LaunchId -> HostState] /\ tree \in [LaunchId -> SUBSET Rec!Part]
      /\ outcome \in [LaunchId -> {"none", "review"}] /\ response \subseteq LaunchId
      /\ Built(l) /\ ("metadata" \in tree[l] => {"root", "directory"} \subseteq tree[l])
      /\ tree[l] \subseteq Rec!Part
  BY DEF RecInv, Rec!RootOutlivesRegistration, RecTypes
<1>1. ASSUME NEW point, NEW parts, Rec!HostGoes(l, point, parts)
      PROVE  /\ host'[l] = point /\ tree'[l] = parts
             /\ \A k \in LaunchId \ {l} : host'[k] = host[k] /\ tree'[k] = tree[k]
             /\ point \in HostState => host' \in [LaunchId -> HostState]
             /\ parts \subseteq Rec!Part => tree' \in [LaunchId -> SUBSET Rec!Part]
  BY <1>0, <1>1 DEF Rec!HostGoes
<1>2. ASSUME NEW point, NEW parts, Rec!HostGoes(l, point, parts), Fits(point, parts), UNCHANGED response,
             outcome' \in [LaunchId -> {"none", "review"}], \A k \in LaunchId \ {l} : outcome'[k] = outcome[k],
             host[l] # "answered"
      PROVE  Goal
  <2>1. Built(l)'
    BY <1>0, <1>1, <1>2 DEF Built, Fits
  <2> QED BY <1>0, <1>1, <1>2, <2>1 DEF Fits
<1> SUFFICES Goal
  OBVIOUS
<1> HIDE DEF Goal
<1>3. ASSUME UNCHANGED <<outcome, response>>, host[l] # "answered",
             NEW point, NEW parts, Rec!HostGoes(l, point, parts), Fits(point, parts)
      PROVE  Goal
  BY <1>0, <1>2, <1>3
<1>4. CASE Rec!Prepare(l)
  <2>1. /\ host[l] = "idle" /\ tree[l] = {} /\ UNCHANGED <<outcome, response>>
        /\ Rec!HostGoes(l, "prepared", tree[l]) \/ Rec!HostGoes(l, "failed", tree[l])
    BY <1>0, <1>4 DEF Rec!Prepare, Built
  <2>2. Fits("prepared", tree[l]) /\ Fits("failed", tree[l])
    BY <2>1 DEF Fits, HostState, Rec!Part
  <2> QED BY <1>3, <2>1, <2>2
<1>5. CASE Rec!MakeRoot(l)
  <2>1. Fits("rooted", {"root"}) /\ Fits("failed", {})
    BY DEF Fits, HostState, Rec!Part
  <2>2. /\ host[l] # "answered" /\ UNCHANGED <<outcome, response>>
        /\ Rec!HostGoes(l, "rooted", {"root"}) \/ Rec!HostGoes(l, "failed", {})
    BY <1>5 DEF Rec!MakeRoot
  <2> QED BY <1>3, <2>1, <2>2
<1>6. CASE Rec!AddWorktree(l)
  <2> DEFINE added == {"root", "metadata", "directory"}
  <2>1. Fits("added", added) /\ Fits("undoing", added) /\ Fits("undoing", {"root"})
    BY DEF Fits, HostState, Rec!Part
  <2>2. /\ host[l] # "answered" /\ UNCHANGED <<outcome, response>>
        /\ \/ Rec!HostGoes(l, "added", added) \/ Rec!HostGoes(l, "undoing", added)
           \/ Rec!HostGoes(l, "undoing", {"root"})
    BY <1>6 DEF Rec!AddWorktree
  <2> HIDE DEF added
  <2> QED BY <1>3, <2>1, <2>2
<1>7. CASE Rec!VerifyView(l)
  <2> DEFINE marked == tree[l] \cup {"marker"}
  <2>1. Fits("viewed", marked) /\ Fits("undoing", tree[l])
    BY <1>0 DEF Fits, HostState, Rec!Part
  <2>2. /\ host[l] # "answered" /\ UNCHANGED <<outcome, response>>
        /\ Rec!HostGoes(l, "viewed", marked) \/ Rec!HostGoes(l, "undoing", tree[l])
    BY <1>7 DEF Rec!VerifyView
  <2> HIDE DEF marked
  <2> QED BY <1>3, <2>1, <2>2
<1>8. \A point \in {"reviewing", "checking", "removing", "leaking", "dead"} : Fits(point, tree[l])
  BY <1>0 DEF Fits, HostState, Rec!Part
<1>9. CASE Rec!Rederive(l) \/ Rec!RunReviewer(l)
  <2>1. /\ host[l] # "answered" /\ UNCHANGED <<outcome, response>>
        /\ \E point \in {"reviewing", "checking", "removing"} : Rec!HostGoes(l, point, tree[l])
    BY <1>9 DEF Rec!Rederive, Rec!RunReviewer
  <2> QED BY <1>3, <1>8, <2>1
<1>10. CASE Rec!CheckResult(l)
  <2>1. outcome' \in [LaunchId -> {"none", "review"}] /\ \A k \in LaunchId \ {l} : outcome'[k] = outcome[k]
    BY <1>0, <1>10 DEF Rec!CheckResult
  <2>2. host[l] # "answered" /\ UNCHANGED response /\ Rec!HostGoes(l, "removing", tree[l])
    BY <1>10 DEF Rec!CheckResult
  <2> QED BY <1>2, <1>8, <2>1, <2>2
<1>11. CASE Rec!RemoveWorktree(l) \/ Rec!UndoWorktree(l)
  <2> DEFINE rest == tree[l] \ {"metadata", "directory"}
  <2>1. /\ host[l] # "answered" /\ UNCHANGED <<outcome, response>>
        /\ Rec!HostGoes(l, "unrooting", rest) \/ Rec!HostGoes(l, "leaking", tree[l])
    BY <1>11 DEF Rec!RemoveWorktree, Rec!UndoWorktree
  <2>2. Fits("unrooting", rest)
    BY <1>0 DEF Fits, HostState, Rec!Part
  <2> HIDE DEF rest
  <2> QED BY <1>3, <1>8, <2>1, <2>2
<1>12. CASE Rec!RemoveRoot(l)
  <2> DEFINE rest == tree[l] \ {"root", "directory", "marker"}
  <2>1. host[l] = "unrooting" /\ UNCHANGED outcome /\ "metadata" \notin tree[l] /\ rest = {}
    BY <1>0, <1>12 DEF Rec!RemoveRoot, Built, Rec!Part
  <2>2. CASE outcome[l] = "review" /\ Rec!HostGoes(l, "answered", rest) /\ response' = response \cup {l}
    <3>1. /\ host'[l] = "answered" /\ tree'[l] = {}
          /\ \A k \in LaunchId \ {l} : host'[k] = host[k] /\ tree'[k] = tree[k]
          /\ host' \in [LaunchId -> HostState] /\ tree' \in [LaunchId -> SUBSET Rec!Part]
      BY <1>1, <2>1, <2>2 DEF HostState
    <3>2. Built(l)'
      BY <2>1, <2>2, <3>1 DEF Built
    <3> QED BY <1>0, <2>1, <2>2, <3>1, <3>2 DEF Goal
  <2>3. CASE UNCHANGED response /\ (Rec!HostGoes(l, "failed", rest) \/ Rec!HostGoes(l, "leaking", tree[l]))
    <3>1. Fits("failed", rest)
      BY <2>1 DEF Fits, HostState, Rec!Part
    <3> HIDE DEF rest
    <3> QED BY <1>3, <1>8, <2>1, <2>3, <3>1
  <2> QED BY <1>12, <2>2, <2>3 DEF Rec!RemoveRoot
<1>13. CASE Rec!Kill(l)
  <2>1. host[l] # "answered" /\ UNCHANGED <<outcome, response>> /\ Rec!HostGoes(l, "dead", tree[l])
    BY <1>13 DEF Rec!Kill, Rec!Finished
  <2> QED BY <1>3, <1>8, <2>1
<1> QED
  BY <1>4, <1>5, <1>6, <1>7, <1>9, <1>10, <1>11, <1>12, <1>13 DEF Rec!HostStep, Goal

\* The caller's own steps.
LEMMA CallerMoves ==
  ASSUME RecTypes, Bound, [Rec!Next]_recoveryVars, ~ \E l \in LaunchId : Rec!HostStep(l) \/ Rec!Kill(l)
  PROVE  /\ package' \in Rec!Package /\ durable' \in Rec!Durable /\ request' \in [LaunchId -> Rec!Durable]
         /\ caller' \in {Rec!Idle} \cup [at : {"waiting"}, launch : LaunchId] \cup [at : {"direct"}, launch : {"none"}]
         /\ Bound'
<1> DEFINE Caller == {Rec!Idle} \cup [at : {"waiting"}, launch : LaunchId] \cup [at : {"direct"}, launch : {"none"}]
           Goal == /\ package' \in Rec!Package /\ durable' \in Rec!Durable /\ request' \in [LaunchId -> Rec!Durable]
                   /\ caller' \in Caller /\ Bound'
<1>0. package \in Rec!Package /\ durable \in Rec!Durable /\ request \in [LaunchId -> Rec!Durable] /\ caller \in Caller
  BY DEF RecTypes
<1>1. CASE UNCHANGED <<package, durable, request, caller>>
  BY <1>0, <1>1 DEF Bound, Rec!StrictUnavailable, Rec!NoRecord
<1>2. CASE \/ \E r \in Rec!Record : Rec!Expire(r)
           \/ UNCHANGED recoveryVars
  BY <1>1, <1>2 DEF Rec!Expire, Rec!callVars, recoveryVars
<1>3. ASSUME caller' = Rec!Idle, package' \in Rec!Package, durable' \in Rec!Durable, UNCHANGED request PROVE Goal
  BY <1>0, <1>3 DEF Bound, Rec!Idle
<1>4. CASE Rec!Correct
  BY <1>0, <1>3, <1>4, ReviewConstants DEF Rec!Correct, Rec!callVars, Rec!Package
<1>5. ASSUME NEW f \in Rec!Failure, Rec!StrictFails(f) PROVE Goal
  BY <1>0, <1>3, <1>5 DEF Rec!StrictFails, Rec!callVars, Rec!Durable
<1>6. CASE Rec!TransportGivesUp \/ Rec!DirectReturns \/ \E l \in LaunchId : Rec!TransportReturns(l)
  BY <1>0, <1>3, <1>6 DEF Rec!TransportGivesUp, Rec!DirectReturns, Rec!TransportReturns, Rec!authVars
<1>7. CASE Rec!InvokeDirect
  <2>1. caller' = [at |-> "direct", launch |-> "none"] /\ Rec!StrictUnavailable
        /\ UNCHANGED <<package, durable, request>>
    BY <1>7 DEF Rec!InvokeDirect, Rec!Via, Rec!authVars
  <2> QED BY <1>0, <2>1 DEF Bound, Rec!StrictUnavailable, Rec!NoRecord
<1>8. ASSUME NEW l \in LaunchId, Rec!Recover(l) PROVE Goal
  <2>1. /\ caller' = [at |-> "waiting", launch |-> l] /\ Rec!StrictUnavailable
        /\ UNCHANGED <<package, durable>> /\ request' = [request EXCEPT ![l] = durable]
    BY <1>8 DEF Rec!Recover, Rec!Via, Rec!authVars
  <2>2. request'[l] = durable
    BY <1>0, <2>1
  <2> QED BY <1>0, <2>1, <2>2 DEF Bound, Rec!StrictUnavailable, Rec!NoRecord
<1> QED
  BY <1>2, <1>4, <1>5, <1>6, <1>7, <1>8 DEF Rec!Next

LEMMA RecStep == ASSUME RecInv, [Rec!Next]_recoveryVars PROVE RecInv'
<1>1. ASSUME NEW l \in LaunchId, Rec!HostStep(l) \/ Rec!Kill(l) PROVE RecInv'
  <2>1. UNCHANGED <<package, durable, caller, request>>
    BY <1>1, HostLeavesCaller
  <2>2. RecTypes' /\ Bound'
    BY <1>1, <2>1, HostMoves DEF RecInv, RecTypes, Bound, Rec!StrictUnavailable, Rec!NoRecord
  <2>3. ASSUME NEW k \in LaunchId PROVE Built(k)' /\ ("metadata" \in tree'[k] => {"root", "directory"} \subseteq tree'[k])
    <3>1. CASE k = l
      BY <1>1, <3>1, HostMoves
    <3>2. CASE k # l
      <4>1. /\ host'[k] = host[k] /\ tree'[k] = tree[k] /\ outcome'[k] = outcome[k]
            /\ k \in response' => k \in response
        BY <1>1, <3>2, HostMoves
      <4> QED BY <4>1 DEF RecInv, Built, Rec!RootOutlivesRegistration
    <3> QED BY <3>1, <3>2
  <2> QED BY <2>2, <2>3 DEF RecInv, Rec!RootOutlivesRegistration
<1>2. CASE ~ \E l \in LaunchId : Rec!HostStep(l) \/ Rec!Kill(l)
  <2>1. UNCHANGED <<host, tree, outcome, response>>
    BY <1>2, CallerLeavesHosts
  <2>2. RecTypes' /\ Bound'
    BY <1>2, <2>1, CallerMoves DEF RecInv, RecTypes
  <2> QED BY <2>1, <2>2 DEF RecInv, Built, Rec!RootOutlivesRegistration
<1> QED BY <1>1, <1>2

LEMMA RecInvariant == MCSpec => []RecInv
<1>1. MCInit => RecInv
  <2> SUFFICES ASSUME MCInit PROVE RecInv
    OBVIOUS
  <2>1. RecTypes
    BY ReviewConstants
       DEF MCInit, Rec!Init, RecTypes, Rec!Package, Rec!Durable, Rec!NoRecord, Rec!Idle, Rec!Part, HostState
  <2>2. \A l \in LaunchId : Built(l)
    BY DEF MCInit, Rec!Init, Built
  <2>3. Rec!RootOutlivesRegistration /\ Bound
    BY DEF MCInit, Rec!Init, Rec!RootOutlivesRegistration, Bound, Rec!Idle
  <2> QED BY <2>1, <2>2, <2>3 DEF RecInv
<1>2. RecInv /\ [MCNext]_mcVars => RecInv'
  BY StepOfComponents, RecStep
<1> QED BY <1>1, <1>2, PTL DEF MCSpec

\* The temporary root of a review's worktree outlives its registration,
\* whatever fails and whenever the host dies (cleanupOwnedPath and
\* removeDetachedReviewView).
THEOREM RootOutlivesRegistrationCorrect == MCSpec => []RootOutlivesRegistration
<1>1. RecInv => RootOutlivesRegistration
  BY DEF RecInv, RootOutlivesRegistration
<1> QED BY <1>1, RecInvariant, PTL

\* A degraded review is returned for the package under review alone, when its
\* strict review is durably unavailable and the authorization covers it, by
\* the launch that the caller waits for, after its worktree is gone
\* (executeAuthorizedIndependentReview, acceptReviewLauncherHostResponse).
THEOREM DegradedReviewSoundCorrect == MCSpec => DegradedReviewSound
<1> DEFINE Sound ==
        \A r \in returned' \ returned :
          /\ r.package = package /\ Rec!StrictUnavailable
          /\ \A q \in 0..r.package : q \in covered
          /\ "degraded" \notin lapsed
          /\ r.by \in LaunchId => /\ caller = Rec!Via("waiting", r.by) /\ lapsed = {}
                                /\ tree[r.by] = {} /\ outcome[r.by] = "review"
<1>1. RecInv /\ [MCNext]_mcVars => [Sound]_(Rec!vars)
  <2> SUFFICES ASSUME RecInv, [Rec!Next]_recoveryVars, NEW r \in returned' \ returned
               PROVE  /\ r.package = package /\ Rec!StrictUnavailable
                      /\ \A q \in 0..r.package : q \in covered
                      /\ "degraded" \notin lapsed
                      /\ r.by \in LaunchId => /\ caller = Rec!Via("waiting", r.by) /\ lapsed = {}
                                            /\ tree[r.by] = {} /\ outcome[r.by] = "review"
    BY StepOfComponents
  <2>1. Rec!DirectReturns \/ \E l \in LaunchId : Rec!TransportReturns(l)
    <3>1. ~ \E l \in LaunchId : Rec!HostStep(l) \/ Rec!Kill(l)
      BY HostLeavesCaller
    <3> QED BY <3>1
               DEF Rec!Next, Rec!Expire, Rec!Correct, Rec!StrictFails, Rec!TransportGivesUp, Rec!InvokeDirect,
                        Rec!Recover, Rec!callVars, recoveryVars
  <2>2. CASE Rec!DirectReturns
    <3>1. caller.at = "direct" /\ Rec!DegradedAuthorized(package) /\ r = [by |-> "direct", package |-> package]
      BY <2>2 DEF Rec!DirectReturns
    <3>2. Rec!StrictUnavailable /\ r.by \notin LaunchId
      BY <3>1, ReviewConstants DEF RecInv, Bound
    <3> QED BY <3>1, <3>2 DEF Rec!DegradedAuthorized
  <2>3. ASSUME NEW l \in LaunchId, Rec!TransportReturns(l)
        PROVE  /\ r.package = package /\ Rec!StrictUnavailable
               /\ \A q \in 0..r.package : q \in covered
               /\ "degraded" \notin lapsed
               /\ caller = Rec!Via("waiting", r.by) /\ lapsed = {}
               /\ tree[r.by] = {} /\ outcome[r.by] = "review"
    <3>1. /\ caller.at = "waiting" /\ l \in response /\ l = caller.launch
          /\ Rec!RecoveryValid(request[l].package) /\ r = [by |-> l, package |-> request[l].package]
      BY <2>3 DEF Rec!TransportReturns
    <3>2. request[l] = durable /\ Rec!StrictUnavailable
      BY <3>1 DEF RecInv, Bound
    <3>3. request[l].package = package
      BY <3>2 DEF Rec!StrictUnavailable
    <3>4. caller = Rec!Via("waiting", l)
      BY <3>1 DEF RecInv, RecTypes, Rec!Idle, Rec!Via
    <3>5. tree[l] = {} /\ outcome[l] = "review"
      BY <3>1 DEF RecInv, Built
    <3> QED BY <3>1, <3>2, <3>3, <3>4, <3>5 DEF Rec!RecoveryValid, Rec!DegradedAuthorized
  <2> QED BY <2>1, <2>2, <2>3
<1> QED BY <1>1, RecInvariant, PTL DEF MCSpec, DegradedReviewSound, Rec!DegradedReviewSound

(***************************************************************************)
(* The parser.  Until it refuses the stream, what it keeps of it says as   *)
(* much as the whole stream: the turn is the stream's shape, an item's     *)
(* state is what the stream has of the item, and the candidate is its last *)
(* message.  The event that it refuses makes the stream one that no        *)
(* continuation repairs.                                                   *)
(***************************************************************************)
EvTypes ==
    /\ stream \in Seq(Ev!Event) /\ failure \in BOOLEAN
    /\ turn \in {"none", "thread.started", "turn.started", "turn.completed"}
    /\ items \in [Item -> [state : {"none", "started", "completed"}, kind : {"none", "agent_message", "tool"}]]
    /\ message \in {"none", "review", "prose"}

\* The turn is the shape of the stream.
InOrder ==
    /\ Len(stream) <= EventBound
    /\ turn = "none" <=> Len(stream) = 0
    /\ turn = "thread.started" <=> Len(stream) = 1
    /\ Len(stream) >= 1 => stream[1].type = "thread.started"
    /\ Len(stream) >= 2 => stream[2].type = "turn.started"
    /\ turn = "turn.started" => \A j \in 3..Len(stream) : stream[j] \in Ev!ItemEvent
    /\ turn = "turn.completed" =>
           /\ Len(stream) >= 3 /\ stream[Len(stream)].type = "turn.completed"
           /\ \A j \in 3..(Len(stream) - 1) : stream[j] \in Ev!ItemEvent
           /\ \A i \in Item : items[i].state # "started"

\* An item's state is what the stream has of it.
Tracked(i) ==
    /\ items[i].state = "none" <=> Ev!Of(stream, i) = {}
    /\ items[i].state = "none" => items[i] = Ev!Unseen
    /\ \A j \in Ev!Of(stream, i) : stream[j].kind = items[i].kind
    /\ items[i].state = "completed" <=> \E j \in Ev!Of(stream, i) : stream[j].type = "item.completed"
    /\ Ev!Life(stream, i, FALSE)

\* The candidate is the last message.
Heard ==
    /\ message = "none" <=> Ev!Messages(stream) = {}
    /\ message # "none" => Ev!LastMessage(stream, message)

\* What end() returns.
Verdict ==
    IF failure \/ turn \in {"none", "thread.started"} THEN "broken"
    ELSE IF turn = "turn.started" \/ message = "none" THEN "retryable"
    ELSE IF message = "prose" THEN "broken"
    ELSE "complete"

Followed == InOrder /\ (\A i \in Item : Tracked(i)) /\ Heard
Lost == ~Ev!Closed(stream) /\ ~Ev!Unfinished(stream)

EvInv == EvTypes /\ (IF failure THEN Lost ELSE Followed) /\ (answer # "none" => answer = Verdict)

\* An event is of the turn or of an item.
LEMMA EventKinds ==
  ASSUME NEW e \in Ev!Event
  PROVE  /\ \/ e \in Ev!TurnEvent /\ e \notin Ev!ItemEvent
            \/ e \in Ev!ItemEvent /\ e \notin Ev!TurnEvent
         /\ e \in Ev!TurnEvent =>
                e.type \in {"thread.started", "turn.started", "turn.completed", "turn.failed", "bad"}
         /\ e \in Ev!ItemEvent =>
                /\ e.type \in {"item.started", "item.updated", "item.completed"} /\ e.id \in Item
                /\ e.kind \in {"agent_message", "tool"} /\ e.text \in {"review", "prose", "blank"}
BY DEF Ev!Event, Ev!TurnEvent, Ev!ItemEvent, Ev!Kind, Ev!Text

LEMMA TwoOrMore == ASSUME NEW n \in Nat, n # 0, n # 1 PROVE n >= 2
OBVIOUS

\* The stream after one more event.
Longer(s, e, t) == t = Append(s, e)

LEMMA Appended ==
  ASSUME NEW s \in Seq(Ev!Event), NEW e \in Ev!Event, NEW t, Longer(s, e, t)
  PROVE  /\ t \in Seq(Ev!Event) /\ Len(s) \in Nat /\ Len(t) = Len(s) + 1
         /\ t[Len(s) + 1] = e /\ \A j \in 1..Len(s) : t[j] = s[j] /\ s[j] \in Ev!Event
BY DEF Longer

\* What it has of an item, and of messages.
LEMMA OneMore ==
  ASSUME NEW s \in Seq(Ev!Event), NEW e \in Ev!Event, NEW t, Longer(s, e, t)
  PROVE  /\ \A i \in Item :
                /\ Ev!Of(s, i) \subseteq 1..Len(s)
                /\ Ev!Of(t, i) = IF e \in Ev!ItemEvent /\ e.id = i THEN Ev!Of(s, i) \cup {Len(s) + 1} ELSE Ev!Of(s, i)
         /\ Ev!Messages(s) \subseteq 1..Len(s)
         /\ Ev!Messages(t) = IF e \in Ev!ItemEvent /\ e.kind = "agent_message" /\ e.type = "item.completed"
                             THEN Ev!Messages(s) \cup {Len(s) + 1} ELSE Ev!Messages(s)
<1>1. /\ Len(s) \in Nat /\ Len(t) = Len(s) + 1
      /\ t[Len(s) + 1] = e /\ \A j \in 1..Len(s) : t[j] = s[j]
  BY Appended
<1>2. 1..Len(t) = 1..Len(s) \cup {Len(s) + 1} /\ Len(s) + 1 \notin 1..Len(s)
  BY <1>1
<1> QED BY <1>1, <1>2 DEF Ev!Of, Ev!Messages

\* An item that the new event is not of lives as before.
LEMMA OthersLive ==
  ASSUME NEW s \in Seq(Ev!Event), NEW e \in Ev!Event, NEW t, Longer(s, e, t), NEW i \in Item,
         ~(e \in Ev!ItemEvent /\ e.id = i)
  PROVE  /\ Ev!Of(t, i) = Ev!Of(s, i) /\ \A j \in Ev!Of(s, i) : t[j] = s[j]
         /\ Ev!Life(t, i, FALSE) <=> Ev!Life(s, i, FALSE)
         /\ Ev!Life(t, i, TRUE) <=> Ev!Life(s, i, TRUE)
<1> DEFINE mine == Ev!Of(s, i)
<1>1. \A j \in 1..Len(s) : t[j] = s[j]
  BY Appended
<1>2. mine \subseteq 1..Len(s) /\ Ev!Of(t, i) = mine
  BY OneMore
<1>3. \A j \in mine : t[j] = s[j]
  BY <1>1, <1>2
<1> HIDE DEF mine
<1>4. /\ (\A j, k \in mine : /\ t[j].kind = t[k].kind
                             /\ t[j].type = "item.started"   => j <= k
                             /\ t[j].type = "item.completed" => k <= j)
         <=> (\A j, k \in mine : /\ s[j].kind = s[k].kind
                                 /\ s[j].type = "item.started"   => j <= k
                                 /\ s[j].type = "item.completed" => k <= j)
      /\ (\A j \in mine : t[j].text # "blank" /\ (t[j].type = "item.updated" => \E k \in mine : k < j))
         <=> (\A j \in mine : s[j].text # "blank" /\ (s[j].type = "item.updated" => \E k \in mine : k < j))
      /\ (\E j \in mine : t[j].type = "item.completed") <=> (\E j \in mine : s[j].type = "item.completed")
  BY <1>3
<1>5. Ev!Life(t, i, FALSE) <=> Ev!Life(s, i, FALSE)
  BY <1>2, <1>4 DEF Ev!Life, mine
<1>6. Ev!Life(t, i, TRUE) <=> Ev!Life(s, i, TRUE)
  BY <1>2, <1>4 DEF Ev!Life, mine
<1> QED BY <1>2, <1>3, <1>5, <1>6 DEF mine

\* While nothing was refused, a stream that has nothing but items after its
\* two first events is one of an open turn.
LEMMA OpenTurn ==
  ASSUME EvTypes, InOrder, Len(stream) >= 2, \A j \in 3..Len(stream) : stream[j] \in Ev!ItemEvent
  PROVE  turn = "turn.started"
<1>1. Len(stream) \in Nat /\ \A j \in 1..Len(stream) : stream[j] \in Ev!Event
  BY DEF EvTypes
<1>2. turn \in {"turn.started", "turn.completed"}
  BY <1>1 DEF EvTypes, InOrder
<1>3. CASE turn = "turn.completed"
  <2>1. Len(stream) \in 3..Len(stream) /\ stream[Len(stream)].type = "turn.completed"
    BY <1>1, <1>3 DEF InOrder
  <2>2. stream[Len(stream)] \in Ev!ItemEvent /\ stream[Len(stream)] \in Ev!Event
    BY <1>1, <2>1
  <2> QED BY <2>1, <2>2, EventKinds
<1> QED BY <1>2, <1>3

TurnAllowed(e) ==
    \/ e.type = "thread.started" /\ turn = "none"
    \/ e.type = "turn.started" /\ turn = "thread.started"
    \/ e.type = "turn.completed" /\ turn = "turn.started" /\ \A i \in Item : items[i].state # "started"

\* An event of the turn that is consumed.
LEMMA TurnFollowed ==
  ASSUME EvTypes, Followed, NEW e \in Ev!TurnEvent, Longer(stream, e, stream'), Len(stream) < EventBound,
         turn' = e.type, UNCHANGED <<items, message>>, TurnAllowed(e)
  PROVE  Followed'
<1>0. stream \in Seq(Ev!Event) /\ e \in Ev!Event
  BY DEF EvTypes, Ev!Event
<1>1. e \notin Ev!ItemEvent
  BY <1>0, EventKinds
<1>2. /\ Len(stream) \in Nat /\ Len(stream') = Len(stream) + 1
      /\ stream'[Len(stream) + 1] = e /\ \A j \in 1..Len(stream) : stream'[j] = stream[j]
  BY <1>0, Appended
<1>3. InOrder'
  <2>0. InOrder /\ Len(stream) + 1 <= EventBound
    BY <1>2, ReviewConstants DEF Followed
  <2>1. CASE e.type = "thread.started" /\ turn = "none"
    BY <1>2, <2>0, <2>1, ReviewConstants DEF InOrder
  <2>2. CASE e.type = "turn.started" /\ turn = "thread.started"
    <3>1. Len(stream) = 1 /\ stream[1].type = "thread.started"
      BY <2>0, <2>2 DEF InOrder
    <3>2. Len(stream') = 2 /\ stream'[2] = e /\ stream'[1] = stream[1]
      BY <1>2, <3>1
    <3> QED BY <1>2, <2>0, <2>2, <3>1, <3>2 DEF InOrder
  <2>3. CASE e.type = "turn.completed" /\ turn = "turn.started" /\ \A i \in Item : items[i].state # "started"
    <3>1. Len(stream) >= 2
      <4>1. Len(stream) # 0 /\ Len(stream) # 1
        BY <2>0, <2>3 DEF InOrder
      <4> QED BY <1>2, <4>1, TwoOrMore
    <3>2. /\ Len(stream') >= 3 /\ stream'[Len(stream')] = e /\ stream'[1] = stream[1] /\ stream'[2] = stream[2]
          /\ \A j \in 3..(Len(stream') - 1) : j \in 3..Len(stream) /\ stream'[j] = stream[j]
      BY <1>2, <3>1
    <3> QED BY <1>2, <2>0, <2>3, <3>1, <3>2 DEF InOrder
  <2> QED BY <2>1, <2>2, <2>3 DEF TurnAllowed
<1>4. ASSUME NEW i \in Item PROVE Tracked(i)'
  <2>1. /\ Ev!Of(stream', i) = Ev!Of(stream, i) /\ \A j \in Ev!Of(stream, i) : stream'[j] = stream[j]
        /\ Ev!Life(stream', i, FALSE) <=> Ev!Life(stream, i, FALSE)
    <3>1. ~(e \in Ev!ItemEvent /\ e.id = i)
      BY <1>1
    <3> QED BY <1>0, <3>1, OthersLive
  <2>2. Tracked(i)
    BY DEF Followed
  <2> QED BY <2>1, <2>2 DEF Tracked
<1>5. Heard'
  <2>1. Ev!Messages(stream') = Ev!Messages(stream) /\ Ev!Messages(stream) \subseteq 1..Len(stream)
    BY <1>0, <1>1, OneMore
  <2> QED BY <1>2, <2>1 DEF Followed, Heard, Ev!LastMessage
<1> QED BY <1>3, <1>4, <1>5 DEF Followed

\* An event of the turn that is refused.
LEMMA TurnLost ==
  ASSUME EvTypes, Followed, NEW e \in Ev!TurnEvent, Longer(stream, e, stream'),
         ~(Len(stream) < EventBound /\ TurnAllowed(e))
  PROVE  Lost'
<1>0. stream \in Seq(Ev!Event) /\ e \in Ev!Event
  BY DEF EvTypes, Ev!Event
<1>1. e \notin Ev!ItemEvent
  BY <1>0, EventKinds
<1>2. /\ Len(stream) \in Nat /\ Len(stream') = Len(stream) + 1
      /\ stream'[Len(stream) + 1] = e /\ \A j \in 1..Len(stream) : stream'[j] = stream[j]
  BY <1>0, Appended
<1>3. CASE ~(Len(stream) < EventBound)
  <2>1. ~Ev!Opened(stream')
    BY <1>2, <1>3, ReviewConstants DEF Ev!Opened
  <2> QED BY <2>1 DEF Lost, Ev!Closed, Ev!Unfinished
<1>4. CASE ~TurnAllowed(e)
  <2>1. ASSUME Ev!Unfinished(stream') PROVE FALSE
    <3>0. Len(stream') >= 2
      BY <2>1 DEF Ev!Unfinished, Ev!Opened
    <3>1. stream'[2].type = "turn.started" /\ \A j \in 3..Len(stream') : stream'[j] \in Ev!ItemEvent
      BY <2>1 DEF Ev!Unfinished, Ev!Opened
    <3>2. CASE Len(stream) = 1
      <4>1. e.type = "turn.started"
        BY <1>2, <3>1, <3>2
      <4> QED BY <1>4, <3>2, <4>1 DEF TurnAllowed, Followed, InOrder
    <3>3. CASE Len(stream) >= 2
      <4>1. Len(stream) + 1 \in 3..Len(stream')
        BY <1>2, <3>3
      <4> QED BY <1>1, <1>2, <3>1, <4>1
    <3>4. Len(stream) = 1 \/ Len(stream) >= 2
      <4>1. Len(stream) # 0
        BY <1>2, <3>0
      <4> QED BY <1>2, <4>1, TwoOrMore
    <3> QED BY <3>2, <3>3, <3>4
  <2>2. ASSUME Ev!Closed(stream') PROVE FALSE
    <3>0. /\ Len(stream') >= 2 /\ stream'[2].type = "turn.started" /\ stream'[Len(stream')].type = "turn.completed"
          /\ \A j \in 3..(Len(stream') - 1) : stream'[j] \in Ev!ItemEvent
          /\ \A i \in Item : Ev!Life(stream', i, TRUE)
      BY <2>2 DEF Ev!Closed, Ev!Opened
    <3>1. e.type = "turn.completed"
      BY <1>2, <3>0
    <3>2. Len(stream) >= 2
      <4>1. Len(stream) # 0
        BY <1>2, <3>0
      <4>2. CASE Len(stream) = 1
        BY <1>2, <3>0, <3>1, <4>2
      <4> QED BY <1>2, <4>1, <4>2, TwoOrMore
    <3>3. \A j \in 3..Len(stream) : stream[j] \in Ev!ItemEvent
      <4>1. \A j \in 3..Len(stream) : j \in 3..(Len(stream') - 1) /\ j \in 1..Len(stream)
        BY <1>2
      <4> QED BY <1>2, <3>0, <4>1
    <3>4. turn = "turn.started"
      BY <3>2, <3>3, OpenTurn DEF Followed
    <3>5. PICK i \in Item : items[i].state = "started"
      BY <1>4, <3>1, <3>4 DEF TurnAllowed
    <3>6. Ev!Of(stream, i) # {} /\ ~ \E j \in Ev!Of(stream, i) : stream[j].type = "item.completed"
      BY <3>5 DEF Followed, Tracked
    <3>7. ~(e \in Ev!ItemEvent /\ e.id = i)
      BY <1>1
    <3>8. Ev!Of(stream', i) = Ev!Of(stream, i) /\ (Ev!Life(stream', i, TRUE) <=> Ev!Life(stream, i, TRUE))
      BY <1>0, <3>7, OthersLive
    <3> QED BY <3>0, <3>6, <3>8 DEF Ev!Life
  <2> QED BY <2>1, <2>2 DEF Lost
<1> QED BY <1>3, <1>4

ItemAllowed(e) ==
    /\ turn = "turn.started"
    /\ \/ e.type = "item.started" /\ items[e.id] = Ev!Unseen
       \/ e.type = "item.updated" /\ items[e.id] = [state |-> "started", kind |-> e.kind]
       \/ /\ e.type = "item.completed" /\ e.text # "blank"
          /\ items[e.id] \in {Ev!Unseen, [state |-> "started", kind |-> e.kind]}

ItemConsumed(e) ==
    /\ items' = [items EXCEPT ![e.id] =
                    [state |-> IF e.type = "item.completed" THEN "completed" ELSE "started", kind |-> e.kind]]
    /\ message' = IF e.type = "item.completed" /\ e.kind = "agent_message" THEN e.text ELSE message

\* The item of an event that is consumed.
LEMMA ItemLives ==
  ASSUME EvTypes, Followed, NEW e \in Ev!Event, e \in Ev!ItemEvent, Longer(stream, e, stream'),
         ItemConsumed(e), ItemAllowed(e)
  PROVE  Tracked(e.id)'
<1> DEFINE i == e.id
           n == Len(stream)
           mine == Ev!Of(stream, i)
<1>1. /\ stream \in Seq(Ev!Event) /\ i \in Item
      /\ items \in [Item -> [state : {"none", "started", "completed"}, kind : {"none", "agent_message", "tool"}]]
      /\ e.kind \in {"agent_message", "tool"} /\ e.type \in {"item.started", "item.updated", "item.completed"}
  BY EventKinds DEF EvTypes
<1>2. n \in Nat /\ stream'[n + 1] = e /\ \A j \in 1..n : stream'[j] = stream[j]
  BY <1>1, Appended
<1>3. mine \subseteq 1..n /\ Ev!Of(stream', i) = mine \cup {n + 1}
  BY <1>1, OneMore
<1>4. \A j \in mine : stream'[j] = stream[j] /\ j < n + 1 /\ j \in Nat
  BY <1>2, <1>3
<1>5. items'[i] = [state |-> IF e.type = "item.completed" THEN "completed" ELSE "started", kind |-> e.kind]
  BY <1>1 DEF ItemConsumed
<1>6. e.text # "blank"
  <2>1. e.text = "review" \/ e.type = "item.completed"
    BY EventKinds DEF Ev!Event
  <2> QED BY <2>1 DEF ItemAllowed
<1>7. /\ items[i].state = "none" <=> mine = {}
      /\ items[i].state = "completed" <=> \E j \in mine : stream[j].type = "item.completed"
      /\ \A j \in mine : stream[j].kind = items[i].kind
      /\ Ev!Life(stream, i, FALSE)
  BY <1>1 DEF Followed, Tracked
<1>11. /\ \A j, k \in mine : /\ stream[j].kind = stream[k].kind
                             /\ stream[j].type = "item.started"   => j <= k
                             /\ stream[j].type = "item.completed" => k <= j
       /\ \A j \in mine : /\ stream[j].text # "blank"
                          /\ stream[j].type = "item.updated" => \E k \in mine : k < j
  BY <1>7 DEF Ev!Life
<1> HIDE DEF mine, n
<1>8. /\ ~ \E j \in mine : stream'[j].type = "item.completed"
      /\ \A j \in mine : stream'[j].kind = e.kind
      /\ e.type = "item.started" => mine = {}
      /\ e.type = "item.updated" => mine # {}
  <2>1. \/ items[i].state = "none" /\ e.type # "item.updated"
        \/ items[i].state = "started" /\ items[i].kind = e.kind /\ e.type # "item.started"
    BY <1>1 DEF ItemAllowed, Ev!Unseen, Ev!None
  <2> HIDE DEF i
  <2>2. CASE items[i].state = "none" /\ e.type # "item.updated"
    BY <1>7, <2>2
  <2>3. CASE items[i].state = "started" /\ items[i].kind = e.kind /\ e.type # "item.started"
    BY <1>4, <1>7, <2>3
  <2> QED BY <2>1, <2>2, <2>3
<1>9. Ev!Life(stream', i, FALSE)
  <2> DEFINE all == mine \cup {n + 1}
  <2>1. ASSUME NEW j \in all, NEW k \in all
        PROVE  /\ stream'[j].kind = stream'[k].kind
               /\ stream'[j].type = "item.started"   => j <= k
               /\ stream'[j].type = "item.completed" => k <= j
    <3>1. CASE j \in mine /\ k \in mine
      BY <1>4, <1>11, <3>1
    <3>2. CASE j = n + 1 /\ k \in mine
      BY <1>2, <1>4, <1>8, <3>2
    <3>3. CASE j \in mine /\ k = n + 1
      BY <1>2, <1>4, <1>8, <3>3
    <3>4. CASE j = n + 1 /\ k = n + 1
      BY <1>2, <3>4
    <3> QED BY <3>1, <3>2, <3>3, <3>4
  <2>2. ASSUME NEW j \in all
        PROVE  /\ stream'[j].text # "blank"
               /\ stream'[j].type = "item.updated" => \E k \in all : k < j
    <3>1. CASE j \in mine
      <4>1. stream'[j] = stream[j] /\ stream[j].text # "blank"
        BY <1>4, <1>11, <3>1
      <4>2. stream[j].type = "item.updated" => \E k \in mine : k < j
        BY <1>11, <3>1
      <4> QED BY <4>1, <4>2
    <3>2. CASE j = n + 1
      BY <1>2, <1>4, <1>6, <1>8, <3>2
    <3> QED BY <3>1, <3>2
  <2> QED BY <1>3, <2>1, <2>2 DEF Ev!Life
<1> HIDE DEF mine, n, i
<1>10. Tracked(i)'
  <2> DEFINE all == mine \cup {n + 1}
  <2>1. all # {} /\ \A j \in all : stream'[j].kind = e.kind
    BY <1>2, <1>8
  <2>2. e.type = "item.completed" <=> \E j \in all : stream'[j].type = "item.completed"
    BY <1>2, <1>8
  <2>3. items'[i].kind = e.kind /\ items'[i].state = IF e.type = "item.completed" THEN "completed" ELSE "started"
    BY <1>5
  <2> HIDE DEF all
  <2>4. Ev!Of(stream', i) = all
    BY <1>3 DEF all
  <2> QED BY <1>9, <2>1, <2>2, <2>3, <2>4 DEF Tracked
<1> QED BY <1>10 DEF i

LEMMA ItemFollowed ==
  ASSUME EvTypes, Followed, NEW e \in Ev!Event, e \in Ev!ItemEvent, Longer(stream, e, stream'),
         Len(stream) < EventBound, UNCHANGED turn, ItemConsumed(e), ItemAllowed(e)
  PROVE  Followed' /\ message' \in {"none", "review", "prose"}
<1>1. /\ stream \in Seq(Ev!Event) /\ e.id \in Item /\ e.text \in {"review", "prose", "blank"}
      /\ items \in [Item -> [state : {"none", "started", "completed"}, kind : {"none", "agent_message", "tool"}]]
      /\ message \in {"none", "review", "prose"}
  BY EventKinds DEF EvTypes
<1>2. /\ Len(stream) \in Nat /\ Len(stream') = Len(stream) + 1
      /\ stream'[Len(stream) + 1] = e /\ \A j \in 1..Len(stream) : stream'[j] = stream[j]
  BY <1>1, Appended
<1>3. InOrder'
  <2>0. InOrder /\ turn = "turn.started" /\ turn' = "turn.started"
    BY DEF ItemAllowed, Followed
  <2>1. Len(stream) >= 2 /\ Len(stream') >= 3 /\ Len(stream') <= EventBound
    <3>1. Len(stream) # 0 /\ Len(stream) # 1
      BY <2>0 DEF InOrder
    <3>2. Len(stream) >= 2
      BY <1>2, <3>1, TwoOrMore
    <3> QED BY <1>2, <3>2, ReviewConstants
  <2>2. stream'[1].type = "thread.started" /\ stream'[2].type = "turn.started"
    BY <1>2, <2>0, <2>1 DEF InOrder
  <2>3. ASSUME NEW j \in 3..Len(stream') PROVE stream'[j] \in Ev!ItemEvent
    <3>1. j \in 3..Len(stream) \/ j = Len(stream) + 1
      BY <1>2
    <3>2. CASE j \in 3..Len(stream)
      <4>1. j \in 1..Len(stream) /\ stream[j] \in Ev!ItemEvent
        BY <1>2, <2>0, <3>2 DEF InOrder
      <4> QED BY <1>2, <4>1
    <3> QED BY <1>2, <3>1, <3>2
  <2> QED BY <1>2, <2>0, <2>1, <2>2, <2>3 DEF InOrder
<1>4. ASSUME NEW i \in Item PROVE Tracked(i)'
  <2>1. CASE i = e.id
    BY <2>1, ItemLives
  <2>2. CASE i # e.id
    <3>1. /\ Ev!Of(stream', i) = Ev!Of(stream, i) /\ \A j \in Ev!Of(stream, i) : stream'[j] = stream[j]
          /\ Ev!Life(stream', i, FALSE) <=> Ev!Life(stream, i, FALSE)
      <4>1. ~(e \in Ev!ItemEvent /\ e.id = i)
        BY <2>2
      <4>2. stream \in Seq(Ev!Event)
        BY <1>1
      <4> QED BY <4>1, <4>2, OthersLive
    <3>2. items'[i] = items[i]
      BY <1>1, <2>2 DEF ItemConsumed
    <3>3. Tracked(i)
      BY DEF Followed
    <3> QED BY <3>1, <3>2, <3>3 DEF Tracked
  <2> QED BY <2>1, <2>2
<1>5. Heard' /\ message' \in {"none", "review", "prose"}
  <2>1. Ev!Messages(stream) \subseteq 1..Len(stream)
    BY <1>1, OneMore
  <2>2. CASE e.type = "item.completed" /\ e.kind = "agent_message"
    <3>1. Ev!Messages(stream') = Ev!Messages(stream) \cup {Len(stream) + 1}
      BY <1>1, <2>2, OneMore
    <3>2. message' = e.text /\ e.text # "blank"
      BY <2>2 DEF ItemConsumed, ItemAllowed
    <3>3. \A k \in Ev!Messages(stream') : k <= Len(stream) + 1
      BY <1>2, <2>1, <3>1
    <3> QED BY <1>1, <1>2, <3>1, <3>2, <3>3 DEF Heard, Ev!LastMessage
  <2>3. CASE ~(e.type = "item.completed" /\ e.kind = "agent_message")
    <3>1. Ev!Messages(stream') = Ev!Messages(stream)
      BY <1>1, <2>3, OneMore
    <3>2. message' = message
      BY <2>3 DEF ItemConsumed
    <3> QED BY <1>1, <1>2, <2>1, <3>1, <3>2 DEF Followed, Heard, Ev!LastMessage
  <2> QED BY <2>2, <2>3
<1> QED BY <1>3, <1>4, <1>5 DEF Followed

\* An event of an item that is refused.
LEMMA ItemLost ==
  ASSUME EvTypes, Followed, NEW e \in Ev!Event, e \in Ev!ItemEvent, Longer(stream, e, stream'),
         ~(Len(stream) < EventBound /\ ItemAllowed(e))
  PROVE  Lost'
<1> DEFINE i == e.id
           n == Len(stream)
           mine == Ev!Of(stream, i)
<1>1. /\ stream \in Seq(Ev!Event) /\ i \in Item
      /\ items \in [Item -> [state : {"none", "started", "completed"}, kind : {"none", "agent_message", "tool"}]]
      /\ e.kind \in {"agent_message", "tool"} /\ e.type \in {"item.started", "item.updated", "item.completed"}
  BY EventKinds DEF EvTypes
<1>2. n \in Nat /\ Len(stream') = n + 1 /\ stream'[n + 1] = e /\ \A j \in 1..n : stream'[j] = stream[j]
  BY <1>1, Appended
<1>3. CASE ~(n < EventBound)
  <2>1. ~Ev!Opened(stream')
    BY <1>2, <1>3, ReviewConstants DEF Ev!Opened
  <2> QED BY <2>1 DEF Lost, Ev!Closed, Ev!Unfinished
<1>4. ~Ev!Closed(stream')
  BY <1>1, <1>2 DEF Ev!Closed
<1>5. ASSUME ~ItemAllowed(e), Ev!Unfinished(stream') PROVE FALSE
  <2>1. /\ n >= 1 /\ stream'[2].type = "turn.started" /\ Ev!Life(stream', i, FALSE)
        /\ \A j \in 3..(n + 1) : stream'[j] \in Ev!ItemEvent
    <3>1. /\ Len(stream') >= 2 /\ stream'[2].type = "turn.started" /\ Ev!Life(stream', i, FALSE)
          /\ \A j \in 3..Len(stream') : stream'[j] \in Ev!ItemEvent
      BY <1>1, <1>5 DEF Ev!Unfinished, Ev!Opened
    <3>2. n >= 1
      BY <1>2, <3>1
    <3>3. Len(stream') = n + 1
      BY <1>2
    <3> HIDE DEF n
    <3> QED BY <3>1, <3>2, <3>3
  <2>2. n >= 2
    BY <1>1, <1>2, <2>1
  <2>3. \A j \in 3..n : stream[j] \in Ev!ItemEvent
    <3>1. \A j \in 3..n : j \in 3..(n + 1) /\ j \in 1..n
      BY <1>2
    <3> QED BY <1>2, <2>1, <3>1
  <2>4. turn = "turn.started"
    BY <2>2, <2>3, OpenTurn DEF Followed
  <2>5. mine \subseteq 1..n /\ Ev!Of(stream', i) = mine \cup {n + 1}
    BY <1>1, OneMore
  <2>6. \A j \in mine : stream'[j] = stream[j] /\ j < n + 1 /\ ~(n + 1 <= j) /\ j \in Ev!Of(stream', i)
    BY <1>2, <2>5
  <2>7. n + 1 \in Ev!Of(stream', i)
    BY <2>5
  <2>8. /\ items[i].state = "none" <=> mine = {}
        /\ items[i].state = "none" => items[i] = Ev!Unseen
        /\ items[i].state = "completed" <=> \E j \in mine : stream[j].type = "item.completed"
        /\ \A j \in mine : stream[j].kind = items[i].kind
    BY <1>1 DEF Followed, Tracked
  <2>9. /\ \A j, k \in Ev!Of(stream', i) :
               /\ stream'[j].kind = stream'[k].kind
               /\ stream'[j].type = "item.started"   => j <= k
               /\ stream'[j].type = "item.completed" => k <= j
        /\ \A j \in Ev!Of(stream', i) :
               /\ stream'[j].text # "blank"
               /\ stream'[j].type = "item.updated" => \E k \in Ev!Of(stream', i) : k < j
    BY <2>1 DEF Ev!Life
  <2> HIDE DEF mine, n, i
  <2>10. e.text # "blank"
    BY <1>2, <2>7, <2>9
  <2>11. items[i].state # "completed"
    BY <2>6, <2>7, <2>8, <2>9
  <2>12. e.type = "item.started" => mine = {}
    BY <1>2, <2>6, <2>7, <2>9
  <2>13. e.type = "item.updated" => mine # {}
    <3>1. ASSUME e.type = "item.updated" PROVE mine # {}
      <4>1. PICK k \in Ev!Of(stream', i) : k < n + 1
        BY <1>2, <2>7, <2>9, <3>1
      <4> QED BY <1>2, <2>5, <4>1
    <3> QED BY <3>1
  <2>14. mine # {} => items[i].kind = e.kind
    <3>1. ASSUME NEW j \in mine PROVE items[i].kind = e.kind
      <4>1. stream'[j].kind = stream'[n + 1].kind
        BY <2>6, <2>7, <2>9
      <4> QED BY <1>2, <2>6, <2>8, <4>1
    <3> QED BY <3>1
  <2>15. mine # {} => items[i] = [state |-> "started", kind |-> e.kind]
    <3>1. mine # {} => items[i].state = "started"
      BY <1>1, <2>8, <2>11
    <3> QED BY <1>1, <2>14, <3>1
  <2> QED BY <1>1, <1>5, <2>4, <2>8, <2>10, <2>12, <2>13, <2>15 DEF ItemAllowed, i
<1> QED BY <1>3, <1>4, <1>5 DEF Lost

LEMMA EvStep == ASSUME EvInv, [Ev!Next]_eventVars PROVE EvInv'
<1> USE DEF Ev!None
<1>0. EvTypes
  BY DEF EvInv
<1>1. CASE UNCHANGED eventVars
  <2>1. UNCHANGED <<stream, turn, items, message, failure, answer>>
    BY <1>1 DEF eventVars
  <2> QED BY <2>1 DEF EvInv, EvTypes, Followed, InOrder, Tracked, Heard, Lost, Verdict, Ev!Unseen
<1>2. CASE Ev!End
  <2>1. UNCHANGED <<stream, turn, items, message, failure>> /\ answer' = Verdict
    BY <1>2 DEF Ev!End, Verdict
  <2> QED BY <2>1 DEF EvInv, EvTypes, Followed, InOrder, Tracked, Heard, Lost, Verdict, Ev!Unseen
<1>3. ASSUME NEW e \in Ev!Event, Ev!ConsumeTurn(e) PROVE EvInv'
  <2>1. /\ e \in Ev!TurnEvent /\ answer = "none" /\ answer' = "none" /\ ~failure
        /\ Longer(stream, e, stream') /\ failure' \in BOOLEAN
        /\ turn' = (IF failure' THEN turn ELSE e.type) /\ UNCHANGED <<items, message>>
    BY <1>3 DEF Ev!ConsumeTurn, Ev!Accept, Longer
  <2>2. failure' <=> ~(Len(stream) < EventBound /\ TurnAllowed(e))
    BY <1>3 DEF Ev!ConsumeTurn, Ev!Accept, TurnAllowed
  <2>3. Followed /\ stream' \in Seq(Ev!Event)
    BY <1>0, <2>1, Appended DEF EvInv, EvTypes
  <2>4. CASE failure'
    <3>1. Lost' /\ UNCHANGED turn
      BY <1>0, <2>1, <2>2, <2>3, <2>4, TurnLost
    <3> QED BY <1>0, <2>1, <2>3, <2>4, <3>1 DEF EvInv, EvTypes
  <2>5. CASE ~failure'
    <3>1. Followed'
      BY <1>0, <2>1, <2>2, <2>3, <2>5, TurnFollowed
    <3>2. turn' \in {"none", "thread.started", "turn.started", "turn.completed"}
      BY <2>1, <2>2, <2>5 DEF TurnAllowed
    <3> QED BY <1>0, <2>1, <2>3, <2>5, <3>1, <3>2 DEF EvInv, EvTypes
  <2> QED BY <2>4, <2>5
<1>4. ASSUME NEW e \in Ev!Event, Ev!ConsumeItem(e) PROVE EvInv'
  <2>1. /\ e \in Ev!ItemEvent /\ answer = "none" /\ answer' = "none" /\ ~failure
        /\ Longer(stream, e, stream') /\ failure' \in BOOLEAN /\ UNCHANGED turn
        /\ failure' => UNCHANGED <<items, message>>
        /\ ~failure' => ItemConsumed(e)
    BY <1>4 DEF Ev!ConsumeItem, Ev!Accept, ItemConsumed, Longer
  <2>2. e.type \in {"item.started", "item.updated", "item.completed"} /\ e.kind \in {"agent_message", "tool"}
        /\ e.id \in Item
    BY <2>1, EventKinds
  <2>3. failure' <=> ~(Len(stream) < EventBound /\ ItemAllowed(e))
    BY <1>4, <2>2 DEF Ev!ConsumeItem, Ev!Accept, ItemAllowed
  <2>4. Followed /\ stream' \in Seq(Ev!Event)
    BY <1>0, <2>1, Appended DEF EvInv, EvTypes
  <2>5. CASE failure'
    <3>1. Lost'
      BY <1>0, <2>1, <2>3, <2>4, <2>5, ItemLost
    <3> QED BY <1>0, <2>1, <2>4, <2>5, <3>1 DEF EvInv, EvTypes
  <2>6. CASE ~failure'
    <3>1. Followed' /\ message' \in {"none", "review", "prose"}
      BY <1>0, <2>1, <2>3, <2>4, <2>6, ItemFollowed
    <3>2. items' \in [Item -> [state : {"none", "started", "completed"}, kind : {"none", "agent_message", "tool"}]]
      BY <1>0, <2>1, <2>2, <2>6 DEF ItemConsumed, EvTypes
    <3> QED BY <1>0, <2>1, <2>4, <2>6, <3>1, <3>2 DEF EvInv, EvTypes
  <2> QED BY <2>5, <2>6
<1> QED BY <1>1, <1>2, <1>3, <1>4 DEF Ev!Next

\* What the parser kept is enough for its answer.
LEMMA VerdictRight == ASSUME EvInv PROVE Ev!ParserAgrees
<1> SUFFICES ASSUME answer # "none"
             PROVE  /\ answer = "complete" <=> Ev!Closed(stream) /\ Ev!LastMessage(stream, "review")
                    /\ answer = "retryable" <=> \/ Ev!Unfinished(stream)
                                                \/ Ev!Closed(stream) /\ Ev!Messages(stream) = {}
  BY DEF Ev!ParserAgrees, Ev!None
<1>0. EvTypes /\ answer = Verdict
  BY DEF EvInv
<1>1. CASE failure
  BY <1>0, <1>1 DEF EvInv, Lost, Verdict
<1>2. CASE ~failure
  <2>0. Followed /\ InOrder /\ Heard
    BY <1>2 DEF EvInv, Followed
  <2>1. Len(stream) \in Nat /\ \A j \in 1..Len(stream) : stream[j] \in Ev!Event
    BY <1>0 DEF EvTypes
  <2>2. CASE turn \in {"none", "thread.started"}
    <3>1. ~Ev!Opened(stream)
      BY <2>0, <2>1, <2>2 DEF InOrder, Ev!Opened
    <3> QED BY <1>0, <2>2, <3>1 DEF Verdict, Ev!Closed, Ev!Unfinished
  <2>3. CASE turn = "turn.started"
    <3>1. Ev!Opened(stream)
      BY <2>0, <2>1, <2>3 DEF InOrder, Ev!Opened
    <3>2. Ev!Unfinished(stream)
      BY <2>0, <2>3, <3>1 DEF InOrder, Ev!Unfinished, Followed, Tracked
    <3>3. stream[Len(stream)].type # "turn.completed"
      <4>1. CASE Len(stream) = 2
        BY <3>1, <4>1 DEF Ev!Opened
      <4>2. CASE Len(stream) >= 3
        <5>1. Len(stream) \in 3..Len(stream) /\ Len(stream) \in 1..Len(stream)
          BY <2>1, <4>2
        <5>2. stream[Len(stream)] \in Ev!ItemEvent
          BY <2>0, <2>3, <5>1 DEF InOrder
        <5> QED BY <2>1, <5>1, <5>2, EventKinds
      <4> QED BY <2>1, <3>1, <4>1, <4>2 DEF Ev!Opened
    <3> QED BY <1>0, <1>2, <2>3, <3>2, <3>3 DEF Verdict, Ev!Closed
  <2>4. CASE turn = "turn.completed"
    <3>1. Len(stream) >= 3 /\ stream[Len(stream)].type = "turn.completed"
      BY <2>0, <2>4 DEF InOrder
    <3>2. Ev!Closed(stream)
      <4>1. Ev!Opened(stream)
        BY <2>0, <2>1, <3>1 DEF InOrder, Ev!Opened
      <4>2. ASSUME NEW i \in Item PROVE Ev!Life(stream, i, TRUE)
        <5>1. items[i].state \in {"none", "completed"} /\ Tracked(i)
          BY <1>0, <2>0, <2>4 DEF EvTypes, InOrder, Followed
        <5> QED BY <5>1 DEF Tracked, Ev!Life
      <4> QED BY <2>0, <2>4, <3>1, <4>1, <4>2 DEF InOrder, Ev!Closed
    <3>3. ~Ev!Unfinished(stream)
      <4>1. Len(stream) \in 3..Len(stream) /\ Len(stream) \in 1..Len(stream)
        BY <2>1, <3>1
      <4>2. stream[Len(stream)] \notin Ev!ItemEvent
        BY <2>1, <3>1, <4>1, EventKinds
      <4> QED BY <4>1, <4>2 DEF Ev!Unfinished
    <3>4. CASE message = "none"
      <4>1. Ev!Messages(stream) = {} /\ ~Ev!LastMessage(stream, "review")
        BY <2>0, <3>4 DEF Heard, Ev!LastMessage
      <4> QED BY <1>0, <1>2, <2>4, <3>2, <3>4, <4>1 DEF Verdict
    <3>5. CASE message = "review"
      <4>1. Ev!Messages(stream) # {} /\ Ev!LastMessage(stream, "review")
        BY <2>0, <3>5 DEF Heard
      <4> QED BY <1>0, <1>2, <2>4, <3>2, <3>3, <3>5, <4>1 DEF Verdict
    <3>6. CASE message = "prose"
      <4>1. Ev!Messages(stream) # {} /\ Ev!LastMessage(stream, "prose") /\ Ev!Messages(stream) \subseteq 1..Len(stream)
        BY <2>0, <3>6 DEF Heard, Ev!Messages
      <4>2. ~Ev!LastMessage(stream, "review")
        BY <2>1, <4>1 DEF Ev!LastMessage
      <4> QED BY <1>0, <1>2, <2>4, <3>2, <3>3, <3>6, <4>1, <4>2 DEF Verdict
    <3> QED BY <1>0, <3>4, <3>5, <3>6 DEF EvTypes
  <2> QED BY <1>0, <2>2, <2>3, <2>4 DEF EvTypes
<1> QED BY <1>1, <1>2

LEMMA EvInvariant == MCSpec => []EvInv
<1>1. MCInit => EvInv
  <2> SUFFICES ASSUME MCInit PROVE EvInv
    OBVIOUS
  <2>1. /\ stream = <<>> /\ turn = "none" /\ items = [i \in Item |-> Ev!Unseen]
        /\ message = "none" /\ failure = FALSE /\ answer = "none"
    BY DEF MCInit, Ev!Init, Ev!None
  <2>2. EvTypes
    <3>1. Ev!Unseen \in [state : {"none", "started", "completed"}, kind : {"none", "agent_message", "tool"}]
      BY DEF Ev!Unseen, Ev!None
    <3>2. <<>> \in Seq(Ev!Event)
      OBVIOUS
    <3>3. items \in [Item -> [state : {"none", "started", "completed"}, kind : {"none", "agent_message", "tool"}]]
      BY <2>1, <3>1
    <3> QED BY <2>1, <3>2, <3>3 DEF EvTypes
  <2>3. Len(stream) = 0 /\ 1..0 = {}
    BY <2>1
  <2>4. (\A i : Ev!Of(stream, i) = {}) /\ Ev!Messages(stream) = {}
    BY <2>3 DEF Ev!Of, Ev!Messages
  <2>5. InOrder
    BY <2>1, <2>3, ReviewConstants DEF InOrder
  <2>6. ASSUME NEW i \in Item PROVE Tracked(i)
    BY <2>1, <2>4 DEF Tracked, Ev!Life, Ev!Unseen, Ev!None
  <2> QED BY <2>1, <2>2, <2>4, <2>5, <2>6 DEF EvInv, Followed, Heard
<1>2. EvInv /\ [MCNext]_mcVars => EvInv'
  BY StepOfComponents, EvStep
<1> QED BY <1>1, <1>2, PTL DEF MCSpec

\* A review is available exactly for a closed stream whose last message is a
\* review, and an attempt is repeated exactly for a legal stream cut short or
\* a closed one without a message, for streams of any length
\* (createCodexReviewEventParser).
THEOREM ParserAgreesCorrect == MCSpec => []ParserAgrees
<1>1. EvInv => ParserAgrees
  BY VerdictRight DEF ParserAgrees
<1> QED BY <1>1, EvInvariant, PTL

(***************************************************************************)
(* The values of the variables.  The components' own invariants have most  *)
(* of their types; what follows adds the rest.                             *)
(***************************************************************************)
RecRest ==
    /\ recorded \in Rec!Package /\ covered \subseteq Rec!Package /\ lapsed \subseteq Rec!Record
    /\ returned \subseteq [by : LaunchId \cup {"direct"}, package : Rec!Package]

LEMMA RecRestStep == ASSUME RecTypes, RecRest, [Rec!Next]_recoveryVars PROVE RecRest'
<1> USE DEF RecRest
<1>1. ASSUME NEW l \in LaunchId, Rec!HostStep(l) \/ Rec!Kill(l) PROVE RecRest'
  BY <1>1, HostLeavesCaller
<1>2. ASSUME NEW r \in Rec!Record, Rec!Expire(r) PROVE RecRest'
  BY <1>2 DEF Rec!Expire, Rec!callVars
<1>3. CASE Rec!Correct
  <2>1. package + 1 \in Rec!Package
    BY <1>3, ReviewConstants DEF Rec!Correct, Rec!Package, RecTypes
  <2>2. covered' \subseteq Rec!Package
    BY <1>3, <2>1 DEF Rec!Correct
  <2> QED BY <1>3, <2>2 DEF Rec!Correct, Rec!callVars
<1>4. \A r \in {[by |-> b, package |-> p] : b \in LaunchId \cup {"direct"}, p \in Rec!Package} :
          returned \cup {r} \subseteq [by : LaunchId \cup {"direct"}, package : Rec!Package]
  OBVIOUS
<1>5. CASE Rec!DirectReturns
  <2>1. package \in Rec!Package
    BY DEF RecTypes
  <2>2. returned' = returned \/ returned' = returned \cup {[by |-> "direct", package |-> package]}
    BY <1>5 DEF Rec!DirectReturns
  <2> QED BY <1>5, <2>1, <2>2 DEF Rec!DirectReturns, Rec!authVars
<1>6. ASSUME NEW l \in LaunchId, Rec!TransportReturns(l) PROVE RecRest'
  <2>1. caller.at = "waiting" /\ UNCHANGED <<recorded, covered, lapsed>>
    BY <1>6 DEF Rec!TransportReturns, Rec!authVars
  <2>2. caller.launch \in LaunchId
    BY <2>1 DEF RecTypes, Rec!Idle
  <2>3. request[caller.launch].package \in Rec!Package
    BY <2>2, ReviewConstants DEF RecTypes, Rec!Durable, Rec!NoRecord, Rec!Package
  <2>4. returned' = returned \/ returned' = returned \cup {[by |-> l, package |-> request[caller.launch].package]}
    BY <1>6 DEF Rec!TransportReturns
  <2> QED BY <2>1, <2>3, <2>4
<1> QED
  BY <1>1, <1>2, <1>3, <1>5, <1>6
     DEF Rec!Next, Rec!StrictFails, Rec!TransportGivesUp, Rec!InvokeDirect, Rec!Recover, Rec!authVars,
         Rec!callVars, recoveryVars

\* The line that makes the stream too long is its last.
StreamBounded == Len(stream) <= EventBound + 1

LEMMA StreamBoundedStep == ASSUME EvInv, StreamBounded, [Ev!Next]_eventVars PROVE StreamBounded'
<1>1. CASE UNCHANGED stream
  BY <1>1 DEF StreamBounded
<1>2. ASSUME NEW e, NEW allowed, Ev!Accept(e, allowed) PROVE StreamBounded'
  <2>1. Len(stream) <= EventBound /\ stream \in Seq(Ev!Event) /\ stream' = Append(stream, e)
    BY <1>2 DEF Ev!Accept, EvInv, EvTypes, Followed, InOrder
  <2>2. Len(stream') = Len(stream) + 1
    BY <2>1
  <2> QED BY <2>1, <2>2, ReviewConstants DEF StreamBounded
<1> QED BY <1>1, <1>2 DEF Ev!Next, Ev!End, Ev!ConsumeTurn, Ev!ConsumeItem, eventVars

LEMMA EvTyped == EvInv /\ StreamBounded => Ev!TypeOK
<1> SUFFICES ASSUME EvInv, StreamBounded PROVE Ev!TypeOK
  OBVIOUS
<1>1. answer \in Ev!Answer
  BY DEF EvInv, Verdict, Ev!Answer, Ev!None
<1> QED BY <1>1 DEF EvInv, EvTypes, StreamBounded, Ev!TypeOK, Ev!None, Ev!Kind

LEMMA RecTyped == RecInv /\ RecRest => Rec!TypeOK
BY DEF RecInv, RecTypes, RecRest, HostState, Rec!TypeOK

\* Every variable of every component keeps to its type, for every value of
\* the constants: no stream is consumed further than one line over its bound,
\* no capture attempts more than twice, and no review is returned but of one
\* of the packages (createCodexReviewEventParser, executeCodexCaptureRequest,
\* executeAuthorizedIndependentReview).
THEOREM TypesCorrect == MCSpec => []TypesOK
<1>1. MCInit => RecRest /\ StreamBounded
  <2> SUFFICES ASSUME MCInit PROVE RecRest /\ StreamBounded
    OBVIOUS
  <2>1. RecRest
    BY ReviewConstants DEF MCInit, Rec!Init, RecRest, Rec!Package
  <2>2. Len(stream) = 0
    BY DEF MCInit, Ev!Init
  <2> QED BY <2>1, <2>2, ReviewConstants DEF StreamBounded
<1>2. RecInv /\ EvInv /\ RecRest /\ StreamBounded /\ [MCNext]_mcVars => (RecRest /\ StreamBounded)'
  BY StepOfComponents, RecRestStep, StreamBoundedStep DEF RecInv
<1>3. TypeOK /\ RecInv /\ RecRest /\ EvInv /\ StreamBounded => TypesOK
  BY EvTyped, RecTyped DEF TypesOK
<1>4. MCSpec => []TypeOK
  <2>1. MCInit => Init
    BY DEF MCInit
  <2>2. [MCNext]_mcVars => [Next]_vars
    BY DEF MCNext, mcVars
  <2>3. MCSpec => Spec
    BY <2>1, <2>2, PTL DEF MCSpec, Spec
  <2> QED BY <2>3, TypeCorrect
<1> QED BY <1>1, <1>2, <1>3, <1>4, RecInvariant, EvInvariant, PTL DEF MCSpec

===============================================================================
