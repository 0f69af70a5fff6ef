------------------------------ MODULE MergeGate ------------------------------
(***************************************************************************)
(* From Apply to the permission to merge, in the production profile.  A    *)
(* readiness admission opens Apply; the dispatcher runs the independent    *)
(* review of a sealed package; what becomes durable is recorded in the     *)
(* change's checkpoint entry, and the authorization check permits a merge  *)
(* from that entry alone.  Meanwhile corrections and pushes that nobody    *)
(* recorded move the head, authorizations expire and a session dies with   *)
(* what it has not recorded.                                               *)
(*                                                                         *)
(* A head stands for the package sealed from it.                           *)
(***************************************************************************)
EXTENDS OperationContract, Sequences, FiniteSets

CONSTANTS Signature,    \* the failures that a review may find
          MaxHead,      \* bound on the pushes
          MaxApply,     \* bound on the runs of Apply
          MaxReviews,   \* bound on the recorded reviews
          MaxRefusals   \* bound on the records of an unavailable strict review

\* A chain of corrections has at most three records of one failure, whatever
\* budget the authorization has.
Most == 3

ASSUME GateConstants ==
    /\ CorrectionBudget \in 0..Most /\ MaxHead \in Nat /\ MaxApply \in Nat
    /\ Signature \cap {"none", "drift"} = {}

VARIABLES
    head,       \* the live head of the pull request
    pushed,     \* how each head came about
    clock,      \* how many runs of Apply have completed
    entry,      \* the selected entry of the durable checkpoint
    admitted,   \* whether an admission evidence in force is of the live head
    lapsed,     \* the authorizations that expired
    dispatch,   \* the dispatch in progress
    answer,     \* a result that is not recorded yet
    permit      \* the permission to merge

vars == <<head, pushed, clock, entry, admitted, lapsed, dispatch, answer, permit>>
dispatchVars == <<dispatch, answer>>

Commit == 0..MaxHead
Anchor == 0     \* the head of the degraded authorization, and of the chain
NoHead == MaxHead + 1
Idle == [at |-> "idle"]
\* A review goes by the time of its launch, legacy evidence by its own date.
Review == [head : Commit, stamp : 0..MaxApply, level : {"strict", "degraded", "legacy"},
           finding : Signature \cup {"none"}]
Dispatch == [at : {"running", "lost", "degraded"}, head : Commit, started : 0..MaxApply] \cup {Idle}
\* The facts of the gates; only the authorizations change.
Live == {"claim", "current", "adapter", "runtime", "applyEligibility"}
Authorization == {"authorization", "degraded"}
Facts == Live \cup (Authorization \ lapsed)

TypeOK ==
    /\ head \in Commit /\ pushed \in [Commit -> Signature \cup {"none", "drift"}]
    /\ clock \in 0..MaxApply /\ admitted \in BOOLEAN /\ lapsed \subseteq Authorization
    /\ dispatch \in Dispatch
    /\ answer \in Review \cup {Idle}
    /\ entry \in [pr : Commit, apply : [head : Commit \cup {NoHead}, at : 0..MaxApply],
                  reviews : SUBSET Review, unavailable : SUBSET [head : Commit, started : 0..MaxApply],
                  failures : SUBSET Signature,
                  corrections : Seq([from : Commit, to : Commit, signature : Signature])]
    /\ permit \in [head : Commit, review : Review] \cup {Idle}

Init ==
    /\ head = Anchor /\ pushed = [h \in Commit |-> "none"] /\ clock = 0
    /\ entry = [pr |-> Anchor, apply |-> [head |-> NoHead, at |-> 0], reviews |-> {},
                unavailable |-> {}, failures |-> {}, corrections |-> <<>>]
    /\ admitted = FALSE /\ lapsed = {}
    /\ dispatch = Idle /\ answer = Idle /\ permit = Idle

(***************************************************************************)
(* Admission, Apply and the pushes.                                        *)
(***************************************************************************)

\* The dispatch is a call of the one session that has the run.
Free == dispatch.at \in {"idle", "lost"}

\* admitReviewReadiness: the probe and the transport work for this package.
Admit ==
    /\ Free /\ ~admitted /\ admitted' = TRUE
    /\ UNCHANGED <<head, pushed, clock, entry, lapsed, dispatchVars, permit>>

\* Its time to live ends; reviewAdmissionFresh also ties it to its head.
AdmissionExpires ==
    /\ admitted /\ admitted' = FALSE
    /\ UNCHANGED <<head, pushed, clock, entry, lapsed, dispatchVars, permit>>

\* Apply and its validation on the live head; its evidence replaces the earlier.
Apply ==
    /\ Free /\ clock < MaxApply
    /\ GateAllows("apply", "planned", "change", "production-rapid",
                  Facts \cup IF admitted THEN {"reviewReady"} ELSE {})
    /\ clock' = clock + 1
    /\ entry' = [entry EXCEPT !.apply = [head |-> head, at |-> clock + 1]]
    /\ UNCHANGED <<head, pushed, admitted, lapsed, dispatchVars, permit>>

Push(how) ==
    /\ head < MaxHead /\ head' = head + 1
    /\ pushed' = [pushed EXCEPT ![head + 1] = how] /\ admitted' = FALSE
    /\ UNCHANGED <<clock, lapsed, dispatchVars, permit>>

\* A push outside the chain, or a correction whose record was lost.
Drift == Push("drift") /\ UNCHANGED entry

Attempts(s) == Cardinality({i \in DOMAIN entry.corrections : entry.corrections[i].signature = s})

\* Mutant of ChainValid: the first record may start anywhere.
ChainValidUnanchored(records, from) ==
    /\ \A i \in DOMAIN records : i > 1 => records[i].from = records[i - 1].to
    /\ \A s \in Signature :
           Cardinality({i \in DOMAIN records : records[i].signature = s}) <= Most

\* inspectCorrectionChain: every record starts where the last one ended.
ChainValid(records, from) ==
    /\ \A i \in DOMAIN records : records[i].from = IF i = 1 THEN from ELSE records[i - 1].to
    /\ \A s \in Signature :
           Cardinality({i \in DOMAIN records : records[i].signature = s}) <= Most

\* inspectCheckpoint: what the entry records is consistent.
CheckpointValid == ChainValid(entry.corrections, Anchor)

\* The failures that a durable verification record has now.
RecordVerification(s) ==
    /\ Free
    /\ entry' = [entry EXCEPT !.failures = IF s \in @ THEN @ \ {s} ELSE @ \cup {s}]
    /\ UNCHANGED <<head, pushed, clock, admitted, lapsed, dispatchVars, permit>>

\* durableCorrectionState: the failure is a finding of a durable review, or a
\* durable verification record has it.
CorrectionAllowed(s) ==
    /\ CheckpointValid /\ Attempts(s) < CorrectionBudget /\ "authorization" \notin lapsed
    /\ \/ \E r \in entry.reviews : r.finding = s
       \/ s \in entry.failures

Correct(s) ==
    /\ Free /\ CorrectionAllowed(s) /\ Push(s)
    /\ entry' = [entry EXCEPT !.corrections =
                     Append(@, [from |-> head, to |-> head + 1, signature |-> s])]

\* The entry's pull request record and its evidence follow the live head.
RecordPr ==
    /\ Free /\ entry.pr # head /\ entry' = [entry EXCEPT !.pr = head]
    /\ UNCHANGED <<head, pushed, clock, admitted, lapsed, dispatchVars, permit>>

Lapse(f) ==
    /\ f \notin lapsed /\ lapsed' = lapsed \cup {f} \cup IF f = "authorization" THEN {"degraded"} ELSE {}
    /\ UNCHANGED <<head, pushed, clock, entry, admitted, dispatchVars, permit>>

(***************************************************************************)
(* dispatchReview.                                                         *)
(***************************************************************************)
worldVars == <<head, pushed, clock, admitted, lapsed, permit>>

\* reviewExactHeadReuse: a recorded review has the head, the Apply evidence
\* and the assurance level of the one that is wanted.
Reusable(level) ==
    \E r \in entry.reviews : /\ r.head = head /\ r.stamp = entry.apply.at /\ r.level = level

\* The reviewer is the one of the configuration's snapshot, throughout.
LaunchReview ==
    /\ dispatch = Idle /\ answer = Idle /\ ~Reusable("strict")
    /\ dispatch' = [at |-> "running", head |-> head, started |-> clock]
    /\ UNCHANGED <<worldVars, entry, answer>>

\* terminalizeStrictReviewCapture: an artifact that names another package is
\* rejected; the right one is the answer.
StrictArtifact(h, finding) ==
    LET result == [head |-> h, stamp |-> dispatch.started,
                   level |-> "strict", finding |-> finding]
    IN  /\ dispatch.at = "running" /\ h <= head
        /\ answer' = IF h = dispatch.head THEN result ELSE Idle
        /\ dispatch' = Idle
        /\ UNCHANGED <<worldVars, entry>>

\* A timeout or a crash pauses for a resume of the same request.
ReviewerLost ==
    /\ dispatch.at = "running" /\ dispatch' = [dispatch EXCEPT !.at = "lost"]
    /\ UNCHANGED <<worldVars, entry, answer>>
Resume ==
    /\ dispatch.at = "lost" /\ dispatch' = [dispatch EXCEPT !.at = "running", !.started = clock]
    /\ UNCHANGED <<worldVars, entry, answer>>

StrictUnavailable(h) == {u \in entry.unavailable : u.head = h}

\* validateDegradedIndependentReviewAuthorization, for the head of the
\* authorization or for one that the chain of corrections ends at.  The
\* authorization has the chain of the checkpoint.
DegradedAuthorized(h, records) ==
    /\ "degraded" \notin lapsed /\ StrictUnavailable(h) # {}
    /\ \/ h = Anchor
       \/ records # <<>> /\ ChainValid(records, Anchor) /\ records[Len(records)].to = h

RecordUnavailable(u) == entry' = [entry EXCEPT !.unavailable = @ \cup {u}]

\* The strict review cannot inspect: a dispatch with the authorization goes on
\* to the degraded adapter, another one ends unavailable, which is recorded.
InspectionFails ==
    /\ dispatch.at = "running"
    /\ IF DegradedAuthorized(dispatch.head, <<>>)
       THEN dispatch' = [dispatch EXCEPT !.at = "degraded"] /\ UNCHANGED entry
       ELSE /\ dispatch' = Idle
            /\ \/ UNCHANGED entry
               \/ /\ Cardinality(entry.unavailable) < MaxRefusals
                  /\ RecordUnavailable([head |-> dispatch.head, started |-> dispatch.started])
    /\ UNCHANGED <<worldVars, answer>>

\* The dispatcher does not compare a degraded result with the package.
DegradedResult(h, finding) ==
    /\ dispatch.at = "degraded" /\ h <= head
    /\ answer' = [head |-> h, stamp |-> dispatch.started,
                  level |-> "degraded", finding |-> finding]
    /\ dispatch' = Idle
    /\ UNCHANGED <<worldVars, entry>>

\* The degraded review of a corrected head is not the dispatcher's but
\* executeAuthorizedIndependentReview's.
DegradedElsewhere(finding) ==
    /\ dispatch = Idle /\ answer = Idle /\ ~Reusable("degraded")
    /\ DegradedAuthorized(head, entry.corrections)
    /\ answer' = [head |-> head, stamp |-> clock,
                  level |-> "degraded", finding |-> finding]
    /\ UNCHANGED <<worldVars, entry, dispatch>>

\* Evidence of the kind before the sealed packages: an adapter that no dispatch
\* launched reviewed the input of some head, at some time, and dates it now.
LegacyEvidence(h, finding) ==
    /\ dispatch = Idle /\ answer = Idle /\ h <= head
    /\ answer' = [head |-> h, stamp |-> clock, level |-> "legacy", finding |-> finding]
    /\ UNCHANGED <<worldVars, entry, dispatch>>

RecordReview ==
    /\ Free /\ answer # Idle /\ Cardinality(entry.reviews) < MaxReviews /\ answer' = Idle
    /\ entry' = [entry EXCEPT !.reviews = @ \cup {answer}]
    /\ UNCHANGED <<worldVars, dispatch>>

SessionDies ==
    /\ dispatch # Idle \/ answer # Idle
    /\ dispatch' = Idle /\ answer' = Idle
    /\ UNCHANGED <<worldVars, entry>>

(***************************************************************************)
(* checkOperationAuthorization for merge-pr.                               *)
(***************************************************************************)
ReviewDurable(r) == r \in entry.reviews
\* validateFindingDispositions: a finding whose fix is objective does not pass.
Passed(r) == r.finding = "none"

ApplyDurable(h) == entry.apply.head = h

\* validateIndependentReviewV1, for the package of head h.
ReviewHolds(r, h) ==
    /\ ApplyDurable(h) /\ r.head = h
    /\ r.stamp >= entry.apply.at /\ Passed(r)
    /\ r.level = "degraded" =>
           /\ DegradedAuthorized(h, entry.corrections)
           /\ \E u \in StrictUnavailable(h) : u.started >= entry.apply.at

\* validateIndependentReviewEvidence, for the review input of head h.
EvidenceHolds(r, h) ==
    /\ ApplyDurable(h) /\ r.head = h
    /\ r.stamp >= entry.apply.at /\ Passed(r)

\* The target is the pull request on record, and merging is what comes next.
DerivedTarget(h) == CheckpointValid /\ entry.pr = h

\* The request names head h; it may derive its target from the checkpoint, or
\* name one that the authorization lists, and it may name its operation's contract.
AuthorizeMerge(r, h, derived, contract) ==
    /\ Free /\ "authorization" \notin lapsed
    /\ contract => GateAllows("implementation-delivery", "verified", "pr", "production-rapid", Facts)
    /\ derived => DerivedTarget(h)
    /\ ReviewDurable(r)
    /\ IF r.level = "legacy" THEN EvidenceHolds(r, h) ELSE ReviewHolds(r, h)
    /\ permit' = [head |-> h, review |-> r]
    /\ UNCHANGED <<head, pushed, clock, entry, admitted, lapsed, dispatchVars>>

Step ==
    \/ Admit \/ AdmissionExpires \/ Apply \/ Drift \/ RecordPr
    \/ \E s \in Signature : Correct(s) \/ RecordVerification(s)
    \/ \E f \in Authorization : Lapse(f)
    \/ LaunchReview \/ ReviewerLost \/ Resume \/ InspectionFails \/ RecordReview \/ SessionDies
    \/ \E h \in Commit, finding \in Signature \cup {"none"} :
           StrictArtifact(h, finding) \/ DegradedResult(h, finding) \/ LegacyEvidence(h, finding)
    \/ \E finding \in Signature \cup {"none"} : DegradedElsewhere(finding)
    \/ \E r \in entry.reviews, h \in Commit, derived, contract \in BOOLEAN :
           AuthorizeMerge(r, h, derived, contract)

\* A behaviour ends with the permission.
Next == permit = Idle /\ Step

Spec == Init /\ [][Next]_vars

\* A merge is permitted only for the head of the last Apply, which a reviewer
\* passed: launched since that Apply, or, on legacy evidence, only dated since;
\* if the review was degraded, every push since the authorized head was an
\* authorized correction and no failure was corrected more often than its
\* budget (checkOperationAuthorization and what it calls).
MergePermittedSoundly ==
    [][permit' # permit =>
        LET review == permit'.review
            corrected(s) == {h \in 1..permit'.head : pushed[h] = s}
        IN  /\ review.finding = "none"
            /\ review.head = permit'.head /\ entry.apply.head = permit'.head
            /\ review.stamp = clock
            /\ review.level = "degraded" =>
                   /\ corrected("drift") = {}
                   /\ \A s \in Signature : Cardinality(corrected(s)) <= CorrectionBudget]_vars

==============================================================================
