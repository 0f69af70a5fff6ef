---------------------------- MODULE OperationSlice ----------------------------
(***************************************************************************)
(* The vertical slice: one change goes from proposal to verification by a  *)
(* selector that is a function of stage and evidence, and an executor that *)
(* writes every attempt ahead of its adapter.  A driver starts over on the *)
(* store that an earlier driver, of its own profile or of the other, left. *)
(***************************************************************************)
EXTENDS OperationContract, Sequences

CONSTANT MaxAttempts    \* bound on the attempts of a store

VARIABLES
    stage,      \* of the store
    owner,      \* the profile whose driver acquired the store, or "nobody"
    attempts,   \* of the store, in order
    profile,    \* of the running driver
    evidence,   \* the running driver's; it dies with the driver
    at          \* the step of the pipeline that the driver is about to do, or "ended"

storeVars == <<stage, owner, attempts>>
vars == <<storeVars, profile, evidence, at>>

slicePipeline == <<"proposal", "planningConformance", "apply", "review", "verify">>
Step == {slicePipeline[i] : i \in DOMAIN slicePipeline}
stageOf == [proposal |-> "admitted", planningConformance |-> "admitted", apply |-> "planned",
            review |-> "applied", verify |-> "reviewed"]
nextStage == [proposal |-> "admitted", planningConformance |-> "planned", apply |-> "applied",
              review |-> "reviewed", verify |-> "verified"]
stepOperation == [proposal |-> "none", planningConformance |-> "plan-review", apply |-> "apply",
                  review |-> "none", verify |-> "verify"]
committedEvidence == [proposal |-> {"proposal", "planning"}, planningConformance |-> {"planningConformance"},
                      apply |-> {"apply"}, review |-> {"current"}, verify |-> {"verify"}]
After == [proposal |-> "planningConformance", planningConformance |-> "apply", apply |-> "review",
          review |-> "verify", verify |-> "ended"]

AttemptState == {"in-doubt", "observed", "committed"}
ReviewOutcome == {"review-reused", "review-fresh", "review-unavailable"}
Attempt == [step : Step, state : AttemptState, outcome : Outcome \cup ReviewOutcome \cup {"none"},
            profile : Profile, artifact : BOOLEAN]

TypeOK == /\ stage \in {stageOf[s] : s \in Step} \cup {"verified"}
          /\ owner \in Profile \cup {"nobody"} /\ attempts \in Seq(Attempt)
          /\ profile \in Profile /\ evidence \subseteq {"applyEligibility", "reviewReady"}
                                          \cup UNION {committedEvidence[s] : s \in Step}
          /\ at \in Step \cup {"ended"}

Init == /\ stage = "admitted" /\ owner = "nobody" /\ attempts = <<>>
        /\ profile \in Profile /\ evidence = {} /\ at = "ended"

\* driveFixtureRun begins, with evidence of its own and the store as it is.
Start(p) ==
    /\ at = "ended" /\ profile' = p /\ at' = "proposal"
    /\ evidence' = {"applyEligibility"} \cup IF p = "production-rapid" THEN {"reviewReady"} ELSE {}
    /\ UNCHANGED storeVars

\* selectNextTransition: the first step of the stage without evidence, when
\* its gate allows it.
Selects(step) ==
    /\ stageOf[step] = stage /\ step \notin evidence
    /\ step = "planningConformance" => "proposal" \in evidence
    /\ IF stepOperation[step] = "none"
       THEN step = "review" /\ profile = "production-rapid" => "reviewReady" \in evidence
       ELSE GateAllows(stepOperation[step], stage, "change", profile,
                       evidence \cup {"authorization", "claim", "adapter", "runtime"})

Acquirable == owner \in {"nobody", profile}
\* Mutant of Unreconciled: only the latest attempt is looked at.
UnreconciledLast(step) ==
    attempts # <<>> /\ attempts[Len(attempts)].step = step /\ attempts[Len(attempts)].state = "in-doubt"
Unreconciled(step) == \E i \in DOMAIN attempts : attempts[i].step = step /\ attempts[i].state = "in-doubt"

Record(state, outcome, artifact) ==
    attempts' = Append(attempts, [step |-> at, state |-> state, outcome |-> outcome,
                                  profile |-> profile, artifact |-> artifact])

Executes == at \in Step \ {"review"} /\ Selects(at) /\ Acquirable
Invokes == Executes /\ ~Unreconciled(at) /\ Len(attempts) < MaxAttempts

\* The step that is due is not the one selected, or another owner has the
\* store, or an attempt at it is in doubt: the driver ends.
Refused ==
    /\ at \in Step \ {"review"} /\ ~(Executes /\ ~Unreconciled(at))
    /\ at' = "ended" /\ owner' = IF Executes THEN profile ELSE owner
    /\ UNCHANGED <<stage, attempts, profile, evidence>>

AdapterThrows ==
    /\ Invokes /\ owner' = profile /\ Record("in-doubt", "none", FALSE) /\ at' = "ended"
    /\ UNCHANGED <<stage, profile, evidence>>

\* The steps of the slice route an outcome without counting corrections.
RoutedToCommit(outcome, signed) == Route(outcome, signed, 0) # "paused"

\* The outcome is recorded as observed, and committed unless it pauses.
AdapterReturns(outcome, signed) ==
    LET committed == RoutedToCommit(outcome, signed)
    IN  /\ Invokes /\ owner' = profile
        /\ Record(IF committed THEN "committed" ELSE "observed", outcome, FALSE)
        /\ at' = IF committed THEN After[at] ELSE "ended"
        /\ stage' = IF committed THEN nextStage[at] ELSE stage
        /\ evidence' = IF committed THEN evidence \cup committedEvidence[at] ELSE evidence
        /\ UNCHANGED profile

(***************************************************************************)
(* thinReviewLoop: a review is reused when no binding changed; a           *)
(* production review goes through a transport when the caller has one, and *)
(* its terminal artifact is the evidence.                                  *)
(***************************************************************************)
Transport == {"none", "delivers", "refuses"}
Reviewed(p, changed, transport) ==
    IF ~changed THEN [outcome |-> "review-reused", artifact |-> FALSE]
    ELSE IF p = "production-rapid" /\ transport # "none"
         THEN IF transport = "delivers" THEN [outcome |-> "review-fresh", artifact |-> TRUE]
                                        ELSE [outcome |-> "review-unavailable", artifact |-> FALSE]
         ELSE [outcome |-> "review-fresh", artifact |-> FALSE]

\* driveFixtureRun has no transport.
Review(changed, findings) ==
    LET review == Reviewed(profile, changed, "none")
        fixes == changed /\ findings
    IN  /\ at = "review" /\ Len(attempts) < MaxAttempts
        /\ Record("committed", review.outcome, review.artifact)
        /\ at' = IF fixes THEN "ended" ELSE After.review
        /\ stage' = IF fixes THEN stage ELSE nextStage.review
        /\ evidence' = IF fixes THEN evidence ELSE evidence \cup committedEvidence.review
        /\ UNCHANGED <<owner, profile>>

\* Another caller's review with a transport of its own advances no stage.
ReviewAside(p, changed, transport) ==
    LET review == Reviewed(p, changed, transport)
    IN  /\ at = "ended" /\ Len(attempts) < MaxAttempts
        /\ attempts' = Append(attempts, [step |-> "review", state |-> "committed", outcome |-> review.outcome,
                                         profile |-> p, artifact |-> review.artifact])
        /\ UNCHANGED <<stage, owner, profile, evidence, at>>

Next == \/ \E p \in Profile : Start(p)
        \/ Refused \/ AdapterThrows
        \/ \E outcome \in Outcome, signed \in BOOLEAN : AdapterReturns(outcome, signed)
        \/ \E changed, findings \in BOOLEAN : Review(changed, findings)
        \/ \E p \in Profile, changed \in BOOLEAN, t \in Transport \ {"none"} : ReviewAside(p, changed, t)

Spec == Init /\ [][Next]_vars

\* An adapter is not invoked again for a step while what became of an earlier
\* attempt at it is unknown, whoever drives the store by then
\* (executeTransition's check for an unreconciled attempt).
ObserveBeforeRetry ==
    \A i, j \in DOMAIN attempts :
        i < j /\ attempts[i].state = "in-doubt" => attempts[j].step # attempts[i].step

===============================================================================
