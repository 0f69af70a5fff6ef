-------------------------- MODULE OperationContract --------------------------
(***************************************************************************)
(* The registry of the lifecycle's operations and the gate before each.    *)
(* Pure: what the gate reads is a record of what holds at the call.        *)
(***************************************************************************)
EXTENDS Naturals

CONSTANT CorrectionBudget   \* corrections per failure signature

Profile == {"prototype-rapid", "production-rapid"}

\* Every operation also has the gates "authorization" and "claim".
Delivered == {"evidence-freshness", "adapter", "runtime-permission"}
Entry(stage, targets, profiles, gates) ==
    [stage |-> stage, targets |-> targets, profiles |-> profiles, gates |-> gates]
registry ==
    [operation \in {"plan-review", "apply", "local-review", "verify", "implementation-delivery",
                    "sync", "archive", "cleanup"} |->
        CASE operation = "plan-review"  -> Entry("admitted", {"change"}, Profile, {"planning"})
          [] operation = "apply"        -> Entry("planned", {"change"}, Profile, {"apply-eligibility", "review-readiness"})
          [] operation = "local-review" -> Entry("applied", {"package"}, {"prototype-rapid"}, Delivered)
          [] operation = "verify"       -> Entry("reviewed", {"change"}, Profile, {"evidence-freshness"})
          [] operation = "implementation-delivery" -> Entry("verified", {"pr"}, Profile, Delivered)
          [] operation = "sync"         -> Entry("closing", {"sync"}, Profile, Delivered)
          [] operation = "archive"      -> Entry("closing", {"change"}, Profile, Delivered)
          [] operation = "cleanup"      -> Entry("complete", {"branch", "worktree"}, Profile,
                                                 Delivered \ {"adapter"})]

\* The gates that a set of facts opens: evidence and live checks.
Opens(gate, profile, facts) ==
    \/ gate = "evidence-freshness" /\ "current" \in facts
    \/ gate = "planning"           /\ "planning" \in facts
    \/ gate = "apply-eligibility"  /\ "applyEligibility" \in facts
    \/ gate = "review-readiness"   /\ (profile = "prototype-rapid" \/ "reviewReady" \in facts)
    \/ gate = "adapter"            /\ "adapter" \in facts
    \/ gate = "runtime-permission" /\ "runtime" \in facts

GateAllows(operation, stage, target, profile, facts) ==
    /\ operation \in DOMAIN registry
    /\ LET entry == registry[operation]
       IN  /\ profile \in entry.profiles /\ stage = entry.stage /\ target \in entry.targets
           /\ {"authorization", "claim"} \subseteq facts
           /\ \A gate \in entry.gates : Opens(gate, profile, facts)

\* "complete" is routed as "succeeded"; "human-decision" and "terminal-failure" as "unknown".
Outcome == {"succeeded", "objective-failure", "unknown"}

\* How an outcome is classified after a number of corrections of its failure.
Route(outcome, signed, attempts) ==
    CASE outcome = "succeeded" -> "completed"
      [] outcome = "objective-failure" /\ signed /\ attempts < CorrectionBudget -> "correct"
      [] OTHER -> "paused"

==============================================================================
