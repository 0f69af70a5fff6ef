------------------------------- MODULE MCReview -------------------------------
(***************************************************************************)
(* The model-checking instance of the independent review.  Its components  *)
(* share no state: a behaviour is one of the capture of a review, of the   *)
(* parser of one event stream or of a review and its fallback.             *)
(***************************************************************************)
EXTENDS ReviewCapture

CONSTANTS Item, EventBound, LaunchId, MaxPackage

ASSUME ReviewConstants ==
    EventBound \in Nat /\ MaxPackage \in Nat /\ LaunchId \cap {"none", "direct"} = {}

VARIABLES
    scene,                                                  \* which of them it is
    stream, turn, items, message, failure, answer,          \* ReviewEvents
    package, recorded, covered, lapsed, durable, caller,    \* ReviewRecovery
    request, host, tree, outcome, response, returned

Ev  == INSTANCE ReviewEvents WITH candidate <- message
Rec == INSTANCE ReviewRecovery
           WITH expired <- lapsed, parent <- caller

eventVars == <<stream, turn, items, message, failure, answer>>
recoveryVars == <<package, recorded, covered, lapsed, durable, caller,
                  request, host, tree, outcome, response, returned>>

MCInit == /\ scene \in {"capture", "events", "recovery"}
          /\ Init /\ Ev!Init /\ Rec!Init
          /\ scene # "recovery" => recorded = 0

MCNext ==
    /\ UNCHANGED scene
    /\ \/ scene = "capture"  /\ Next     /\ UNCHANGED <<eventVars, recoveryVars>>
       \/ scene = "events"   /\ Ev!Next  /\ UNCHANGED <<vars, recoveryVars>>
       \/ scene = "recovery" /\ Rec!Next /\ UNCHANGED <<vars, eventVars>>

mcVars == <<scene, vars, eventVars, recoveryVars>>

\* The fairness of the capture; in the other scenes none of its steps is
\* enabled.
MCSpec == MCInit /\ [][MCNext]_mcVars /\ Fairness

\* The values of the variables of every component.
TypesOK == TypeOK /\ Ev!TypeOK /\ Rec!TypeOK

\* The parser's answer is right for the stream it consumed.
ParserAgrees == Ev!ParserAgrees

\* A degraded review is returned for the package under review alone, when it
\* is authorized and after its view is gone.
DegradedReviewSound == Rec!DegradedReviewSound

\* A registered review worktree is never without its temporary root.
RootOutlivesRegistration == Rec!RootOutlivesRegistration

===============================================================================
