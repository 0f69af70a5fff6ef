------------------------ MODULE DeliveryLifecycleProofs ------------------------
(***************************************************************************)
(* Proofs about DeliveryLifecycle for any number of processes, resources,  *)
(* entries and phases, whatever the processes and the people do: type      *)
(* correctness, truthful receipts, the implementation of DeliveryQueue,    *)
(* and what a cleaner that was not overtaken removes.                      *)
(***************************************************************************)
EXTENDS DeliveryLifecycle, TLAPS

USE KindsDiffer, CheckedOutRelates, QueueSize, Bounds, WhatDisciplines, PointsArePoints

-----------------------------------------------------------------------------
\* Types.

RecordOK(rec) ==
    /\ rec \in [entry : 1..Entries, done : Seq(Evidence),
                resources : [Resource -> {"none", "pending", "delivered"}],
                receipts : [Resource -> Receipt]]
    /\ Len(rec.done) <= LastPhase

LocalsOK ==
    /\ pc \in [Process -> Points]
    /\ stage \in [Process -> {"worktree", "branch"}]
    /\ todo \in [Process -> SUBSET Resource]
    /\ target \in [Process -> Resource \cup {None}]
    /\ result \in [Process -> {"none", "completed", "blocked"}]
    /\ blocked \in [Process -> BOOLEAN]
    /\ overtaken \subseteq Process
    /\ \A p \in Process :
          /\ pc[p] \in {"start", "remove", "finish"} => target[p] \in Resource
          /\ pc[p] = "finish" => result[p] # "none"

RestOK ==
    /\ git \in [Resource -> {"absent", "delivered", "undelivered"}]
    /\ discipline \in Disciplines
    /\ current \subseteq running /\ running \subseteq Process
    /\ changes \in 0..MaxChanges /\ failures \in 0..MaxFailures

LEMMA TypeParts == TypeOK <=> RecordOK(record) /\ LocalsOK /\ RestOK
BY DEF TypeOK, RecordOK, LocalsOK, RestOK

LEMMA TypePartsNext == TypeOK' <=> RecordOK(record)' /\ LocalsOK' /\ RestOK'
BY DEF TypeOK, RecordOK, LocalsOK, RestOK

LEMMA ReturnTyped ==
    ASSUME LocalsOK, NEW p \in Process, Return(p) PROVE LocalsOK'
<1> USE DEF LocalsOK, Return, Goto, Points
<1>1. pc' \in [Process -> Points] /\ stage' \in [Process -> {"worktree", "branch"}]
  OBVIOUS
<1>2. todo' \in [Process -> SUBSET Resource] /\ target' \in [Process -> Resource \cup {None}]
  OBVIOUS
<1>3. /\ result' \in [Process -> {"none", "completed", "blocked"}]
      /\ blocked' \in [Process -> BOOLEAN]
      /\ overtaken' \subseteq Process
  OBVIOUS
<1>4. \A q \in Process :
          /\ pc'[q] \in {"start", "remove", "finish"} => target'[q] \in Resource
          /\ pc'[q] = "finish" => result'[q] # "none"
  OBVIOUS
<1> QED
  BY <1>1, <1>2, <1>3, <1>4

\* A step of p that leaves the targets and results of the others alone.
LEMMA GotoTyped ==
    ASSUME LocalsOK, NEW p \in Process, NEW point \in Points, Goto(p, point),
           stage' \in [Process -> {"worktree", "branch"}],
           todo' \in [Process -> SUBSET Resource],
           target' \in [Process -> Resource \cup {None}],
           result' \in [Process -> {"none", "completed", "blocked"}],
           blocked' \in [Process -> BOOLEAN],
           overtaken' \subseteq Process,
           \A q \in Process \ {p} : target'[q] = target[q] /\ result'[q] = result[q],
           point \in {"start", "remove", "finish"} => target'[p] \in Resource,
           point = "finish" => result'[p] # "none"
    PROVE  LocalsOK'
<1>1. pc' \in [Process -> Points] /\ pc'[p] = point
  BY DEF LocalsOK, Goto
<1>2. \A q \in Process \ {p} : pc'[q] = pc[q]
  BY DEF LocalsOK, Goto
<1>3. \A q \in Process :
          /\ pc'[q] \in {"start", "remove", "finish"} => target'[q] \in Resource
          /\ pc'[q] = "finish" => result'[q] # "none"
  BY <1>1, <1>2 DEF LocalsOK
<1> QED
  BY <1>1, <1>3 DEF LocalsOK

LEMMA ReceiptTyped ==
    ASSUME NEW rec, RecordOK(rec), NEW r \in Resource, NEW status \in Receipt
    PROVE  RecordOK([rec EXCEPT !.receipts[r] = status])
BY DEF RecordOK, Receipt, Terminal

LEMMA PhasesTyped ==
    ASSUME NEW rec, RecordOK(rec), NEW s \in Seq(Evidence), Len(s) <= LastPhase
    PROVE  RecordOK([rec EXCEPT !.done = s])
BY DEF RecordOK

LEMMA OutcomeTyped ==
    ASSUME TypeOK, NEW p \in Process, NEW r \in Resource, NEW status \in Receipt,
           Outcome(p, r, status)
    PROVE  RecordOK(record)' /\ current' \subseteq running
           /\ blocked' \in [Process -> BOOLEAN]
<1>1. RecordOK(record)'
  <2>1. CASE p \in current
    BY <2>1, TypeParts, ReceiptTyped DEF Outcome, Persist
  <2>2. CASE p \notin current
    BY <2>2, TypeParts DEF Outcome, RecordOK
  <2> QED
    BY <2>1, <2>2
<1>2. current' \subseteq running
  BY DEF TypeOK, Outcome, Persist
<1>3. blocked' \in [Process -> BOOLEAN]
  BY DEF TypeOK, Outcome
<1> QED
  BY <1>1, <1>2, <1>3

LEMMA TypeStep == ASSUME TypeOK, [Next]_vars PROVE TypeOK'
<1>1. ASSUME NEW r \in Resource, Create(r) PROVE TypeOK'
  BY <1>1 DEF Create, TypeOK, Points, At, Goto, calls, locals, bounds
<1>2. ASSUME NEW r \in Resource, Change(r) PROVE TypeOK'
  BY <1>2 DEF Change, TypeOK, Points, At, Goto, calls, locals, bounds
<1>3. ASSUME NEW r \in Resource, Settle(r) PROVE TypeOK'
  BY <1>3 DEF Settle, TypeOK, Points, At, Goto, calls, locals, bounds
<1>4. ASSUME NEW p \in Process, Load(p) PROVE TypeOK'
  BY <1>4 DEF Load, TypeOK, Points, At, Goto, calls, locals, bounds
<1>5. ASSUME NEW p \in Process, NEW r \in Resource, Register(p, r) PROVE TypeOK'
  BY <1>5 DEF Register, Persist, TypeOK, Points, At, Goto, calls, locals, bounds
<1>6. ASSUME NEW p \in Process, NEW r \in Resource, Bind(p, r) PROVE TypeOK'
  BY <1>6 DEF Bind, Persist, TypeOK, Points, At, Goto, calls, locals, bounds
<1>7. ASSUME NEW p \in Process, NEW e \in Evidence, AdvancePhase(p, e) PROVE TypeOK'
  <2>1. RecordOK(record)'
    <3>1. /\ Append(record.done, e) \in Seq(Evidence)
          /\ Len(Append(record.done, e)) = Len(record.done) + 1
          /\ Len(record.done) \in Nat
      BY DEF TypeOK
    <3>2. record' = [record EXCEPT !.done = Append(record.done, e)]
          /\ Len(record.done) < LastPhase
      BY <1>7 DEF AdvancePhase, Persist
    <3>3. RecordOK(record)
      BY TypeParts
    <3>4. LastPhase \in Nat
      OBVIOUS
    <3>5. RecordOK([record EXCEPT !.done = Append(record.done, e)])
      <4>1. Len(Append(record.done, e)) <= LastPhase
        BY <3>1, <3>2, <3>4
      <4> QED
        BY <3>1, <3>3, <4>1, PhasesTyped
    <3> QED
      BY <3>2, <3>5
  <2>2. LocalsOK' /\ RestOK'
    BY <1>7 DEF TypeOK, LocalsOK, RestOK, AdvancePhase, Persist, At, calls, locals, bounds
  <2> QED
    BY <2>1, <2>2, TypePartsNext
<1>8. ASSUME NEW p \in Process, AdvanceQueue(p) PROVE TypeOK'
  <2>1. RecordOK(record)'
    <3>1. RecordOK([Fresh EXCEPT !.entry = record.entry + 1])
      <4>1. record.entry \in 1..Entries /\ record.entry < Entries
        BY <1>8 DEF TypeOK, AdvanceQueue
      <4>2. record.entry + 1 \in 1..Entries
        BY <4>1
      <4>3. RecordOK(Fresh)
        BY DEF RecordOK, Fresh, Receipt
      <4> QED
        BY <4>2, <4>3 DEF RecordOK
    <3> QED
      BY <1>8, <3>1 DEF AdvanceQueue, Persist
  <2>2. LocalsOK' /\ RestOK'
    BY <1>8 DEF TypeOK, LocalsOK, RestOK, AdvanceQueue, Persist, At, calls, locals, bounds
  <2> QED
    BY <2>1, <2>2, TypePartsNext
<1>9. ASSUME NEW p \in Process, BeginCleanup(p) PROVE TypeOK'
  BY <1>9 DEF BeginCleanup, TypeOK, Points, At, Goto, calls, locals, bounds
<1>10. ASSUME NEW p \in Process, Plan(p) PROVE TypeOK'
  <2>1. LocalsOK'
    <3>1. CASE Return(p)
      BY <3>1, TypeParts, ReturnTyped
    <3>2. CASE ~Return(p)
      <4>1. /\ todo' = [todo EXCEPT ![p] = StageResources(stage[p])]
            /\ Goto(p, "inspect")
            /\ UNCHANGED <<stage, target, result, blocked, overtaken>>
        BY <1>10, <3>2 DEF Plan
      <4>2. StageResources(stage[p]) \subseteq Resource
        BY DEF StageResources, Registered
      <4>3. todo' \in [Process -> SUBSET Resource]
        BY <4>1, <4>2 DEF TypeOK
      <4> QED
        BY <4>1, <4>3, GotoTyped, TypeParts DEF LocalsOK, Points
    <3> QED
      BY <3>1, <3>2
  <2>2. RecordOK(record)' /\ RestOK'
    BY <1>10, TypeParts DEF Plan, RecordOK, RestOK, bounds
  <2> QED
    BY <2>1, <2>2, TypePartsNext
<1>11. ASSUME NEW p \in Process, Inspect(p) PROVE TypeOK'
  <2>1. PICK r \in todo[p] :
           /\ todo' = [todo EXCEPT ![p] = @ \ {r}]
           /\ \/ /\ \E status \in Receipt : Outcome(p, r, status)
                 /\ UNCHANGED <<pc, target>>
              \/ /\ Goto(p, "start")
                 /\ target' = [target EXCEPT ![p] = r]
                 /\ UNCHANGED <<record, current, blocked>>
    BY <1>11 DEF Inspect, Receipt, Terminal
  <2>2. r \in Resource
    BY DEF TypeOK
  <2>3. UNCHANGED <<git, discipline, stage, result, overtaken, running, bounds>>
    BY <1>11 DEF Inspect
  <2>4. RecordOK(record)' /\ current' \subseteq running /\ blocked' \in [Process -> BOOLEAN]
    <3>1. CASE \E status \in Receipt : Outcome(p, r, status)
      BY <3>1, <2>2, OutcomeTyped
    <3>2. CASE UNCHANGED <<record, current, blocked>>
      BY <3>2 DEF TypeOK, RecordOK
    <3> QED
      BY <2>1, <3>1, <3>2
  <2>5. LocalsOK'
    <3>1. todo' \in [Process -> SUBSET Resource]
      BY <2>1 DEF TypeOK
    <3>2. CASE UNCHANGED <<pc, target>>
      BY <2>3, <2>4, <3>1, <3>2 DEF TypeOK, LocalsOK
    <3>3. CASE Goto(p, "start") /\ target' = [target EXCEPT ![p] = r]
      <4>1. /\ target' \in [Process -> Resource \cup {None}]
            /\ target'[p] \in Resource
            /\ \A q \in Process \ {p} : target'[q] = target[q]
        BY <2>2, <3>3 DEF TypeOK
      <4> QED
        BY <2>3, <2>4, <3>1, <3>3, <4>1, GotoTyped, TypeParts DEF LocalsOK, Points
    <3> QED
      BY <2>1, <3>2, <3>3
  <2>6. RestOK'
    BY <2>3, <2>4 DEF TypeOK, RestOK, bounds
  <2> QED
    BY <2>4, <2>5, <2>6, TypePartsNext
<1>12. ASSUME NEW p \in Process, Start(p) PROVE TypeOK'
  <2>1. /\ Outcome(p, target[p], "started") /\ target[p] \in Resource
        /\ pc[p] = "start"
        /\ UNCHANGED <<git, discipline, stage, todo, result, running, bounds>>
    BY <1>12 DEF TypeOK, Start, At
  <2>2. RecordOK(record)' /\ current' \subseteq running /\ blocked' \in [Process -> BOOLEAN]
    BY <2>1, OutcomeTyped DEF Receipt
  <2>3. LocalsOK'
    <3>1. CASE Goto(p, "remove") /\ UNCHANGED <<target, overtaken>>
      BY <2>1, <2>2, <3>1, GotoTyped, TypeParts DEF LocalsOK, Points
    <3>2. CASE /\ Goto(p, "inspect") /\ target' = [target EXCEPT ![p] = None]
               /\ overtaken' = overtaken \ {p}
      <4>1. /\ overtaken' \subseteq Process
            /\ target' \in [Process -> Resource \cup {None}]
            /\ \A q \in Process \ {p} : target'[q] = target[q]
        BY <3>2 DEF TypeOK
      <4> QED
        BY <2>1, <2>2, <3>2, <4>1, GotoTyped, TypeParts DEF LocalsOK, Points
    <3> QED
      BY <1>12, <3>1, <3>2 DEF Start
  <2>4. RestOK'
    BY <2>1, <2>2 DEF TypeOK, RestOK, bounds
  <2> QED
    BY <2>2, <2>3, <2>4, TypePartsNext
<1>13. ASSUME NEW p \in Process, Remove(p) PROVE TypeOK'
  BY <1>13 DEF Remove, TypeOK, Points, At, Goto, calls, locals, bounds
<1>14. ASSUME NEW p \in Process, Finish(p) PROVE TypeOK'
  <2>1. /\ Outcome(p, target[p], result[p]) /\ target[p] \in Resource
        /\ result[p] \in Receipt
        /\ UNCHANGED <<git, discipline, stage, todo, running, bounds>>
    BY <1>14 DEF TypeOK, Finish, At, Receipt, Terminal
  <2>2. RecordOK(record)' /\ current' \subseteq running /\ blocked' \in [Process -> BOOLEAN]
    BY <2>1, OutcomeTyped
  <2>3. LocalsOK'
    <3>1. /\ overtaken' \subseteq Process
          /\ target' \in [Process -> Resource \cup {None}]
          /\ result' \in [Process -> {"none", "completed", "blocked"}]
          /\ \A q \in Process \ {p} : target'[q] = target[q] /\ result'[q] = result[q]
      BY <1>14 DEF Finish, TypeOK
    <3>2. Goto(p, "inspect")
      BY <1>14 DEF Finish
    <3> QED
      BY <2>1, <2>2, <3>1, <3>2, GotoTyped, TypeParts DEF LocalsOK, Points
  <2>4. RestOK'
    BY <2>1, <2>2 DEF TypeOK, RestOK, bounds
  <2> QED
    BY <2>2, <2>3, <2>4, TypePartsNext
<1>15. ASSUME NEW p \in Process, EndStage(p) PROVE TypeOK'
  <2>1. LocalsOK'
    <3>1. CASE Return(p)
      BY <3>1, TypeParts, ReturnTyped
    <3>2. CASE ~Return(p)
      <4>1. /\ pc' = [pc EXCEPT ![p] = "plan"] /\ stage' = [stage EXCEPT ![p] = "branch"]
            /\ UNCHANGED <<todo, target, result, blocked, overtaken>>
        BY <1>15, <3>2 DEF EndStage, Goto
      <4> QED BY <4>1, TypeParts DEF LocalsOK, Points
    <3> QED
      BY <3>1, <3>2
  <2>2. RecordOK(record)' /\ RestOK'
    BY <1>15, TypeParts DEF EndStage, RecordOK, RestOK, bounds
  <2> QED
    BY <2>1, <2>2, TypePartsNext
<1>16. ASSUME NEW p \in Process, RemoveFails(p) PROVE TypeOK'
  BY <1>16 DEF RemoveFails, TypeOK, Points, At, Goto, calls, locals, bounds
<1>17. ASSUME NEW p \in Process, InspectFails(p) PROVE TypeOK'
  <2>1. LocalsOK'
    BY <1>17, TypeParts, ReturnTyped DEF InspectFails
  <2>2. RecordOK(record)' /\ RestOK'
    BY <1>17 DEF InspectFails, TypeOK, RecordOK, RestOK
  <2> QED
    BY <2>1, <2>2, TypePartsNext
<1>18. ASSUME NEW p \in Process, End(p) PROVE TypeOK'
  <2>1. LocalsOK'
    BY <1>18, TypeParts, ReturnTyped DEF End
  <2>2. RecordOK(record)' /\ RestOK'
    BY <1>18 DEF End, TypeOK, RecordOK, RestOK, bounds
  <2> QED
    BY <2>1, <2>2, TypePartsNext
<1>19. CASE UNCHANGED vars
  BY <1>19 DEF vars, TypeOK, calls, locals, bounds
<1> QED
  BY <1>1, <1>2, <1>3, <1>4, <1>5, <1>6, <1>7, <1>8, <1>9, <1>10, <1>11,
     <1>12, <1>13, <1>14, <1>15, <1>16, <1>17, <1>18, <1>19
     DEF Next, World, Update, Step


LEMMA InitTyped == Init => TypeOK
<1> SUFFICES ASSUME Init PROVE TypeOK
  OBVIOUS
<1>1. RecordOK(record)
  BY DEF Init, Fresh, RecordOK, Receipt
<1>2. LocalsOK
  BY DEF Init, LocalsOK, Points
<1>3. RestOK
  BY DEF Init, RestOK
<1> QED
  BY <1>1, <1>2, <1>3, TypeParts

(***************************************************************************)
(* Type correctness: a record with at most LastPhase completed phases, and *)
(* a cleaner at a resource whenever it removes one or records that it did. *)
(***************************************************************************)
THEOREM TypeCorrect == Spec => []TypeOK
<1>1. Init => TypeOK
  BY InitTyped
<1>2. TypeOK /\ [Next]_vars => TypeOK'
  BY TypeStep
<1> QED
  BY <1>1, <1>2, PTL DEF Spec

-----------------------------------------------------------------------------
\* Receipts.

LEMMA StartEffect ==
    ASSUME TypeOK, NEW p \in Process, Start(p)
    PROVE  /\ target[p] \in Resource /\ pc[p] = "start" /\ p \in running
           /\ UNCHANGED <<git, todo, result, running>>
           /\ \/ /\ p \in current /\ current' = {p}
                 /\ record' = [record EXCEPT !.receipts[target[p]] = "started"]
                 /\ pc' = [pc EXCEPT ![p] = "remove"]
                 /\ UNCHANGED <<target, overtaken>>
              \/ /\ p \notin current /\ UNCHANGED <<record, current>>
                 /\ pc' = [pc EXCEPT ![p] = "inspect"]
                 /\ target' = [target EXCEPT ![p] = None]
                 /\ overtaken' = overtaken \ {p}
           /\ record'.resources = record.resources
           /\ \A r \in Resource \ {target[p]} : record'.receipts[r] = record.receipts[r]
           /\ p \notin current => record' = record
<1>1. target[p] \in Resource /\ record \in [entry : 1..Entries, done : Seq(Evidence),
          resources : [Resource -> {"none", "pending", "delivered"}],
          receipts : [Resource -> Receipt]]
  BY DEF TypeOK, Start, At
<1>2. \/ p \in current /\ record' = [record EXCEPT !.receipts[target[p]] = "started"]
      \/ p \notin current /\ record' = record
  BY DEF Start, Outcome, Persist
<1>3. /\ record'.resources = record.resources
      /\ \A r \in Resource \ {target[p]} : record'.receipts[r] = record.receipts[r]
      /\ p \notin current => record' = record
  BY <1>1, <1>2
<1> QED
  BY <1>3 DEF TypeOK, Start, At, Goto, Outcome, Persist

LEMMA FinishEffect ==
    ASSUME TypeOK, NEW p \in Process, Finish(p)
    PROVE  /\ target[p] \in Resource /\ pc[p] = "finish" /\ p \in running
           /\ result[p] \in {"completed", "blocked"}
           /\ UNCHANGED <<git, todo, running>>
           /\ \/ /\ p \in current /\ current' = {p}
                 /\ record' = [record EXCEPT !.receipts[target[p]] = result[p]]
              \/ /\ p \notin current /\ UNCHANGED <<record, current>>
           /\ pc' = [pc EXCEPT ![p] = "inspect"]
           /\ target' = [target EXCEPT ![p] = None]
           /\ result' = [result EXCEPT ![p] = "none"]
           /\ overtaken' = overtaken \ {p}
           /\ record'.resources = record.resources
           /\ \A r \in Resource \ {target[p]} : record'.receipts[r] = record.receipts[r]
           /\ p \notin current => record' = record
<1>1. target[p] \in Resource /\ record \in [entry : 1..Entries, done : Seq(Evidence),
          resources : [Resource -> {"none", "pending", "delivered"}],
          receipts : [Resource -> Receipt]]
  BY DEF TypeOK, Finish, At
<1>2. \/ p \in current /\ record' = [record EXCEPT !.receipts[target[p]] = result[p]]
      \/ p \notin current /\ record' = record
  BY DEF Finish, Outcome, Persist
<1>3. /\ record'.resources = record.resources
      /\ \A r \in Resource \ {target[p]} : record'.receipts[r] = record.receipts[r]
      /\ p \notin current => record' = record
  BY <1>1, <1>2
<1> QED
  BY <1>3 DEF TypeOK, Finish, At, Goto, Outcome, Persist

LEMMA ReceiptsOfDeliveredStep == ASSUME TruthInv, [Next]_vars PROVE ReceiptsOfDelivered'
<1> USE DEF TruthInv, ReceiptsOfDelivered, TypeOK, Terminal, At, Goto, Return, calls, locals, bounds, Persist, Fresh, Outcome
<1>1. ASSUME NEW r \in Resource, Create(r) PROVE ReceiptsOfDelivered'
  BY <1>1 DEF Create
<1>2. ASSUME NEW r \in Resource, Change(r) PROVE ReceiptsOfDelivered'
  BY <1>2 DEF Change
<1>3. ASSUME NEW r \in Resource, Settle(r) PROVE ReceiptsOfDelivered'
  BY <1>3 DEF Settle
<1>4. ASSUME NEW p \in Process, Load(p) PROVE ReceiptsOfDelivered'
  BY <1>4 DEF Load, IdleHasNothingToDo
<1>5. ASSUME NEW p \in Process, NEW r \in Resource, Register(p, r) PROVE ReceiptsOfDelivered'
  BY <1>5 DEF Register, Persist
<1>6. ASSUME NEW p \in Process, NEW r \in Resource, Bind(p, r) PROVE ReceiptsOfDelivered'
  BY <1>6 DEF Bind, Persist
<1>7. ASSUME NEW p \in Process, NEW e \in Evidence, AdvancePhase(p, e) PROVE ReceiptsOfDelivered'
  BY <1>7 DEF AdvancePhase, Persist
<1>8. ASSUME NEW p \in Process, AdvanceQueue(p) PROVE ReceiptsOfDelivered'
  BY <1>8 DEF AdvanceQueue, Persist, Fresh, IdleHasNothingToDo
<1>9. ASSUME NEW p \in Process, BeginCleanup(p) PROVE ReceiptsOfDelivered'
  BY <1>9 DEF BeginCleanup
<1>10. ASSUME NEW p \in Process, Plan(p) PROVE ReceiptsOfDelivered'
  BY <1>10 DEF Plan, Return, Eligible, StageResources, Registered
<1>11. ASSUME NEW p \in Process, Inspect(p) PROVE ReceiptsOfDelivered'
  <2>1. PICK r \in todo[p] : r \in Resource /\
           (UNCHANGED record \/ \E status \in Receipt : Outcome(p, r, status))
    BY <1>11 DEF Inspect, Receipt
  <2>2. CASE UNCHANGED record
    BY <2>2
  <2>3. CASE p \in current /\ \E status \in Receipt : Outcome(p, r, status)
    <3>1. record.resources[r] = "delivered"
      BY <2>3 DEF CurrentCleaners
    <3> QED
      BY <2>1, <2>3, <3>1
  <2>4. CASE p \notin current /\ \E status \in Receipt : Outcome(p, r, status)
    BY <2>4
  <2> QED
    BY <2>1, <2>2, <2>3, <2>4
<1>12. ASSUME NEW p \in Process, Start(p) PROVE ReceiptsOfDelivered'
  <2>1. /\ record'.resources = record.resources /\ target[p] \in Resource
        /\ \A r \in Resource \ {target[p]} : record'.receipts[r] = record.receipts[r]
        /\ p \notin current => record' = record
        /\ pc[p] \in {"start", "finish"}
    BY <1>12, StartEffect
  <2>2. p \in current => record.resources[target[p]] = "delivered"
    BY <2>1 DEF CurrentCleaners
  <2> HIDE DEF TypeOK
  <2> QED
    BY <2>1, <2>2
<1>13. ASSUME NEW p \in Process, Remove(p) PROVE ReceiptsOfDelivered'
  BY <1>13 DEF Remove
<1>14. ASSUME NEW p \in Process, Finish(p) PROVE ReceiptsOfDelivered'
  <2>1. /\ record'.resources = record.resources /\ target[p] \in Resource
        /\ \A r \in Resource \ {target[p]} : record'.receipts[r] = record.receipts[r]
        /\ p \notin current => record' = record
        /\ pc[p] \in {"start", "finish"}
    BY <1>14, FinishEffect
  <2>2. p \in current => record.resources[target[p]] = "delivered"
    BY <2>1 DEF CurrentCleaners
  <2> HIDE DEF TypeOK
  <2> QED
    BY <2>1, <2>2
<1>15. ASSUME NEW p \in Process, EndStage(p) PROVE ReceiptsOfDelivered'
  BY <1>15 DEF EndStage, Return, StageResources, Registered
<1>16. ASSUME NEW p \in Process, RemoveFails(p) PROVE ReceiptsOfDelivered'
  BY <1>16 DEF RemoveFails
<1>17. ASSUME NEW p \in Process, InspectFails(p) PROVE ReceiptsOfDelivered'
  BY <1>17 DEF InspectFails, Return
<1>18. ASSUME NEW p \in Process, End(p) PROVE ReceiptsOfDelivered'
  BY <1>18 DEF End, Return
<1>19. CASE UNCHANGED vars
  BY <1>19 DEF vars
<1> QED
  BY <1>1, <1>2, <1>3, <1>4, <1>5, <1>6, <1>7, <1>8, <1>9, <1>10, <1>11,
     <1>12, <1>13, <1>14, <1>15, <1>16, <1>17, <1>18, <1>19
     DEF Next, World, Update, Step

LEMMA IdleHasNothingToDoStep == ASSUME TruthInv, [Next]_vars PROVE IdleHasNothingToDo'
<1> USE DEF TruthInv, IdleHasNothingToDo, TypeOK, Terminal, At, Goto, Return, calls, locals, bounds, Persist, Fresh, Outcome
<1>1. ASSUME NEW r \in Resource, Create(r) PROVE IdleHasNothingToDo'
  BY <1>1 DEF Create
<1>2. ASSUME NEW r \in Resource, Change(r) PROVE IdleHasNothingToDo'
  BY <1>2 DEF Change
<1>3. ASSUME NEW r \in Resource, Settle(r) PROVE IdleHasNothingToDo'
  BY <1>3 DEF Settle
<1>4. ASSUME NEW p \in Process, Load(p) PROVE IdleHasNothingToDo'
  BY <1>4 DEF Load, IdleHasNothingToDo
<1>5. ASSUME NEW p \in Process, NEW r \in Resource, Register(p, r) PROVE IdleHasNothingToDo'
  BY <1>5 DEF Register, Persist
<1>6. ASSUME NEW p \in Process, NEW r \in Resource, Bind(p, r) PROVE IdleHasNothingToDo'
  BY <1>6 DEF Bind, Persist
<1>7. ASSUME NEW p \in Process, NEW e \in Evidence, AdvancePhase(p, e) PROVE IdleHasNothingToDo'
  BY <1>7 DEF AdvancePhase, Persist
<1>8. ASSUME NEW p \in Process, AdvanceQueue(p) PROVE IdleHasNothingToDo'
  BY <1>8 DEF AdvanceQueue, Persist, Fresh, IdleHasNothingToDo
<1>9. ASSUME NEW p \in Process, BeginCleanup(p) PROVE IdleHasNothingToDo'
  BY <1>9 DEF BeginCleanup
<1>10. ASSUME NEW p \in Process, Plan(p) PROVE IdleHasNothingToDo'
  BY <1>10 DEF Plan, Return, Eligible, StageResources, Registered
<1>11. ASSUME NEW p \in Process, Inspect(p) PROVE IdleHasNothingToDo'
  BY <1>11 DEF Inspect, Outcome, Persist, Removable, ReceiptsOfDelivered, CurrentCleaners
<1>12. ASSUME NEW p \in Process, Start(p) PROVE IdleHasNothingToDo'
  BY <1>12 DEF Start, Outcome, Persist, CurrentCleaners
<1>13. ASSUME NEW p \in Process, Remove(p) PROVE IdleHasNothingToDo'
  BY <1>13 DEF Remove
<1>14. ASSUME NEW p \in Process, Finish(p) PROVE IdleHasNothingToDo'
  BY <1>14 DEF Finish, Outcome, Persist, CurrentCleaners
<1>15. ASSUME NEW p \in Process, EndStage(p) PROVE IdleHasNothingToDo'
  BY <1>15 DEF EndStage, Return, StageResources, Registered
<1>16. ASSUME NEW p \in Process, RemoveFails(p) PROVE IdleHasNothingToDo'
  BY <1>16 DEF RemoveFails
<1>17. ASSUME NEW p \in Process, InspectFails(p) PROVE IdleHasNothingToDo'
  BY <1>17 DEF InspectFails, Return
<1>18. ASSUME NEW p \in Process, End(p) PROVE IdleHasNothingToDo'
  BY <1>18 DEF End, Return
<1>19. CASE UNCHANGED vars
  BY <1>19 DEF vars
<1> QED
  BY <1>1, <1>2, <1>3, <1>4, <1>5, <1>6, <1>7, <1>8, <1>9, <1>10, <1>11,
     <1>12, <1>13, <1>14, <1>15, <1>16, <1>17, <1>18, <1>19
     DEF Next, World, Update, Step

LEMMA ReceiptsTruthfulStep == ASSUME TruthInv, [Next]_vars PROVE ReceiptsTruthful'
<1> USE DEF TruthInv, ReceiptsTruthful, TypeOK, Terminal, At, Goto, Return, calls, locals, bounds, Persist, Fresh, Outcome
<1>1. ASSUME NEW r \in Resource, Create(r) PROVE ReceiptsTruthful'
  BY <1>1 DEF Create, ReceiptsOfDelivered
<1>2. ASSUME NEW r \in Resource, Change(r) PROVE ReceiptsTruthful'
  BY <1>2 DEF Change
<1>3. ASSUME NEW r \in Resource, Settle(r) PROVE ReceiptsTruthful'
  BY <1>3 DEF Settle
<1>4. ASSUME NEW p \in Process, Load(p) PROVE ReceiptsTruthful'
  BY <1>4 DEF Load, IdleHasNothingToDo
<1>5. ASSUME NEW p \in Process, NEW r \in Resource, Register(p, r) PROVE ReceiptsTruthful'
  BY <1>5 DEF Register, Persist, ReceiptsOfDelivered
<1>6. ASSUME NEW p \in Process, NEW r \in Resource, Bind(p, r) PROVE ReceiptsTruthful'
  BY <1>6 DEF Bind, Persist, ReceiptsOfDelivered
<1>7. ASSUME NEW p \in Process, NEW e \in Evidence, AdvancePhase(p, e) PROVE ReceiptsTruthful'
  BY <1>7 DEF AdvancePhase, Persist
<1>8. ASSUME NEW p \in Process, AdvanceQueue(p) PROVE ReceiptsTruthful'
  BY <1>8 DEF AdvanceQueue, Persist, Fresh, IdleHasNothingToDo
<1>9. ASSUME NEW p \in Process, BeginCleanup(p) PROVE ReceiptsTruthful'
  BY <1>9 DEF BeginCleanup
<1>10. ASSUME NEW p \in Process, Plan(p) PROVE ReceiptsTruthful'
  BY <1>10 DEF Plan, Return, Eligible, StageResources, Registered
<1>11. ASSUME NEW p \in Process, Inspect(p) PROVE ReceiptsTruthful'
  BY <1>11 DEF Inspect, Outcome, Persist, Removable, ReceiptsOfDelivered, CurrentCleaners
<1>12. ASSUME NEW p \in Process, Start(p) PROVE ReceiptsTruthful'
  BY <1>12 DEF Start, Outcome, Persist, CurrentCleaners
<1>13. ASSUME NEW p \in Process, Remove(p) PROVE ReceiptsTruthful'
  BY <1>13 DEF Remove
<1>14. ASSUME NEW p \in Process, Finish(p) PROVE ReceiptsTruthful'
  BY <1>14 DEF Finish, Outcome, Persist, CurrentCleaners
<1>15. ASSUME NEW p \in Process, EndStage(p) PROVE ReceiptsTruthful'
  BY <1>15 DEF EndStage, Return, StageResources, Registered
<1>16. ASSUME NEW p \in Process, RemoveFails(p) PROVE ReceiptsTruthful'
  BY <1>16 DEF RemoveFails
<1>17. ASSUME NEW p \in Process, InspectFails(p) PROVE ReceiptsTruthful'
  BY <1>17 DEF InspectFails, Return
<1>18. ASSUME NEW p \in Process, End(p) PROVE ReceiptsTruthful'
  BY <1>18 DEF End, Return
<1>19. CASE UNCHANGED vars
  BY <1>19 DEF vars
<1> QED
  BY <1>1, <1>2, <1>3, <1>4, <1>5, <1>6, <1>7, <1>8, <1>9, <1>10, <1>11,
     <1>12, <1>13, <1>14, <1>15, <1>16, <1>17, <1>18, <1>19
     DEF Next, World, Update, Step

LEMMA CurrentCleanersStep == ASSUME TruthInv, [Next]_vars PROVE CurrentCleaners'
<1> USE DEF TruthInv, CurrentCleaners, TypeOK, Terminal, At, Goto, Return, calls, locals, bounds, Persist, Fresh, Outcome
<1>1. ASSUME NEW r \in Resource, Create(r) PROVE CurrentCleaners'
  BY <1>1 DEF Create
<1>2. ASSUME NEW r \in Resource, Change(r) PROVE CurrentCleaners'
  BY <1>2 DEF Change
<1>3. ASSUME NEW r \in Resource, Settle(r) PROVE CurrentCleaners'
  BY <1>3 DEF Settle
<1>4. ASSUME NEW p \in Process, Load(p) PROVE CurrentCleaners'
  BY <1>4 DEF Load, IdleHasNothingToDo
<1>5. ASSUME NEW p \in Process, NEW r \in Resource, Register(p, r) PROVE CurrentCleaners'
  BY <1>5 DEF Register, Persist
<1>6. ASSUME NEW p \in Process, NEW r \in Resource, Bind(p, r) PROVE CurrentCleaners'
  BY <1>6 DEF Bind, Persist
<1>7. ASSUME NEW p \in Process, NEW e \in Evidence, AdvancePhase(p, e) PROVE CurrentCleaners'
  BY <1>7 DEF AdvancePhase, Persist
<1>8. ASSUME NEW p \in Process, AdvanceQueue(p) PROVE CurrentCleaners'
  BY <1>8 DEF AdvanceQueue, Persist, Fresh, IdleHasNothingToDo
<1>9. ASSUME NEW p \in Process, BeginCleanup(p) PROVE CurrentCleaners'
  BY <1>9 DEF BeginCleanup
<1>10. ASSUME NEW p \in Process, Plan(p) PROVE CurrentCleaners'
  BY <1>10 DEF Plan, Return, Eligible, StageResources, Registered, Eligible
<1>11. ASSUME NEW p \in Process, Inspect(p) PROVE CurrentCleaners'
  <2>1. /\ UNCHANGED <<git, result>> /\ record'.resources = record.resources
        /\ current' \subseteq current
        /\ \A q \in Process : todo'[q] \subseteq todo[q]
    BY <1>11 DEF Inspect
  <2>2. \A q \in Process : \/ pc'[q] = pc[q] /\ target'[q] = target[q]
                           \/ pc'[q] = "start" /\ target'[q] \in todo[q]
    BY <1>11 DEF Inspect
  <2>3. current' \subseteq Process
    BY <2>1
  <2> HIDE DEF TypeOK
  <2> QED BY <2>1, <2>2, <2>3
<1>12. ASSUME NEW p \in Process, Start(p) PROVE CurrentCleaners'
  <2>1. /\ record'.resources = record.resources /\ current' \subseteq current
        /\ UNCHANGED <<git, todo, result>> /\ pc[p] = "start"
        /\ pc' = [pc EXCEPT ![p] = "remove"] \/ pc' = [pc EXCEPT ![p] = "inspect"]
        /\ pc'[p] = "remove" => target' = target
        /\ \A q \in Process \ {p} : target'[q] = target[q]
    BY <1>12, StartEffect
  <2>2. \A q \in Process \ {p} : pc'[q] = pc[q]
    BY <2>1
  <2>3. pc'[p] \in {"remove", "inspect"} /\ current' \subseteq Process
    BY <2>1
  <2> HIDE DEF TypeOK
  <2> QED
    BY <2>1, <2>2, <2>3
<1>13. ASSUME NEW p \in Process, Remove(p) PROVE CurrentCleaners'
  BY <1>13 DEF Remove
<1>14. ASSUME NEW p \in Process, Finish(p) PROVE CurrentCleaners'
  <2>1. /\ record'.resources = record.resources /\ current' \subseteq current
        /\ UNCHANGED <<git, todo>> /\ pc' = [pc EXCEPT ![p] = "inspect"]
        /\ \A q \in Process \ {p} : target'[q] = target[q] /\ result'[q] = result[q]
    BY <1>14, FinishEffect
  <2>2. \A q \in Process \ {p} : pc'[q] = pc[q]
    BY <2>1
  <2>3. pc'[p] = "inspect" /\ current' \subseteq Process
    BY <2>1
  <2> HIDE DEF TypeOK
  <2> QED
    BY <2>1, <2>2, <2>3
<1>15. ASSUME NEW p \in Process, EndStage(p) PROVE CurrentCleaners'
  BY <1>15 DEF EndStage, Return, StageResources, Registered
<1>16. ASSUME NEW p \in Process, RemoveFails(p) PROVE CurrentCleaners'
  BY <1>16 DEF RemoveFails
<1>17. ASSUME NEW p \in Process, InspectFails(p) PROVE CurrentCleaners'
  BY <1>17 DEF InspectFails, Return
<1>18. ASSUME NEW p \in Process, End(p) PROVE CurrentCleaners'
  BY <1>18 DEF End, Return
<1>19. CASE UNCHANGED vars
  BY <1>19 DEF vars
<1> QED
  BY <1>1, <1>2, <1>3, <1>4, <1>5, <1>6, <1>7, <1>8, <1>9, <1>10, <1>11,
     <1>12, <1>13, <1>14, <1>15, <1>16, <1>17, <1>18, <1>19
     DEF Next, World, Update, Step

LEMMA TruthStep == ASSUME TruthInv, [Next]_vars PROVE TruthInv'
BY TypeStep, ReceiptsOfDeliveredStep, IdleHasNothingToDoStep, ReceiptsTruthfulStep,
   CurrentCleanersStep DEF TruthInv

LEMMA InitTruth == Init => TruthInv
<1> SUFFICES ASSUME Init PROVE TruthInv
  OBVIOUS
<1>1. TypeOK
  BY InitTyped
<1>2. ReceiptsTruthful /\ ReceiptsOfDelivered
  BY DEF Init, Fresh, ReceiptsTruthful, ReceiptsOfDelivered, Terminal
<1>3. IdleHasNothingToDo /\ CurrentCleaners
  BY DEF Init, IdleHasNothingToDo, CurrentCleaners
<1> QED
  BY <1>1, <1>2, <1>3 DEF TruthInv

(***************************************************************************)
(* A terminal receipt tells the truth, whatever the discipline: the        *)
(* resource is gone, whoever wrote the receipt, whichever copies of the    *)
(* record were stale, and whatever crashed in between.                     *)
(***************************************************************************)
THEOREM ReceiptsCorrect == Spec => []ReceiptsTruthful
<1>1. Init => TruthInv
  BY InitTruth
<1>2. TruthInv /\ [Next]_vars => TruthInv'
  BY TruthStep
<1>3. TruthInv => ReceiptsTruthful
  BY DEF TruthInv
<1> QED
  BY <1>1, <1>2, <1>3, PTL DEF Spec

-----------------------------------------------------------------------------
\* Removals.

LEMMA GitFollowsRecordStep == ASSUME RemovalInv, [Next]_vars PROVE GitFollowsRecord'
<1> USE DEF RemovalInv, TruthInv, GitFollowsRecord, TypeOK, Terminal, At, Goto, Return, calls, locals, bounds, Persist, Fresh, Outcome
<1>1. ASSUME NEW r \in Resource, Create(r) PROVE GitFollowsRecord'
  BY <1>1 DEF Create
<1>2. ASSUME NEW r \in Resource, Change(r) PROVE GitFollowsRecord'
  BY <1>2 DEF Change
<1>3. ASSUME NEW r \in Resource, Settle(r) PROVE GitFollowsRecord'
  BY <1>3 DEF Settle
<1>4. ASSUME NEW p \in Process, Load(p) PROVE GitFollowsRecord'
  BY <1>4 DEF Load
<1>5. ASSUME NEW p \in Process, NEW r \in Resource, Register(p, r) PROVE GitFollowsRecord'
  BY <1>5 DEF Register
<1>6. ASSUME NEW p \in Process, NEW r \in Resource, Bind(p, r) PROVE GitFollowsRecord'
  BY <1>6 DEF Bind
<1>7. ASSUME NEW p \in Process, NEW e \in Evidence, AdvancePhase(p, e) PROVE GitFollowsRecord'
  BY <1>7 DEF AdvancePhase
<1>8. ASSUME NEW p \in Process, AdvanceQueue(p) PROVE GitFollowsRecord'
  BY <1>8 DEF AdvanceQueue, ReceiptsTruthful, EntryClean, Registered
<1>9. ASSUME NEW p \in Process, BeginCleanup(p) PROVE GitFollowsRecord'
  BY <1>9 DEF BeginCleanup
<1>10. ASSUME NEW p \in Process, Plan(p) PROVE GitFollowsRecord'
  BY <1>10 DEF Plan
<1>11. ASSUME NEW p \in Process, Inspect(p) PROVE GitFollowsRecord'
  BY <1>11 DEF Inspect
<1>12. ASSUME NEW p \in Process, Start(p) PROVE GitFollowsRecord'
  <2>1. record'.resources = record.resources /\ git' = git
    BY <1>12, StartEffect
  <2> HIDE DEF TypeOK
  <2> QED
    BY <2>1
<1>13. ASSUME NEW p \in Process, Remove(p) PROVE GitFollowsRecord'
  BY <1>13 DEF Remove
<1>14. ASSUME NEW p \in Process, Finish(p) PROVE GitFollowsRecord'
  <2>1. record'.resources = record.resources /\ git' = git
    BY <1>14, FinishEffect
  <2> HIDE DEF TypeOK
  <2> QED
    BY <2>1
<1>15. ASSUME NEW p \in Process, EndStage(p) PROVE GitFollowsRecord'
  BY <1>15 DEF EndStage
<1>16. ASSUME NEW p \in Process, RemoveFails(p) PROVE GitFollowsRecord'
  BY <1>16 DEF RemoveFails
<1>17. ASSUME NEW p \in Process, InspectFails(p) PROVE GitFollowsRecord'
  BY <1>17 DEF InspectFails
<1>18. ASSUME NEW p \in Process, End(p) PROVE GitFollowsRecord'
  BY <1>18 DEF End
<1>19. CASE UNCHANGED vars
  BY <1>19 DEF vars
<1> QED
  BY <1>1, <1>2, <1>3, <1>4, <1>5, <1>6, <1>7, <1>8, <1>9, <1>10, <1>11,
     <1>12, <1>13, <1>14, <1>15, <1>16, <1>17, <1>18, <1>19
     DEF Next, World, Update, Step

LEMMA RemoversStep == ASSUME RemovalInv, [Next]_vars PROVE Removers'
<1> USE DEF RemovalInv, TruthInv, Removers, Remover, TypeOK, Terminal, At, Goto, Return, calls, locals, bounds, Persist, Fresh, Outcome
<1>1. ASSUME NEW r \in Resource, Create(r) PROVE Removers'
  BY <1>1 DEF Create
<1>2. ASSUME NEW r \in Resource, Change(r) PROVE Removers'
  BY <1>2 DEF Change
<1>3. ASSUME NEW r \in Resource, Settle(r) PROVE Removers'
  BY <1>3 DEF Settle
<1>4. ASSUME NEW p \in Process, Load(p) PROVE Removers'
  BY <1>4 DEF Load
<1>5. ASSUME NEW p \in Process, NEW r \in Resource, Register(p, r) PROVE Removers'
  BY <1>5 DEF Register, Persist
<1>6. ASSUME NEW p \in Process, NEW r \in Resource, Bind(p, r) PROVE Removers'
  BY <1>6 DEF Bind, Persist
<1>7. ASSUME NEW p \in Process, NEW e \in Evidence, AdvancePhase(p, e) PROVE Removers'
  BY <1>7 DEF AdvancePhase, Persist
<1>8. ASSUME NEW p \in Process, AdvanceQueue(p) PROVE Removers'
  BY <1>8 DEF AdvanceQueue, Persist, Fresh, Cleaning, IdleHasNothingToDo
<1>9. ASSUME NEW p \in Process, BeginCleanup(p) PROVE Removers'
  BY <1>9 DEF BeginCleanup
<1>10. ASSUME NEW p \in Process, Plan(p) PROVE Removers'
  BY <1>10 DEF Plan, Return, Eligible, StageResources, Registered, Eligible
<1>11. ASSUME NEW p \in Process, Inspect(p) PROVE Removers'
  <2>1. PICK r \in todo[p] :
           \/ UNCHANGED <<pc, target>>
           \/ /\ git[r] = "delivered" /\ pc' = [pc EXCEPT ![p] = "start"]
              /\ target' = [target EXCEPT ![p] = r]
              /\ UNCHANGED record
    BY <1>11 DEF Inspect, Removable
  <2>2. /\ record'.resources = record.resources
        /\ \A r1 \in Resource : record.receipts[r1] # "none" => record'.receipts[r1] # "none"
        /\ UNCHANGED <<git, overtaken, running>>
    BY <1>11 DEF Inspect
  <2>3. r \in Resource /\ (git[r] = "delivered" => record.resources[r] = "delivered")
    BY DEF GitFollowsRecord
  <2>4. \A q \in Process : pc[q] \in {"start", "remove"} => target[q] \in Resource
    OBVIOUS
  <2>5. CASE UNCHANGED <<pc, target>>
    <3> HIDE DEF Outcome, Persist, At, Goto, Return
    <3> QED
      BY <2>2, <2>4, <2>5
  <2>6. CASE /\ git[r] = "delivered" /\ pc' = [pc EXCEPT ![p] = "start"]
             /\ target' = [target EXCEPT ![p] = r]
             /\ UNCHANGED record
    BY <2>2, <2>3, <2>4, <2>6
  <2> QED
    BY <2>1, <2>5, <2>6
<1>12. ASSUME NEW p \in Process, Start(p) PROVE Removers'
  BY <1>12 DEF Start, Outcome, Persist, CurrentCleaners
<1>13. ASSUME NEW p \in Process, Remove(p) PROVE Removers'
  BY <1>13 DEF Remove
<1>14. ASSUME NEW p \in Process, Finish(p) PROVE Removers'
  <2>1. /\ record'.resources = record.resources
        /\ \A r \in Resource : record.receipts[r] # "none" => record'.receipts[r] # "none"
    <3>1. target[p] \in Resource /\ result[p] \in {"completed", "blocked"}
      BY <1>14 DEF Finish
    <3> QED
      BY <1>14, <3>1 DEF Finish
  <2>2. /\ UNCHANGED <<git, todo, running>>
        /\ pc' = [pc EXCEPT ![p] = "inspect"]
        /\ target' = [target EXCEPT ![p] = None]
        /\ overtaken' = overtaken \ {p}
    BY <1>14 DEF Finish
  <2>3. ASSUME NEW q \in running, q # p PROVE Remover(q)'
    <3>1. pc'[q] = pc[q] /\ target'[q] = target[q] /\ (q \in overtaken' <=> q \in overtaken)
      BY <2>2, <2>3
    <3>2. pc[q] \in {"start", "remove"} => target[q] \in Resource
      BY DEF Points
    <3> QED
      BY <2>1, <2>2, <2>3, <3>1, <3>2
  <2>4. p \in running => Remover(p)'
    BY <2>1, <2>2
  <2> QED
    BY <2>2, <2>3, <2>4
<1>15. ASSUME NEW p \in Process, EndStage(p) PROVE Removers'
  BY <1>15 DEF EndStage, Return, StageResources, Registered
<1>16. ASSUME NEW p \in Process, RemoveFails(p) PROVE Removers'
  BY <1>16 DEF RemoveFails
<1>17. ASSUME NEW p \in Process, InspectFails(p) PROVE Removers'
  BY <1>17 DEF InspectFails, Return
<1>18. ASSUME NEW p \in Process, End(p) PROVE Removers'
  BY <1>18 DEF End, Return
<1>19. CASE UNCHANGED vars
  BY <1>19 DEF vars
<1> QED
  BY <1>1, <1>2, <1>3, <1>4, <1>5, <1>6, <1>7, <1>8, <1>9, <1>10, <1>11,
     <1>12, <1>13, <1>14, <1>15, <1>16, <1>17, <1>18, <1>19
     DEF Next, World, Update, Step

LEMMA RemovalStep ==
    ASSUME RemovalInv, [Next]_vars PROVE RemovalInv'
BY TruthStep, GitFollowsRecordStep, RemoversStep DEF RemovalInv

LEMMA InitRemoval == Init => RemovalInv
<1> SUFFICES ASSUME Init PROVE RemovalInv
  OBVIOUS
<1>1. TruthInv
  BY InitTruth
<1>2. GitFollowsRecord /\ Removers
  BY DEF Init, GitFollowsRecord, Removers, Remover
<1> QED
  BY <1>1, <1>2 DEF RemovalInv

\* What may be destroyed, and what must be on record before it is.
OnlyDelivered ==
    \A r \in Resource : git[r] # "absent" /\ git'[r] = "absent" =>
        \E p \in running :
            /\ target[p] = r /\ pc[p] = "remove" /\ pc'[p] = "finish"
            /\ \/ p \in overtaken
               \/ /\ git[r] = "delivered"
                  /\ record.resources[r] = "delivered"
                  /\ record.receipts[r] # "none"

\* Nothing but the removal itself makes a resource absent.
LEMMA RemovalsOnlyDelivered ==
    ASSUME RemovalInv, [Next]_vars PROVE OnlyDelivered
<1> USE DEF RemovalInv, TruthInv, TypeOK, OnlyDelivered, At, Goto, Return, calls, locals, bounds
<1>1. ASSUME NEW r \in Resource, Create(r) PROVE OnlyDelivered
  BY <1>1 DEF Create
<1>2. ASSUME NEW r \in Resource, Change(r) PROVE OnlyDelivered
  BY <1>2 DEF Change
<1>3. ASSUME NEW r \in Resource, Settle(r) PROVE OnlyDelivered
  BY <1>3 DEF Settle
<1>4. ASSUME NEW p \in Process, Load(p) PROVE OnlyDelivered
  BY <1>4 DEF Load
<1>5. ASSUME NEW p \in Process, NEW r \in Resource, Register(p, r) PROVE OnlyDelivered
  BY <1>5 DEF Register, Persist
<1>6. ASSUME NEW p \in Process, NEW r \in Resource, Bind(p, r) PROVE OnlyDelivered
  BY <1>6 DEF Bind, Persist
<1>7. ASSUME NEW p \in Process, NEW e \in Evidence, AdvancePhase(p, e) PROVE OnlyDelivered
  BY <1>7 DEF AdvancePhase, Persist
<1>8. ASSUME NEW p \in Process, AdvanceQueue(p) PROVE OnlyDelivered
  BY <1>8 DEF AdvanceQueue, Persist, Fresh
<1>9. ASSUME NEW p \in Process, BeginCleanup(p) PROVE OnlyDelivered
  BY <1>9 DEF BeginCleanup
<1>10. ASSUME NEW p \in Process, Plan(p) PROVE OnlyDelivered
  BY <1>10 DEF Plan, Return, Eligible, StageResources, Registered
<1>11. ASSUME NEW p \in Process, Inspect(p) PROVE OnlyDelivered
  BY <1>11 DEF Inspect, Outcome, Persist, Removable
<1>12. ASSUME NEW p \in Process, Start(p) PROVE OnlyDelivered
  BY <1>12 DEF Start, Outcome, Persist
<1>13. ASSUME NEW p \in Process, Remove(p) PROVE OnlyDelivered
  BY <1>13 DEF Remove, Removers, Remover
<1>14. ASSUME NEW p \in Process, Finish(p) PROVE OnlyDelivered
  BY <1>14 DEF Finish, Outcome, Persist
<1>15. ASSUME NEW p \in Process, EndStage(p) PROVE OnlyDelivered
  BY <1>15 DEF EndStage, Return, StageResources, Registered
<1>16. ASSUME NEW p \in Process, RemoveFails(p) PROVE OnlyDelivered
  BY <1>16 DEF RemoveFails
<1>17. ASSUME NEW p \in Process, InspectFails(p) PROVE OnlyDelivered
  BY <1>17 DEF InspectFails, Return
<1>18. ASSUME NEW p \in Process, End(p) PROVE OnlyDelivered
  BY <1>18 DEF End, Return
<1>19. CASE UNCHANGED vars
  BY <1>19 DEF vars
<1> QED
  BY <1>1, <1>2, <1>3, <1>4, <1>5, <1>6, <1>7, <1>8, <1>9, <1>10, <1>11,
     <1>12, <1>13, <1>14, <1>15, <1>16, <1>17, <1>18, <1>19
     DEF Next, World, Update, Step

(***************************************************************************)
(* What a cleanup destroys is delivered work of the selected entry, its    *)
(* start on record, unless the cleaner was overtaken since its last        *)
(* inspection: somebody changed the resource, or the next entry was        *)
(* selected.  It holds for any number of processes, resources and entries, *)
(* with or without a discipline.                                           *)
(***************************************************************************)
THEOREM RemovesOnlyDeliveredCorrect == Spec => RemovesOnlyDelivered
<1>1. Init => RemovalInv
  BY InitRemoval
<1>2. RemovalInv /\ [Next]_vars => RemovalInv'
  BY RemovalStep
<1>3. RemovalInv /\ [Next]_vars => OnlyDelivered
  BY RemovalsOnlyDelivered
<1>4. RemovalInv /\ [Next]_vars =>
         [\A r \in Resource : git[r] # "absent" /\ git'[r] = "absent" =>
              \E p \in running :
                  /\ target[p] = r /\ pc[p] = "remove" /\ pc'[p] = "finish"
                  /\ \/ p \in overtaken
                     \/ /\ git[r] = "delivered"
                        /\ record.resources[r] = "delivered"
                        /\ record.receipts[r] # "none"]_vars
  BY <1>3 DEF OnlyDelivered
<1> QED
  BY <1>1, <1>2, <1>4, PTL DEF Spec, RemovesOnlyDelivered

-----------------------------------------------------------------------------
\* The queue.

LEMMA InitQueue == Init => Queue!Init
BY DEF Init, Fresh, Queue!Init, Registered

\* EntryClean and truthful receipts: nothing registered is left.
LEMMA CleanIsEmpty ==
    ASSUME ReceiptsTruthful, EntryClean(record)
    PROVE  {r \in Registered(record) : git[r] # "absent"} = {}
BY DEF ReceiptsTruthful, EntryClean, Registered

LEMMA QueueStep == ASSUME TruthInv, [Next]_vars PROVE [Queue!Next]_(Queue!vars)
<1> DEFINE left == {r \in Registered(record) : git[r] # "absent"}
<1>1. ASSUME NEW p \in Process, NEW e \in Evidence, AdvancePhase(p, e)
      PROVE  Queue!CompletePhase(e)
  <2>1. /\ Len(record.done) < LastPhase
        /\ Len(record.done) + 1 = LastPhase => left = {}
    BY <1>1, CleanIsEmpty DEF AdvancePhase, TruthInv
  <2>2. record.done \in Seq(Evidence)
    BY DEF TruthInv, TypeOK
  <2>3. record' = [record EXCEPT !.done = Append(record.done, e)] /\ git' = git
    BY <1>1 DEF AdvancePhase, Persist
  <2>4. /\ record'.done = Append(record.done, e)
        /\ record'.entry = record.entry /\ record'.resources = record.resources
    BY <2>3 DEF TruthInv, TypeOK
  <2>5. left' = left
    BY <2>3, <2>4 DEF Registered
  <2> QED
    BY <2>1, <2>4, <2>5 DEF Queue!CompletePhase
<1>2. ASSUME NEW p \in Process, AdvanceQueue(p) PROVE Queue!SelectNext
  <2>1. /\ Len(record.done) = LastPhase /\ left = {} /\ record.entry < Entries
    BY <1>2, CleanIsEmpty DEF AdvanceQueue, TruthInv
  <2>2. /\ record'.entry = record.entry + 1 /\ record'.done = <<>>
        /\ \A r \in Resource : record'.resources[r] = "none"
    BY <1>2 DEF AdvanceQueue, Persist, Fresh
  <2>3. left' = {}
    BY <2>2 DEF Registered
  <2> QED
    BY <2>1, <2>2, <2>3 DEF Queue!SelectNext
<1>3. ASSUME UNCHANGED <<record.entry, record.done>> PROVE [Queue!Next]_(Queue!vars)
  <2>1. left' \in SUBSET Resource
    BY DEF Registered
  <2> QED
    BY <1>3, <2>1 DEF Queue!Next, Queue!Own
<1>4. ASSUME UNCHANGED record PROVE UNCHANGED <<record.entry, record.done>>
  BY <1>4
<1>5. ASSUME NEW p \in Process, NEW r \in Resource, Register(p, r) \/ Bind(p, r)
      PROVE  UNCHANGED <<record.entry, record.done>>
  BY <1>5 DEF Register, Bind, Persist, TruthInv, TypeOK
<1>6. ASSUME NEW p \in Process, NEW r, NEW status, Outcome(p, r, status)
      PROVE  UNCHANGED <<record.entry, record.done>>
  BY <1>6 DEF Outcome, Persist, TruthInv, TypeOK
<1>7. ASSUME NEW p \in Process, Inspect(p) \/ Start(p) \/ Finish(p)
      PROVE  UNCHANGED <<record.entry, record.done>>
  BY <1>4, <1>6, <1>7 DEF Inspect, Start, Finish
<1>8. ASSUME World PROVE UNCHANGED record
  BY <1>8 DEF World, Create, Change, Settle
<1>9. ASSUME NEW p \in Process,
             Load(p) \/ BeginCleanup(p) \/ Plan(p) \/ Remove(p) \/ EndStage(p)
             \/ RemoveFails(p) \/ InspectFails(p) \/ End(p)
      PROVE  UNCHANGED record
  BY <1>9 DEF Load, BeginCleanup, Plan, Remove, EndStage, RemoveFails, InspectFails, End
<1>10. CASE UNCHANGED vars
  BY <1>3, <1>4, <1>10 DEF vars
<1>11. CASE World
  BY <1>3, <1>4, <1>8, <1>11
<1>12. ASSUME NEW p \in Process, Update(p) PROVE [Queue!Next]_(Queue!vars)
  BY <1>1, <1>2, <1>3, <1>5, <1>12 DEF Update, Queue!Next
<1>13. ASSUME NEW p \in Process,
              Load(p) \/ BeginCleanup(p) \/ Step(p) \/ RemoveFails(p) \/ InspectFails(p)
              \/ End(p)
       PROVE  [Queue!Next]_(Queue!vars)
  BY <1>3, <1>4, <1>7, <1>9, <1>13 DEF Step
<1> QED
  BY <1>10, <1>11, <1>12, <1>13 DEF Next

(***************************************************************************)
(* The entries of the queue are delivered one by one, phase by phase, and  *)
(* none is left before everything it owned is gone: the record implements  *)
(* DeliveryQueue, for every queue and whatever the processes do.           *)
(***************************************************************************)
THEOREM LifecycleImplementsQueue == Spec => ImplementsQueue
<1>1. Init => TruthInv /\ Queue!Init
  BY InitTruth, InitQueue
<1>2. TruthInv /\ [Next]_vars => TruthInv'
  BY TruthStep
<1>3. TruthInv /\ [Next]_vars => [Queue!Next]_(Queue!vars)
  BY QueueStep
<1> QED
  BY <1>1, <1>2, <1>3, PTL DEF Spec, ImplementsQueue, Queue!Spec

==============================================================================
