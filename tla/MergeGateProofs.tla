---------------------------- MODULE MergeGateProofs ----------------------------
(***************************************************************************)
(* Proofs about MergeGate, for every set of failures, budget and bound.    *)
(* Nothing is proved by induction over the chain of corrections: the       *)
(* invariant says of every prefix of it that, if its links hold, its last  *)
(* record ends at the head of its own number; so a valid chain that ends   *)
(* at a head has one record for every push up to it.                       *)
(***************************************************************************)
EXTENDS MergeGate, FiniteSetTheorems, TLAPS

Correction == [from : Commit, to : Commit, signature : Signature]
EntrySet == [pr : Commit, apply : [head : Commit \cup {NoHead}, at : 0..MaxApply],
             reviews : SUBSET Review, unavailable : SUBSET [head : Commit, started : 0..MaxApply],
             failures : SUBSET Signature, corrections : Seq(Correction)]
Linked(records, i) == records[i].from = IF i = 1 THEN Anchor ELSE records[i - 1].to

\* The latest Apply is the one on record, and no review has a later time.
Timed ==
    /\ entry.apply.at = clock
    /\ \A r \in entry.reviews : r.stamp <= clock
    /\ answer # Idle => answer.stamp <= clock
    /\ dispatch # Idle => dispatch.started <= clock

\* A record of a correction is of the push that it names.
Recorded ==
    \A i \in DOMAIN entry.corrections :
        LET record == entry.corrections[i]
        IN  /\ record.to = record.from + 1 /\ record.to <= head
            /\ pushed[record.to] = record.signature

\* While the links hold, record n is of push n.
Numbered ==
    \A n \in DOMAIN entry.corrections :
        (\A i \in 1..n : Linked(entry.corrections, i)) => entry.corrections[n].to = n

\* No failure was corrected more often than its budget.
Budgeted == \A s \in Signature : Attempts(s) <= CorrectionBudget

GateInv == TypeOK /\ Timed /\ Recorded /\ Numbered /\ Budgeted

\* The parts of the type, one by one.
LEMMA TypeParts ==
    TypeOK <=> /\ head \in Commit /\ pushed \in [Commit -> Signature \cup {"none", "drift"}]
               /\ clock \in 0..MaxApply /\ admitted \in BOOLEAN /\ lapsed \subseteq Authorization
               /\ dispatch \in Dispatch /\ answer \in Review \cup {Idle} /\ entry \in EntrySet
               /\ permit \in [head : Commit, review : Review] \cup {Idle}
BY DEF TypeOK, EntrySet, Correction

\* A push makes the next head.
LEMMA PushStep ==
  ASSUME TypeOK, NEW how \in Signature \cup {"drift"}, Push(how)
  PROVE  /\ head' = head + 1 /\ head' \in Commit
         /\ pushed' \in [Commit -> Signature \cup {"none", "drift"}] /\ pushed'[head'] = how
         /\ \A h \in Commit : h <= head => pushed'[h] = pushed[h]
<1>1. head \in Commit /\ pushed \in [Commit -> Signature \cup {"none", "drift"}]
  BY TypeParts
<1>2. head < MaxHead /\ head' = head + 1 /\ pushed' = [pushed EXCEPT ![head + 1] = how]
  BY DEF Push
<1>3. head + 1 \in Commit /\ \A h \in Commit : h <= head => h # head + 1
  BY <1>1, <1>2, GateConstants DEF Commit
<1> QED BY <1>1, <1>2, <1>3

\* Every variable keeps its type.
LEMMA TypeStep == ASSUME TypeOK, [Next]_vars PROVE TypeOK'
<1> DEFINE Typed ==
        /\ head \in Commit /\ pushed \in [Commit -> Signature \cup {"none", "drift"}]
        /\ clock \in 0..MaxApply /\ admitted \in BOOLEAN /\ lapsed \subseteq Authorization
        /\ dispatch \in Dispatch /\ answer \in Review \cup {Idle} /\ entry \in EntrySet
        /\ permit \in [head : Commit, review : Review] \cup {Idle}
<1>0. Typed
  BY TypeParts
<1> SUFFICES Typed'
  BY TypeParts, PTL
<1>1. CASE Admit
  BY <1>0, <1>1 DEF Admit, dispatchVars
<1>2. CASE AdmissionExpires
  BY <1>0, <1>2 DEF AdmissionExpires, dispatchVars
<1>3. CASE Apply
  <2>1. clock + 1 \in 0..MaxApply
    BY <1>0, <1>3, GateConstants DEF Apply
  <2>2. [entry EXCEPT !.apply = [head |-> head, at |-> clock + 1]] \in EntrySet
    BY <1>0, <2>1 DEF EntrySet
  <2> QED BY <1>0, <1>3, <2>1, <2>2 DEF Apply, dispatchVars
<1>4. CASE Drift
  <2>1. Push("drift") /\ UNCHANGED <<entry, clock, lapsed, dispatch, answer, permit>> /\ admitted' = FALSE
    BY <1>4 DEF Drift, Push, dispatchVars
  <2> QED BY <1>0, <2>1, PushStep
<1>5. ASSUME NEW s \in Signature, Correct(s) PROVE Typed'
  <2>1. Push(s) /\ UNCHANGED <<clock, lapsed, dispatch, answer, permit>> /\ admitted' = FALSE
    BY <1>5 DEF Correct, Push, dispatchVars
  <2>2. head' = head + 1 /\ head' \in Commit
    BY <2>1, PushStep
  <2>3. entry' \in EntrySet
    <3> DEFINE record == [from |-> head, to |-> head + 1, signature |-> s]
    <3>1. record \in Correction
      BY <1>0, <2>2 DEF Correction
    <3>2. Append(entry.corrections, record) \in Seq(Correction)
      BY <1>0, <3>1 DEF EntrySet
    <3>3. entry' = [entry EXCEPT !.corrections = Append(entry.corrections, record)]
      BY <1>5 DEF Correct
    <3> HIDE DEF record
    <3> QED BY <1>0, <3>2, <3>3 DEF EntrySet
  <2> QED BY <1>0, <2>1, <2>2, <2>3, PushStep
<1>6. CASE RecordPr
  <2>1. [entry EXCEPT !.pr = head] \in EntrySet
    BY <1>0 DEF EntrySet
  <2> QED BY <1>0, <1>6, <2>1 DEF RecordPr, dispatchVars
<1>7. ASSUME NEW f \in Authorization, Lapse(f) PROVE Typed'
  BY <1>0, <1>7 DEF Lapse, Authorization, dispatchVars
<1>8. CASE LaunchReview
  <2>1. dispatch' \in Dispatch
    BY <1>0, <1>8 DEF LaunchReview, Dispatch
  <2> QED BY <1>0, <1>8, <2>1 DEF LaunchReview, worldVars
<1>9. CASE ReviewerLost \/ Resume \/ InspectionFails
  <2>1. dispatch # Idle /\ dispatch.head \in Commit /\ dispatch.started \in 0..MaxApply
    BY <1>0, <1>9 DEF ReviewerLost, Resume, InspectionFails, Dispatch, Idle
  <2>2. \A to \in {"running", "lost", "degraded"}, t \in 0..MaxApply :
            [dispatch EXCEPT !.at = to, !.started = t] \in Dispatch /\ [dispatch EXCEPT !.at = to] \in Dispatch
    BY <1>0, <2>1 DEF Dispatch
  <2>3. dispatch' \in Dispatch
    BY <1>0, <1>9, <2>2 DEF ReviewerLost, Resume, InspectionFails, Dispatch
  <2>4. entry' \in EntrySet
    <3> DEFINE u == [head |-> dispatch.head, started |-> dispatch.started]
    <3>1. [entry EXCEPT !.unavailable = @ \cup {u}] \in EntrySet
      BY <1>0, <2>1 DEF EntrySet
    <3> QED BY <1>0, <1>9, <3>1 DEF ReviewerLost, Resume, InspectionFails, RecordUnavailable
  <2> QED BY <1>0, <1>9, <2>3, <2>4 DEF ReviewerLost, Resume, InspectionFails, worldVars
<1>10. CASE RecordReview
  <2>1. answer \in Review
    BY <1>0, <1>10 DEF RecordReview
  <2>2. [entry EXCEPT !.reviews = @ \cup {answer}] \in EntrySet
    BY <1>0, <2>1 DEF EntrySet
  <2> QED BY <1>0, <1>10, <2>2 DEF RecordReview, worldVars
<1>11. CASE SessionDies
  BY <1>0, <1>11 DEF SessionDies, Dispatch, worldVars
<1>12. ASSUME NEW h \in Commit, NEW finding \in Signature \cup {"none"},
              StrictArtifact(h, finding) \/ DegradedResult(h, finding)
       PROVE  Typed'
  <2>1. dispatch.started \in 0..MaxApply
    BY <1>0, <1>12 DEF StrictArtifact, DegradedResult, Dispatch, Idle
  <2>2. \A level \in {"strict", "degraded"} :
            [head |-> h, stamp |-> dispatch.started, level |-> level, finding |-> finding] \in Review
    BY <2>1 DEF Review
  <2>3. dispatch' = Idle /\ answer' \in Review \cup {Idle}
    BY <1>12, <2>2 DEF StrictArtifact, DegradedResult
  <2> QED BY <1>0, <1>12, <2>3 DEF StrictArtifact, DegradedResult, Dispatch, worldVars
<1>13. ASSUME NEW finding \in Signature \cup {"none"}, DegradedElsewhere(finding) PROVE Typed'
  <2>1. [head |-> head, stamp |-> clock, level |-> "degraded", finding |-> finding] \in Review
    BY <1>0 DEF Review
  <2> QED BY <1>0, <1>13, <2>1 DEF DegradedElsewhere, worldVars
<1>14. ASSUME NEW r \in entry.reviews, NEW h \in Commit, NEW derived \in BOOLEAN,
              NEW contract \in BOOLEAN, AuthorizeMerge(r, h, derived, contract)
       PROVE  Typed'
  <2>1. r \in Review
    BY <1>0 DEF EntrySet
  <2> QED BY <1>0, <1>14, <2>1 DEF AuthorizeMerge, dispatchVars
<1>15. CASE UNCHANGED vars
  BY <1>0, <1>15 DEF vars
<1>16. ASSUME NEW s \in Signature, RecordVerification(s) PROVE Typed'
  <2>1. \A f \in SUBSET Signature : [entry EXCEPT !.failures = f] \in EntrySet
    BY <1>0 DEF EntrySet
  <2>2. entry.failures \in SUBSET Signature
    BY <1>0 DEF EntrySet
  <2>3. entry.failures \ {s} \in SUBSET Signature /\ entry.failures \cup {s} \in SUBSET Signature
    BY <2>2
  <2>4. entry' \in EntrySet
    BY <1>16, <2>1, <2>3 DEF RecordVerification
  <2> QED BY <1>0, <1>16, <2>4 DEF RecordVerification, dispatchVars
<1>17. ASSUME NEW h \in Commit, NEW finding \in Signature \cup {"none"}, LegacyEvidence(h, finding)
       PROVE  Typed'
  <2>1. [head |-> h, stamp |-> clock, level |-> "legacy", finding |-> finding] \in Review
    BY <1>0 DEF Review
  <2> QED BY <1>0, <1>17, <2>1 DEF LegacyEvidence, worldVars
<1> QED
  BY <1>1, <1>2, <1>3, <1>4, <1>5, <1>6, <1>7, <1>8, <1>9, <1>10, <1>11, <1>12, <1>13, <1>14, <1>15,
     <1>16, <1>17
     DEF Next, Step

\* Only Correct adds a record, and only a push moves the head.
LEMMA ChainStep ==
  ASSUME TypeOK, Next, ~ \E s \in Signature : Correct(s)
  PROVE  /\ entry'.corrections = entry.corrections
         /\ head' >= head /\ \A h \in Commit : h <= head => pushed'[h] = pushed[h]
<1>0. head \in Commit /\ entry \in EntrySet
  BY TypeParts
<1>1. CASE Drift
  <2>1. Push("drift") /\ entry' = entry
    BY <1>1 DEF Drift
  <2>2. head' = head + 1 /\ \A h \in Commit : h <= head => pushed'[h] = pushed[h]
    BY <2>1, PushStep
  <2> QED BY <1>0, <2>1, <2>2, GateConstants DEF Commit
<1>2. CASE UNCHANGED <<head, pushed, entry>>
  BY <1>0, <1>2, GateConstants DEF Commit
<1>3. CASE Apply \/ RecordPr \/ RecordReview \/ \E s \in Signature : RecordVerification(s)
  <2>1. entry'.corrections = entry.corrections
    BY <1>0, <1>3 DEF Apply, RecordPr, RecordReview, RecordVerification, EntrySet
  <2>2. UNCHANGED <<head, pushed>>
    BY <1>3 DEF Apply, RecordPr, RecordReview, RecordVerification, worldVars
  <2> QED BY <1>0, <2>1, <2>2, GateConstants DEF Commit
<1>4. CASE InspectionFails
  <2>1. entry'.corrections = entry.corrections
    BY <1>0, <1>4 DEF InspectionFails, RecordUnavailable, EntrySet
  <2>2. UNCHANGED <<head, pushed>>
    BY <1>4 DEF InspectionFails, worldVars
  <2> QED BY <1>0, <2>1, <2>2, GateConstants DEF Commit
<1>5. CASE Admit \/ AdmissionExpires \/ \E f \in Authorization : Lapse(f)
  <2>1. UNCHANGED <<head, pushed, entry>>
    BY <1>5 DEF Admit, AdmissionExpires, Lapse
  <2> QED BY <1>2, <2>1
<1>6. CASE LaunchReview \/ ReviewerLost \/ Resume \/ SessionDies
  <2>1. UNCHANGED <<head, pushed, entry>>
    BY <1>6 DEF LaunchReview, ReviewerLost, Resume, SessionDies, worldVars
  <2> QED BY <1>2, <2>1
<1>7. CASE \/ \E h \in Commit, finding \in Signature \cup {"none"} :
                  StrictArtifact(h, finding) \/ DegradedResult(h, finding) \/ LegacyEvidence(h, finding)
           \/ \E finding \in Signature \cup {"none"} : DegradedElsewhere(finding)
           \/ \E r \in entry.reviews, h \in Commit, derived, contract \in BOOLEAN :
                  AuthorizeMerge(r, h, derived, contract)
  <2>1. UNCHANGED <<head, pushed, entry>>
    BY <1>7 DEF StrictArtifact, DegradedResult, LegacyEvidence, DegradedElsewhere, AuthorizeMerge, worldVars
  <2> QED BY <1>2, <2>1
<1> QED BY <1>1, <1>2, <1>3, <1>4, <1>5, <1>6, <1>7 DEF Next, Step

\* The record that Correct appends is of its own push.
LEMMA CorrectStep ==
  ASSUME GateInv, NEW s \in Signature, Correct(s)
  PROVE  Recorded' /\ Numbered'
<1> DEFINE old == entry.corrections
           new == entry'.corrections
           record == [from |-> head, to |-> head + 1, signature |-> s]
<1>0. head \in Commit /\ entry \in EntrySet /\ old \in Seq(Correction)
  BY TypeParts DEF GateInv, EntrySet
<1>1. /\ head' = head + 1 /\ head' \in Commit /\ pushed'[head'] = s
      /\ \A h \in Commit : h <= head => pushed'[h] = pushed[h]
  <2>1. Push(s)
    BY DEF Correct
  <2> QED BY <2>1, PushStep DEF GateInv
<1>2. new = Append(old, record)
  <2>1. entry' = [entry EXCEPT !.corrections = Append(@, record)]
    BY DEF Correct
  <2> QED BY <1>0, <2>1 DEF EntrySet
<1>3. record \in Correction
  BY <1>0, <1>1 DEF Correction
<1>4. /\ Len(old) \in Nat /\ DOMAIN old = 1..Len(old) /\ DOMAIN new = 1..(Len(old) + 1)
      /\ new[Len(old) + 1] = record /\ \A i \in 1..Len(old) : new[i] = old[i]
  BY <1>0, <1>2, <1>3
<1>5. \A i \in DOMAIN old : old[i] \in Correction
  BY <1>0
<1> HIDE DEF new, old
<1>6. ASSUME NEW i \in DOMAIN new
      PROVE  new[i].to = new[i].from + 1 /\ new[i].to <= head' /\ pushed'[new[i].to] = new[i].signature
  <2>1. CASE i = Len(old) + 1
    BY <1>0, <1>1, <1>4, <2>1, GateConstants DEF Commit
  <2>2. CASE i \in 1..Len(old)
    <3>1. new[i] = old[i] /\ old[i] \in Correction
      BY <1>4, <1>5, <2>2
    <3>2. old[i].to = old[i].from + 1 /\ old[i].to <= head /\ pushed[old[i].to] = old[i].signature
      BY <1>4, <2>2 DEF GateInv, Recorded, old
    <3>3. old[i].to \in Commit
      BY <3>1 DEF Correction
    <3> QED BY <1>0, <1>1, <3>1, <3>2, <3>3, GateConstants DEF Commit
  <2> QED BY <1>4, <2>1, <2>2
<1>7. ASSUME NEW n \in DOMAIN new, \A i \in 1..n : Linked(new, i)
      PROVE  new[n].to = n
  <2>1. CASE n \in 1..Len(old)
    <3>1. \A i \in 1..n : i \in 1..Len(old) /\ (i # 1 => i - 1 \in 1..Len(old))
      BY <1>4, <2>1
    <3>2. \A i \in 1..n : Linked(old, i)
      BY <1>4, <1>7, <3>1 DEF Linked
    <3>3. old[n].to = n
      BY <1>4, <2>1, <3>2 DEF GateInv, Numbered, old
    <3> QED BY <1>4, <2>1, <3>3
  <2>2. CASE n = Len(old) + 1
    <3>1. new[n].to = new[n].from + 1
      BY <1>6
    <3>2. Linked(new, n)
      BY <1>4, <1>7, <2>2
    <3>3. CASE Len(old) = 0
      BY <2>2, <3>1, <3>2, <3>3 DEF Linked, Anchor
    <3>4. CASE Len(old) # 0
      <4>1. Len(old) \in 1..Len(old) /\ n # 1 /\ n - 1 = Len(old)
        BY <1>4, <2>2, <3>4
      <4>2. \A i \in 1..Len(old) : i \in 1..n /\ (i # 1 => i - 1 \in 1..Len(old))
        BY <1>4, <2>2
      <4>3. \A i \in 1..Len(old) : Linked(old, i)
        BY <1>4, <1>7, <4>2 DEF Linked
      <4>4. old[Len(old)].to = Len(old)
        BY <1>4, <4>1, <4>3 DEF GateInv, Numbered, old
      <4>5. new[n].from = Len(old)
        BY <1>4, <3>2, <4>1, <4>4 DEF Linked
      <4> QED BY <1>4, <2>2, <3>1, <4>5
    <3> QED BY <3>3, <3>4
  <2> QED BY <1>4, <2>1, <2>2
<1> QED BY <1>6, <1>7 DEF Recorded, Numbered, new

\* Correct counts the records of a failure before it adds one.
LEMMA BudgetStep ==
  ASSUME GateInv, NEW s \in Signature, Correct(s)
  PROVE  Budgeted'
<1> DEFINE old == entry.corrections
           record == [from |-> head, to |-> head + 1, signature |-> s]
           Of(t) == {i \in DOMAIN old : old[i].signature = t}
<1>0. head \in Commit /\ entry \in EntrySet /\ old \in Seq(Correction)
  BY TypeParts DEF GateInv, EntrySet
<1>1. head + 1 \in Commit
  <2>1. Push(s)
    BY DEF Correct
  <2> QED BY <2>1, PushStep DEF GateInv
<1>2. entry'.corrections = Append(old, record)
  <2>1. entry' = [entry EXCEPT !.corrections = Append(@, record)]
    BY DEF Correct
  <2> QED BY <1>0, <2>1 DEF EntrySet
<1>3. /\ Len(old) \in Nat /\ DOMAIN old = 1..Len(old) /\ DOMAIN Append(old, record) = 1..(Len(old) + 1)
      /\ Append(old, record)[Len(old) + 1].signature = s
      /\ \A i \in 1..Len(old) : Append(old, record)[i] = old[i]
  <2>1. record \in Correction
    BY <1>0, <1>1 DEF Correction
  <2> QED BY <1>0, <2>1
<1> SUFFICES ASSUME NEW t \in Signature PROVE Attempts(t)' <= CorrectionBudget
  BY DEF Budgeted
<1>4. Attempts(t) = Cardinality(Of(t))
  BY DEF Attempts
<1>5. IsFiniteSet(Of(t))
  <2>1. IsFiniteSet(1..Len(old))
    BY <1>3, FS_Interval
  <2> QED BY <1>3, <2>1, FS_Subset
<1>6. {i \in DOMAIN Append(old, record) : Append(old, record)[i].signature = t}
          = IF t = s THEN Of(t) \cup {Len(old) + 1} ELSE Of(t)
  <2> HIDE DEF record, old
  <2> QED BY <1>3
<1>7. Attempts(t)' = Cardinality(IF t = s THEN Of(t) \cup {Len(old) + 1} ELSE Of(t))
  BY <1>2, <1>6 DEF Attempts
<1>8. CASE t = s
  <2>1. Cardinality(Of(t)) < CorrectionBudget
    BY <1>4, <1>8 DEF Correct, CorrectionAllowed
  <2>2. Len(old) + 1 \notin Of(t)
    BY <1>3
  <2>3. Cardinality(Of(t) \cup {Len(old) + 1}) = Cardinality(Of(t)) + 1 /\ Cardinality(Of(t)) \in Nat
    BY <1>5, <2>2, FS_AddElement, FS_CardinalityType
  <2>4. CorrectionBudget \in Nat
    BY GateConstants DEF Most
  <2>5. Attempts(t)' = Cardinality(Of(t)) + 1
    BY <1>7, <1>8, <2>3
  <2> HIDE DEF Of
  <2> QED BY <2>1, <2>3, <2>4, <2>5
<1>9. CASE t # s
  BY <1>4, <1>7, <1>9 DEF GateInv, Budgeted
<1> QED BY <1>8, <1>9

\* Apply moves the clock with the evidence; nothing else moves either.
LEMMA TimedStep == ASSUME TypeOK, Timed, [Next]_vars PROVE Timed'
<1>0. /\ head \in Commit /\ clock \in 0..MaxApply /\ entry \in EntrySet
      /\ dispatch \in Dispatch /\ answer \in Review \cup {Idle}
  BY TypeParts
<1> DEFINE Same == clock' = clock /\ entry'.apply = entry.apply /\ entry'.reviews = entry.reviews
<1>1. CASE Apply
  <2>1. clock' = clock + 1 /\ entry' = [entry EXCEPT !.apply = [head |-> head, at |-> clock + 1]]
    BY <1>1 DEF Apply
  <2>2. entry'.apply.at = clock' /\ entry'.reviews = entry.reviews
    BY <1>0, <2>1 DEF EntrySet
  <2>3. UNCHANGED <<dispatch, answer>>
    BY <1>1 DEF Apply, dispatchVars
  <2>4. \A t \in 0..MaxApply : t <= clock => t <= clock'
    BY <1>0, <2>1, GateConstants
  <2>5. /\ \A r \in entry.reviews : r.stamp \in 0..MaxApply
        /\ answer # Idle => answer.stamp \in 0..MaxApply
        /\ dispatch # Idle => dispatch.started \in 0..MaxApply
    BY <1>0 DEF EntrySet, Review, Dispatch
  <2> QED BY <2>2, <2>3, <2>4, <2>5 DEF Timed
<1>2. CASE Same /\ UNCHANGED <<dispatch, answer>>
  BY <1>2 DEF Timed
<1>3. CASE Drift \/ RecordPr \/ \E s \in Signature : Correct(s) \/ RecordVerification(s)
  <2>1. Same
    BY <1>0, <1>3 DEF Drift, RecordPr, RecordVerification, Correct, Push, EntrySet
  <2>2. UNCHANGED <<dispatch, answer>>
    BY <1>3 DEF Drift, RecordPr, RecordVerification, Correct, Push, dispatchVars
  <2> QED BY <1>2, <2>1, <2>2
<1>4. CASE \/ Admit \/ AdmissionExpires \/ UNCHANGED vars
           \/ \E f \in Authorization : Lapse(f)
           \/ \E r \in entry.reviews, h \in Commit, derived, contract \in BOOLEAN :
                  AuthorizeMerge(r, h, derived, contract)
  <2>1. UNCHANGED <<clock, entry, dispatch, answer>>
    BY <1>4 DEF Admit, AdmissionExpires, Lapse, AuthorizeMerge, vars, dispatchVars
  <2> QED BY <1>2, <2>1
<1>5. CASE LaunchReview
  BY <1>0, <1>5 DEF LaunchReview, Timed, worldVars
<1>6. CASE ReviewerLost \/ Resume \/ InspectionFails
  <2>1. Same
    BY <1>0, <1>6 DEF ReviewerLost, Resume, InspectionFails, RecordUnavailable, EntrySet, worldVars
  <2>2. dispatch # Idle /\ dispatch.started \in 0..MaxApply
    BY <1>0, <1>6 DEF ReviewerLost, Resume, InspectionFails, Dispatch, Idle
  <2>3. dispatch' # Idle => dispatch'.started = dispatch.started \/ dispatch'.started = clock
    BY <1>0, <1>6, <2>2 DEF ReviewerLost, Resume, InspectionFails, Dispatch
  <2>4. answer' = answer
    BY <1>6 DEF ReviewerLost, Resume, InspectionFails
  <2> QED BY <1>0, <2>1, <2>2, <2>3, <2>4 DEF Timed
<1>7. CASE RecordReview
  <2>1. entry'.apply = entry.apply /\ entry'.reviews = entry.reviews \cup {answer} /\ clock' = clock
    BY <1>0, <1>7 DEF RecordReview, EntrySet, worldVars
  <2>2. answer # Idle /\ answer' = Idle /\ dispatch' = dispatch
    BY <1>7 DEF RecordReview
  <2> QED BY <2>1, <2>2 DEF Timed
<1>8. CASE SessionDies
  BY <1>8 DEF SessionDies, Timed, worldVars
<1>9. ASSUME NEW h \in Commit, NEW finding \in Signature \cup {"none"},
             StrictArtifact(h, finding) \/ DegradedResult(h, finding)
      PROVE  Timed'
  <2>1. dispatch # Idle
    BY <1>9 DEF StrictArtifact, DegradedResult, Idle
  <2>2. clock' = clock /\ entry' = entry /\ dispatch' = Idle
    BY <1>9 DEF StrictArtifact, DegradedResult, worldVars
  <2>3. answer' # Idle => answer'.stamp = dispatch.started
    BY <1>9 DEF StrictArtifact, DegradedResult
  <2> QED BY <2>1, <2>2, <2>3 DEF Timed
<1>10. ASSUME NEW finding \in Signature \cup {"none"}, DegradedElsewhere(finding) PROVE Timed'
  <2>1. answer'.stamp = clock /\ UNCHANGED <<clock, entry, dispatch>>
    BY <1>10 DEF DegradedElsewhere, worldVars
  <2> QED BY <1>0, <2>1 DEF Timed
<1>11. ASSUME NEW h \in Commit, NEW finding \in Signature \cup {"none"}, LegacyEvidence(h, finding)
       PROVE  Timed'
  <2>1. answer'.stamp = clock /\ UNCHANGED <<clock, entry, dispatch>>
    BY <1>11 DEF LegacyEvidence, worldVars
  <2> QED BY <1>0, <2>1 DEF Timed
<1> QED
  BY <1>1, <1>3, <1>4, <1>5, <1>6, <1>7, <1>8, <1>9, <1>10, <1>11 DEF Next, Step

\* The invariant holds in every behaviour.
LEMMA GateInvariant == Spec => []GateInv
<1>1. Init => GateInv
  <2> SUFFICES ASSUME Init PROVE GateInv
    OBVIOUS
  <2>1. 0 \in 0..MaxApply /\ 0 \in Commit /\ NoHead \in Commit \cup {NoHead}
    BY GateConstants DEF Commit
  <2>2. entry = [pr |-> Anchor, apply |-> [head |-> NoHead, at |-> 0], reviews |-> {},
                 unavailable |-> {}, failures |-> {}, corrections |-> <<>>] /\ clock = 0 /\ answer = Idle /\ dispatch = Idle
    BY DEF Init
  <2>3. entry \in EntrySet
    BY <2>1, <2>2 DEF EntrySet, Anchor
  <2>4. pushed \in [Commit -> Signature \cup {"none", "drift"}] /\ head \in Commit
    BY <2>1 DEF Init, Anchor
  <2>5. TypeOK
    BY <2>1, <2>2, <2>3, <2>4, TypeParts DEF Init, Dispatch
  <2>6. Timed
    BY <2>2 DEF Timed
  <2>7. Recorded /\ Numbered
    BY <2>2 DEF Recorded, Numbered
  <2>8. Budgeted
    <3> SUFFICES ASSUME NEW s \in Signature PROVE Attempts(s) <= CorrectionBudget
      BY DEF Budgeted
    <3>1. {i \in DOMAIN entry.corrections : entry.corrections[i].signature = s} = {}
      BY <2>2
    <3>2. Attempts(s) = 0
      BY <3>1, FS_EmptySet DEF Attempts
    <3> QED BY <3>2, GateConstants DEF Most
  <2> QED BY <2>5, <2>6, <2>7, <2>8 DEF GateInv
<1>2. GateInv /\ [Next]_vars => GateInv'
  <2> SUFFICES ASSUME GateInv, [Next]_vars PROVE GateInv'
    OBVIOUS
  <2>1. TypeOK' /\ Timed'
    BY TypeStep, TimedStep DEF GateInv
  <2>2. ASSUME NEW s \in Signature, Correct(s) PROVE Recorded' /\ Numbered' /\ Budgeted'
    BY <2>2, CorrectStep, BudgetStep
  <2>3. CASE UNCHANGED vars
    <3>1. UNCHANGED <<head, pushed, entry>>
      BY <2>3 DEF vars
    <3>2. Recorded'
      BY <3>1 DEF GateInv, Recorded
    <3>3. Numbered'
      BY <3>1 DEF GateInv, Numbered
    <3>4. Budgeted'
      BY <3>1 DEF GateInv, Budgeted, Attempts
    <3> QED BY <2>1, <3>2, <3>3, <3>4 DEF GateInv
  <2>4. CASE Next /\ ~ \E s \in Signature : Correct(s)
    <3>1. /\ entry'.corrections = entry.corrections
          /\ head' >= head /\ \A h \in Commit : h <= head => pushed'[h] = pushed[h]
      BY <2>4, ChainStep DEF GateInv
    <3>2. Numbered'
      BY <3>1 DEF GateInv, Numbered
    <3>3. head \in Commit /\ head' \in Commit /\ entry.corrections \in Seq(Correction)
      BY <2>1, TypeParts DEF GateInv, EntrySet, TypeOK
    <3>4. \A i \in DOMAIN entry.corrections : entry.corrections[i] \in Correction
      BY <3>3
    <3>5. \A i \in DOMAIN entry.corrections : entry.corrections[i].to \in Commit
      BY <3>4 DEF Correction
    <3>6. ASSUME NEW i \in DOMAIN entry.corrections
          PROVE  LET record == entry'.corrections[i]
                 IN  /\ record.to = record.from + 1 /\ record.to <= head'
                     /\ pushed'[record.to] = record.signature
      <4>1. LET record == entry.corrections[i]
            IN  /\ record.to = record.from + 1 /\ record.to <= head
                /\ pushed[record.to] = record.signature
        BY DEF GateInv, Recorded
      <4> QED BY <3>1, <3>3, <3>5, <4>1, GateConstants DEF Commit
    <3>7. Recorded'
      BY <3>1, <3>6 DEF Recorded
    <3>8. Budgeted'
      BY <3>1 DEF GateInv, Budgeted, Attempts
    <3> QED BY <2>1, <3>2, <3>7, <3>8 DEF GateInv
  <2> QED BY <2>1, <2>2, <2>3, <2>4 DEF GateInv
<1> QED BY <1>1, <1>2, PTL DEF Spec

\* A valid chain that ends at a head has one record of every push up to it.
LEMMA ChainCovers ==
  ASSUME GateInv, NEW h \in Commit, entry.corrections # <<>>,
         ChainValid(entry.corrections, Anchor), entry.corrections[Len(entry.corrections)].to = h
  PROVE  /\ DOMAIN entry.corrections = 1..h
         /\ \A i \in 1..h : pushed[i] = entry.corrections[i].signature /\ pushed[i] \in Signature
<1> DEFINE records == entry.corrections
<1>1. records \in Seq(Correction)
  BY TypeParts DEF GateInv, EntrySet
<1>2. Len(records) \in Nat /\ DOMAIN records = 1..Len(records) /\ Len(records) \in 1..Len(records)
  BY <1>1
<1>3. \A i \in DOMAIN records : Linked(records, i)
  BY DEF ChainValid, Linked
<1>4. \A n \in DOMAIN records : records[n].to = n
  <2> SUFFICES ASSUME NEW n \in DOMAIN records PROVE records[n].to = n
    OBVIOUS
  <2>1. 1..n \subseteq DOMAIN records
    BY <1>2
  <2> QED BY <1>3, <2>1 DEF GateInv, Numbered
<1>5. Len(records) = h
  BY <1>2, <1>4
<1>6. \A i \in DOMAIN records : records[i] \in Correction
  BY <1>1
<1>7. \A i \in DOMAIN records : records[i].signature \in Signature
  BY <1>6 DEF Correction
<1> QED BY <1>2, <1>4, <1>5, <1>7 DEF GateInv, Recorded

\* A permitted merge is of the head of the latest Apply, which a reviewer
\* passed: launched since that Apply, or, on legacy evidence, only dated since;
\* if the review was degraded, every push since the authorized head was a
\* correction within the budget of its failure (checkOperationAuthorization
\* and the validators that it calls).
THEOREM MergePermittedSoundlyCorrect == Spec => MergePermittedSoundly
<1> DEFINE Permitted == permit' # permit =>
        LET review == permit'.review
            corrected(s) == {h \in 1..permit'.head : pushed[h] = s}
        IN  /\ review.finding = "none"
            /\ review.head = permit'.head /\ entry.apply.head = permit'.head
            /\ review.stamp = clock
            /\ review.level = "degraded" =>
                   /\ corrected("drift") = {}
                   /\ \A s \in Signature : Cardinality(corrected(s)) <= CorrectionBudget
<1>1. GateInv /\ [Next]_vars => [Permitted]_vars
  <2> SUFFICES ASSUME GateInv, Next, permit' # permit PROVE Permitted
    BY DEF vars
  <2>1. PICK r \in entry.reviews, h \in Commit, derived \in BOOLEAN, contract \in BOOLEAN :
            AuthorizeMerge(r, h, derived, contract)
    <3>1. ~(Admit \/ AdmissionExpires \/ Apply \/ Drift \/ RecordPr)
      BY DEF Admit, AdmissionExpires, Apply, Drift, RecordPr, Push
    <3>2. /\ ~ \E s \in Signature : Correct(s) \/ RecordVerification(s)
          /\ ~ \E f \in Authorization : Lapse(f)
      BY DEF Correct, RecordVerification, Push, Lapse
    <3>3. ~(LaunchReview \/ ReviewerLost \/ Resume \/ InspectionFails \/ RecordReview \/ SessionDies)
      BY DEF LaunchReview, ReviewerLost, Resume, InspectionFails, RecordReview, SessionDies, worldVars
    <3>4. ~ \E h \in Commit, finding \in Signature \cup {"none"} :
                StrictArtifact(h, finding) \/ DegradedResult(h, finding) \/ LegacyEvidence(h, finding)
      BY DEF StrictArtifact, DegradedResult, LegacyEvidence, worldVars
    <3>5. ~ \E finding \in Signature \cup {"none"} : DegradedElsewhere(finding)
      BY DEF DegradedElsewhere, worldVars
    <3> QED BY <3>1, <3>2, <3>3, <3>4, <3>5 DEF Next, Step
  <2>2. /\ IF r.level = "legacy" THEN EvidenceHolds(r, h) ELSE ReviewHolds(r, h)
        /\ permit' = [head |-> h, review |-> r]
    BY <2>1 DEF AuthorizeMerge
  <2>3. entry \in EntrySet /\ clock \in 0..MaxApply /\ r \in Review
    BY TypeParts DEF GateInv, EntrySet
  <2>4. r.finding = "none" /\ r.head = h /\ r.stamp >= entry.apply.at /\ entry.apply.head = h
    BY <2>2 DEF ReviewHolds, EvidenceHolds, ApplyDurable, Passed
  <2>5. r.stamp = clock
    <3>1. r.stamp <= clock /\ entry.apply.at = clock /\ r.stamp \in 0..MaxApply
      BY <2>3 DEF GateInv, Timed, Review
    <3> QED BY <2>3, <2>4, <3>1
  <2> DEFINE corrected(s) == {n \in 1..h : pushed[n] = s}
  <2>6. ASSUME r.level = "degraded"
        PROVE  /\ corrected("drift") = {}
               /\ \A s \in Signature : Cardinality(corrected(s)) <= CorrectionBudget
    <3>1. DegradedAuthorized(h, entry.corrections)
      BY <2>2, <2>6 DEF ReviewHolds
    <3>2. CASE h = Anchor
      <4>1. \A s : corrected(s) = {}
        BY <3>2 DEF Anchor
      <4>2. Cardinality({}) = 0
        BY FS_EmptySet
      <4> QED BY <4>1, <4>2, GateConstants DEF Most
    <3>3. CASE h # Anchor
      <4>1. /\ entry.corrections # <<>> /\ ChainValid(entry.corrections, Anchor)
            /\ entry.corrections[Len(entry.corrections)].to = h
        BY <3>1, <3>3 DEF DegradedAuthorized
      <4>2. /\ DOMAIN entry.corrections = 1..h
            /\ \A i \in 1..h : pushed[i] = entry.corrections[i].signature /\ pushed[i] \in Signature
        BY <4>1, ChainCovers
      <4>3. corrected("drift") = {}
        BY <4>2, GateConstants
      <4>4. ASSUME NEW s \in Signature PROVE Cardinality(corrected(s)) <= CorrectionBudget
        <5>1. corrected(s) = {i \in DOMAIN entry.corrections : entry.corrections[i].signature = s}
          BY <4>2
        <5>2. Attempts(s) <= CorrectionBudget
          BY DEF GateInv, Budgeted
        <5> QED BY <5>1, <5>2 DEF Attempts
      <4> QED BY <4>3, <4>4
    <3> QED BY <3>2, <3>3
  <2> QED BY <2>2, <2>4, <2>5, <2>6
<1> QED BY <1>1, GateInvariant, PTL DEF Spec, MergePermittedSoundly

================================================================================
