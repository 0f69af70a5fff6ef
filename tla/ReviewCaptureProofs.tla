--------------------------- MODULE ReviewCaptureProofs ---------------------------
(***************************************************************************)
(* Proofs about ReviewCapture, for every set of capture processes and      *)
(* every number of replacements.  Versions only grow, so a file that is    *)
(* still the pinned one when the parent judges was the pinned one whenever *)
(* a capture executed it; and a capture whose receipt can be read runs     *)
(* nothing any more.                                                       *)
(***************************************************************************)
EXTENDS ReviewCapture, SequenceTheorems, TLAPS

Preparing == parent \in {"idle", "pinned", "viewed"}
Retrying == {<<>>, <<"retryable">>}
Complete == {<<"complete">>, <<"retryable", "complete">>}

Shape ==
    /\ installed \in [File -> Version] /\ pinned \in [File -> Version \cup {Unpinned}]
    /\ DOMAIN pc = Capture /\ DOMAIN ran = Capture /\ DOMAIN attempts = Capture
    /\ seen.receipt = NoReceipt \/ seen.receipt.by \in Capture
    /\ receipt = NoReceipt \/ receipt.by \in Capture
    /\ \A c \in Capture : ran[c] \subseteq File \X Version

\* Until the request is sealed nothing ran and nothing was returned.
NothingRan ==
    Preparing => /\ accepted = {}
                 /\ \A c \in Capture : pc[c] = "idle" /\ ran[c] = {}

\* What was pinned is not newer than what a capture ran, and that is not newer
\* than what is installed.
Between ==
    /\ \A f \in File : pinned[f] # Unpinned => pinned[f] <= installed[f]
    /\ \A c \in Capture : \A x \in ran[c] :
           x[2] <= installed[x[1]] /\ (pinned[x[1]] # Unpinned => pinned[x[1]] <= x[2])

\* How a capture came to where it is.
Attempted ==
    \A c \in Capture :
        /\ pc[c] \in {"idle", "started"} => attempts[c] = <<>>
        /\ pc[c] \in {"checked", "child"} => attempts[c] \in Retrying
        /\ pc[c] \in {"publishing", "receipting"} => attempts[c] \in Complete

\* A capture that is over with a complete attempt.
Done(c) == /\ c \in Capture /\ attempts[c] \in Complete
           /\ pc[c] \in {"failing"} \cup Finished
Pure(c) == \A x \in ran[c] : x[2] = pinned[x[1]]

\* What the parent knows of the author of the receipt.
Vouched ==
    /\ receipt.says = "published" => Done(receipt.by)
    /\ seen.receipt.says = "published" => Done(seen.receipt.by)
    /\ parent = "inspecting" => seen.receipt.says = "published" /\ Pure(seen.receipt.by)
    /\ candidate # Nobody => Done(candidate) /\ Pure(candidate)

Accepted ==
    \A c \in accepted : Done(c) /\ Pure(c) /\ view = "removed" /\ accepted = {c}

SoundInv == Shape /\ NothingRan /\ Between /\ Attempted /\ Vouched /\ Accepted

\* Why EvidenceInPlace is preserved: between the two files of a capture the
\* first one is its own.
ReceiptsOwn ==
    view = "present" => \A c \in Capture : pc[c] = "receipting" => result = c
PlaceInv ==
    /\ DOMAIN pc = Capture
    /\ parent \in {"idle", "pinned"} => \A c \in Capture : pc[c] = "idle"
    /\ ReceiptsOwn /\ EvidenceInPlace

USE CaptureAssumption, VersionAssumption

-----------------------------------------------------------------------------
\* A further attempt, recorded.
LEMMA AttemptAdded ==
  ASSUME NEW s \in Retrying
  PROVE  /\ s = <<>> => Append(s, "retryable") \in Retrying
         /\ Append(s, "complete") \in Complete
<1>1. Append(<<>>, "retryable") = <<"retryable">> /\ Append(<<>>, "complete") = <<"complete">>
  OBVIOUS
<1>2. Append(<<"retryable">>, "complete") = <<"retryable", "complete">>
  <2> DEFINE longer == Append(<<"retryable">>, "complete")
             pair == <<"retryable", "complete">>
  <2>1. <<"retryable">> \in Seq(Outcome) /\ Len(<<"retryable">>) = 1 /\ <<"retryable">>[1] = "retryable"
    BY DEF Outcome
  <2>4. pair \in Seq(Outcome)
    BY DEF Outcome
  <2>2. longer \in Seq(Outcome) /\ Len(longer) = 2 /\ longer[1] = "retryable" /\ longer[2] = "complete"
    BY <2>1, AppendProperties DEF Outcome
  <2>3. Len(pair) = 2 /\ pair[1] = "retryable" /\ pair[2] = "complete"
    OBVIOUS
  <2> HIDE DEF longer, pair
  <2>5. Len(longer) = Len(pair) /\ \A i \in 1..Len(longer) : longer[i] = pair[i]
    BY <2>2, <2>3
  <2>6. longer = pair
    BY <2>2, <2>4, <2>5, SeqEqual
  <2> QED BY <2>6 DEF longer, pair
<1> QED BY <1>1, <1>2 DEF Retrying, Complete

\* A capture that is done runs nothing and attempts nothing.
LEMMA DoneStays ==
  ASSUME Shape, Next, NEW c, Done(c)
  PROVE  Done(c)' /\ ran'[c] = ran[c]
<1>1. c \in Capture /\ pc[c] \in {"failing", "succeeded", "failed", "killed"}
  BY DEF Done, Finished
<1>2. CASE UNCHANGED captureVars
  BY <1>1, <1>2 DEF Done, captureVars
<1>3. ASSUME NEW d \in Capture, d = c,
             Launch(d) \/ Check(d) \/ Spawn(d) \/ (\E o \in Outcome : ChildEnds(d, o))
             \/ PublishResult(d) \/ ResultFails(d) \/ PublishReceipt(d) \/ ReceiptFails(d)
      PROVE  FALSE
  BY <1>1, <1>3 DEF Launch, Check, Spawn, ChildEnds, PublishResult, ResultFails, PublishReceipt, ReceiptFails
<1>4. ASSUME NEW d \in Capture, d # c, Launch(d) \/ Check(d) \/ Spawn(d) \/ (\E o \in Outcome : ChildEnds(d, o))
      PROVE  Done(c)' /\ ran'[c] = ran[c]
  BY <1>1, <1>4 DEF Launch, Check, Spawn, ChildEnds, Go, NoteAttempt, Done, Finished, Shape
<1>5. ASSUME NEW d \in Capture, d # c,
             PublishResult(d) \/ ResultFails(d) \/ PublishReceipt(d) \/ ReceiptFails(d)
      PROVE  Done(c)' /\ ran'[c] = ran[c]
  BY <1>1, <1>5 DEF PublishResult, ResultFails, PublishReceipt, ReceiptFails, Go, Done, Finished, Shape
<1>6. ASSUME NEW d \in Capture, PublishFailure(d) \/ Kill(d)
      PROVE  Done(c)' /\ ran'[c] = ran[c]
  BY <1>1, <1>6 DEF PublishFailure, Kill, Go, Done, Finished, Shape
<1>7. CASE StrictRequest \/ DegradedRequest \/ Consume \/ Die \/ Expire \/ \E f \in File : Replace(f)
  <2>1. UNCHANGED captureVars
    BY <1>7 DEF StrictRequest, DegradedRequest, PinExecutable, CreateView, SealRequest, PreparationFails,
       Consume, ReadReceipt, Judge, Inspect, Cleanup, Die, Expire, Replace
  <2> QED BY <1>2, <2>1
<1> QED BY <1>1, <1>3, <1>4, <1>5, <1>6, <1>7 DEF Next, Work

-----------------------------------------------------------------------------
\* What a step may change.
LEMMA ShapeStep == ASSUME SoundInv, Next PROVE Shape'
<1> USE DEF SoundInv, Shape
<1>1. CASE StrictRequest \/ DegradedRequest
  BY <1>1 DEF StrictRequest, DegradedRequest, PinExecutable, CreateView, SealRequest, PinHostFiles,
     PreparationFails, RemoveView, RemovalFails, captureVars, hostVars, fileVars, File
<1>2. ASSUME NEW c \in Capture, Launch(c) \/ Check(c) \/ Spawn(c) \/ Kill(c) PROVE Shape'
  BY <1>2 DEF Launch, Check, Spawn, Kill, Go, NoteAttempt, parentVars, fileVars, hostVars, File, NothingRan
<1>3. ASSUME NEW c \in Capture, NEW o \in Outcome, ChildEnds(c, o) PROVE Shape'
  BY <1>3 DEF ChildEnds, Go, NoteAttempt, parentVars, fileVars, hostVars
<1>4. ASSUME NEW c \in Capture, PublishResult(c) \/ ResultFails(c) \/ PublishReceipt(c) \/ ReceiptFails(c) \/ PublishFailure(c)
      PROVE  Shape'
  BY <1>4 DEF PublishResult, ResultFails, PublishReceipt, ReceiptFails, PublishFailure, Vouch, Go, parentVars, hostVars
<1>5. CASE Consume \/ Die \/ Expire
  BY <1>5 DEF Consume, ReadReceipt, Judge, Inspect, Cleanup, RemoveView, RemovalFails, Die, Expire, NothingSeen,
     captureVars, hostVars, fileVars, parentVars
<1>6. ASSUME NEW f \in File, Replace(f) PROVE Shape'
  <2>1. installed["codex"] \in Version /\ installed["host"] \in Version
    BY DEF File
  <2>2. installed[f] + 1 \in Version
    BY <1>6, <2>1 DEF Replace, Version, File
  <2> QED BY <1>6, <2>2 DEF Replace, captureVars, fileVars, parentVars
<1> QED BY <1>1, <1>2, <1>3, <1>4, <1>5, <1>6 DEF Next, Work

\* The request is sealed before anything runs and before anything is returned.
LEMMA NothingRanStep == ASSUME SoundInv, Next PROVE NothingRan'
<1> USE DEF SoundInv, NothingRan, Preparing
<1>1. CASE StrictRequest \/ DegradedRequest
  BY <1>1 DEF StrictRequest, DegradedRequest, PinExecutable, CreateView, SealRequest, WriteRequest, PreparationFails, captureVars
<1>2. ASSUME NEW c \in Capture, Launch(c) \/ Kill(c) PROVE NothingRan'
  BY <1>2 DEF Launch, Kill, parentVars
<1>3. ASSUME NEW c \in Capture, Work(c) PROVE NothingRan'
  BY <1>3 DEF Work, Check, Spawn, ChildEnds, PublishResult, ResultFails, PublishReceipt, ReceiptFails, PublishFailure, parentVars
<1>4. CASE Consume \/ Die \/ Expire \/ \E f \in File : Replace(f)
  BY <1>4 DEF Consume, ReadReceipt, Judge, Inspect, Cleanup, Die, Expire, Replace, captureVars, parentVars
<1> QED BY <1>1, <1>2, <1>3, <1>4 DEF Next

\* What is executed is what is installed.
LEMMA BetweenStep == ASSUME SoundInv, Next PROVE Between'
<1> DEFINE Fixed == UNCHANGED <<pinned, installed>>
<1>0. /\ \A f \in File : installed[f] \in Nat /\ (pinned[f] # Unpinned => pinned[f] \in Nat)
      /\ \A c \in Capture : \A x \in ran[c] : x[1] \in File /\ x[2] \in Nat
  BY DEF SoundInv, Shape, Version
<1>1. CASE Fixed /\ UNCHANGED ran
  BY <1>1 DEF SoundInv, Between
<1>2. CASE StrictRequest \/ DegradedRequest
  <2>1. parent \in {"idle", "pinned", "viewed"} /\ UNCHANGED <<installed, ran>>
    BY <1>2 DEF StrictRequest, DegradedRequest, PinExecutable, CreateView, SealRequest, WriteRequest,
       PreparationFails, captureVars, hostVars
  <2>2. \A c \in Capture : ran'[c] = {}
    BY <2>1 DEF SoundInv, NothingRan, Preparing
  <2>3. \A f \in File : pinned'[f] = pinned[f] \/ pinned'[f] = installed[f]
    BY <1>2 DEF StrictRequest, DegradedRequest, PinExecutable, CreateView, SealRequest, PinHostFiles,
       PreparationFails, SoundInv, Shape
  <2> QED BY <1>0, <2>1, <2>2, <2>3 DEF SoundInv, Between
<1>3. ASSUME NEW c \in Capture, Launch(c) \/ Spawn(c) PROVE Between'
  <2>1. Fixed
    BY <1>3 DEF Launch, Spawn, parentVars, hostVars
  <2>2. \A d \in Capture : \A x \in ran'[d] : x \in ran[d] \/ \E f \in File : x = <<f, installed[f]>>
    BY <1>3 DEF Launch, Spawn, File, SoundInv, Shape
  <2>3. \A f \in File : installed[f] <= installed[f] /\ (pinned[f] # Unpinned => pinned[f] <= installed[f])
    BY <1>0 DEF SoundInv, Between
  <2>4. ASSUME NEW d \in Capture, NEW x \in ran'[d]
        PROVE  x[2] <= installed'[x[1]] /\ (pinned'[x[1]] # Unpinned => pinned'[x[1]] <= x[2])
    <3>1. CASE x \in ran[d]
      BY <2>1, <3>1 DEF SoundInv, Between
    <3>2. ASSUME NEW f \in File, x = <<f, installed[f]>>
          PROVE  x[2] <= installed'[x[1]] /\ (pinned'[x[1]] # Unpinned => pinned'[x[1]] <= x[2])
      BY <2>1, <2>3, <3>2
    <3> QED BY <2>2, <3>1, <3>2
  <2> QED BY <2>1, <2>3, <2>4 DEF Between
<1>4. ASSUME NEW c \in Capture,
             Check(c) \/ Kill(c) \/ (\E o \in Outcome : ChildEnds(c, o)) \/ PublishResult(c) \/ ResultFails(c)
             \/ PublishReceipt(c) \/ ReceiptFails(c) \/ PublishFailure(c)
      PROVE  Between'
  <2>1. Fixed /\ UNCHANGED ran
    BY <1>4 DEF Check, Kill, ChildEnds, PublishResult, ResultFails, PublishReceipt, ReceiptFails, PublishFailure,
       parentVars, hostVars
  <2> QED BY <1>1, <2>1
<1>5. CASE Consume \/ Die \/ Expire
  <2>1. Fixed /\ UNCHANGED ran
    BY <1>5 DEF Consume, ReadReceipt, Judge, Inspect, Cleanup, Die, Expire, captureVars, hostVars, parentVars
  <2> QED BY <1>1, <2>1
<1>6. ASSUME NEW f \in File, Replace(f) PROVE Between'
  <2>1. UNCHANGED <<pinned, ran>>
    BY <1>6 DEF Replace, captureVars, parentVars
  <2>2. \A g \in File : installed'[g] \in Nat /\ installed[g] <= installed'[g]
    BY <1>0, <1>6 DEF Replace, SoundInv, Shape
  <2>3. \A g \in File : pinned[g] # Unpinned => pinned[g] <= installed'[g]
    BY <1>0, <2>2 DEF SoundInv, Between
  <2>4. ASSUME NEW d \in Capture, NEW x \in ran[d] PROVE x[2] <= installed'[x[1]]
    <3>1. x[1] \in File /\ x[2] \in Nat /\ x[2] <= installed[x[1]]
      BY <1>0 DEF SoundInv, Between
    <3> QED BY <1>0, <2>2, <3>1
  <2> QED BY <2>1, <2>3, <2>4 DEF SoundInv, Between
<1> QED BY <1>2, <1>3, <1>4, <1>5, <1>6 DEF Next, Work

\* An attempt is recorded where it ends.
LEMMA AttemptedStep == ASSUME SoundInv, Next PROVE Attempted'
<1> USE DEF SoundInv, Shape
<1>1. CASE UNCHANGED captureVars
  BY <1>1 DEF Attempted, captureVars
<1>2. CASE StrictRequest \/ DegradedRequest \/ Consume \/ Die \/ Expire \/ \E f \in File : Replace(f)
  <2>1. UNCHANGED captureVars
    BY <1>2 DEF StrictRequest, DegradedRequest, PinExecutable, CreateView, SealRequest, PreparationFails,
       Consume, ReadReceipt, Judge, Inspect, Cleanup, Die, Expire, Replace
  <2> QED BY <1>1, <2>1
<1>3. ASSUME NEW c \in Capture,
             Launch(c) \/ Check(c) \/ PublishResult(c) \/ ResultFails(c) \/ PublishReceipt(c) \/ ReceiptFails(c)
             \/ PublishFailure(c) \/ Kill(c)
      PROVE  Attempted'
  BY <1>3 DEF Launch, Check, PublishResult, ResultFails, PublishReceipt, ReceiptFails, PublishFailure, Kill,
     Go, Attempted, Retrying
<1>4. ASSUME NEW c \in Capture, Spawn(c) PROVE Attempted'
  BY <1>4 DEF Spawn, Go, NoteAttempt, Attempted
<1>5. ASSUME NEW c \in Capture, NEW o \in Outcome, ChildEnds(c, o) PROVE Attempted'
  <2>1. attempts[c] \in Retrying /\ attempts'[c] = Append(attempts[c], o)
    BY <1>5 DEF ChildEnds, NoteAttempt, Attempted
  <2>2. \A d \in Capture \ {c} : attempts'[d] = attempts[d] /\ pc'[d] = pc[d]
    BY <1>5 DEF ChildEnds, NoteAttempt, Go
  <2>3. CASE o = "complete"
    <3>1. pc'[c] = "publishing" /\ attempts'[c] \in Complete
      BY <1>5, <2>1, <2>3, AttemptAdded DEF ChildEnds, Go
    <3> QED BY <2>2, <3>1 DEF Attempted
  <2>4. CASE o # "complete" /\ Repeats(c, o)
    <3>1. pc'[c] = "checked" /\ attempts'[c] \in Retrying
      BY <1>5, <2>1, <2>4, AttemptAdded DEF ChildEnds, Go, Repeats
    <3> QED BY <2>2, <3>1 DEF Attempted
  <2>5. CASE o # "complete" /\ ~Repeats(c, o)
    <3>1. pc'[c] = "failing"
      BY <1>5, <2>5 DEF ChildEnds, Go
    <3> QED BY <2>2, <3>1 DEF Attempted
  <2> QED BY <2>3, <2>4, <2>5
<1> QED BY <1>2, <1>3, <1>4, <1>5 DEF Next, Work

\* While nothing is pinned anew, a capture that is done ran what it ran.
LEMMA PureStays ==
  ASSUME Shape, Next, ~Preparing, NEW c, Done(c), Pure(c)
  PROVE  Done(c)' /\ Pure(c)'
<1>1. pinned' = pinned
  BY DEF Preparing, Next, StrictRequest, DegradedRequest, PinExecutable, CreateView, SealRequest, WriteRequest,
     PreparationFails, Launch, Work, Check, Spawn, ChildEnds, PublishResult, ResultFails, PublishReceipt,
     ReceiptFails, PublishFailure, Kill, Consume, ReadReceipt, Judge, Inspect, Cleanup, Die, Expire, Replace,
     parentVars
<1>2. Done(c)' /\ ran'[c] = ran[c]
  BY DoneStays
<1> QED BY <1>1, <1>2 DEF Pure

\* A capture that is done is not one that still prepares.
LEMMA DoneAfterSealing == ASSUME SoundInv, NEW c, Done(c) PROVE ~Preparing
BY DEF SoundInv, NothingRan, Done, Finished

\* A receipt that says so was published by a capture with a complete attempt.
LEMMA ReceiptStep ==
  ASSUME SoundInv, Next
  PROVE  /\ receipt'.says = "published" => Done(receipt.by)'
         /\ seen'.receipt.says = "published" => Done(seen.receipt.by)'
<1>0. /\ receipt.says = "published" => Done(receipt.by)
      /\ seen.receipt.says = "published" => Done(seen.receipt.by)
  BY DEF SoundInv, Vouched
<1>1. \A c : Done(c) => Done(c)'
  BY DoneStays DEF SoundInv
<1>2. receipt'.says = "published" => Done(receipt.by)'
  <2>1. CASE receipt' = receipt \/ receipt' = NoReceipt
    BY <1>0, <1>1, <2>1 DEF NoReceipt, Done
  <2>2. ASSUME NEW c \in Capture, PublishReceipt(c) \/ ReceiptFails(c), receipt' = Vouch(c, "published")
        PROVE  Done(receipt.by)'
    <3>1. pc[c] = "receipting" /\ pc'[c] \in {"succeeded", "failing"} /\ attempts' = attempts
      BY <2>2 DEF PublishReceipt, ReceiptFails, Go, SoundInv, Shape
    <3>2. attempts[c] \in Complete
      BY <3>1 DEF SoundInv, Attempted
    <3>3. receipt'.by = c
      BY <2>2 DEF Vouch
    <3> QED BY <3>1, <3>2, <3>3 DEF Done, Finished
  <2>3. ASSUME NEW c \in Capture, PublishReceipt(c) \/ ReceiptFails(c)
        PROVE  receipt' = receipt \/ receipt' = Vouch(c, "published")
    BY <2>3 DEF PublishReceipt, ReceiptFails
  <2>4. ASSUME NEW c \in Capture, PublishFailure(c) PROVE receipt' = receipt \/ receipt'.says = "absent"
    BY <2>4 DEF PublishFailure, Vouch
  <2>5. ASSUME NEW c \in Capture,
               Launch(c) \/ Check(c) \/ Spawn(c) \/ (\E o \in Outcome : ChildEnds(c, o)) \/ PublishResult(c)
               \/ ResultFails(c) \/ Kill(c)
        PROVE  receipt' = receipt
    BY <2>5 DEF Launch, Check, Spawn, ChildEnds, PublishResult, ResultFails, Kill, fileVars
  <2>6. CASE StrictRequest \/ DegradedRequest \/ Consume \/ Die \/ Expire \/ \E f \in File : Replace(f)
    <3>1. receipt' = receipt \/ receipt' = NoReceipt
      BY <2>6 DEF StrictRequest, DegradedRequest, PinExecutable, CreateView, SealRequest, PreparationFails, RemoveView,
         RemovalFails, Consume, ReadReceipt, Judge, Inspect, Cleanup, Die, Expire, Replace, fileVars
    <3> QED BY <2>1, <3>1
  <2> QED BY <2>1, <2>2, <2>3, <2>4, <2>5, <2>6 DEF Next, Work
<1>3. seen' = seen \/ seen' = NothingSeen \/ (seen'.receipt = receipt /\ receipt' = receipt)
  BY DEF Next, StrictRequest, DegradedRequest, PinExecutable, CreateView, SealRequest,
     PreparationFails, Launch, Work, Check, Spawn, ChildEnds, PublishResult, ResultFails, PublishReceipt,
     ReceiptFails, PublishFailure, Kill, Consume, ReadReceipt, Judge, Inspect, Cleanup, Die, Expire, Replace,
     parentVars, fileVars
<1>4. seen'.receipt.says = "published" => Done(seen.receipt.by)'
  <2>1. CASE seen' = seen
    BY <1>0, <1>1, <2>1 DEF Done
  <2>2. CASE seen' = NothingSeen
    BY <2>2 DEF NothingSeen, NoReceipt, Done
  <2>3. CASE seen'.receipt = receipt /\ receipt' = receipt
    BY <1>0, <1>1, <2>3 DEF Done
  <2> QED BY <1>3, <2>1, <2>2, <2>3
<1> QED BY <1>2, <1>4

\* The parent goes on only with an author that ran the pinned files.
LEMMA VouchedStep == ASSUME SoundInv, Next PROVE Vouched'
<1>0. /\ seen.receipt.says = "published" => Done(seen.receipt.by)
      /\ parent = "inspecting" => seen.receipt.says = "published" /\ Pure(seen.receipt.by)
      /\ candidate # Nobody => Done(candidate) /\ Pure(candidate)
  BY DEF SoundInv, Vouched
<1>1. \A c : Done(c) /\ Pure(c) => Done(c)' /\ Pure(c)'
  BY PureStays, DoneAfterSealing DEF SoundInv
<1>2. parent' = "inspecting" => seen'.receipt.says = "published" /\ Pure(seen.receipt.by)'
  <2>1. CASE Judge
    <3> SUFFICES ASSUME parent' = "inspecting"
                 PROVE  seen'.receipt.says = "published" /\ Pure(seen.receipt.by)'
      OBVIOUS
    <3>1. seen.receipt.says = "published" /\ installed = pinned /\ UNCHANGED <<seen, pinned, ran>>
      BY <2>1 DEF Judge, PinnedFilesUnchanged, captureVars
    <3>2. seen.receipt.by \in Capture
      BY <1>0, <3>1 DEF Done
    <3>3. ASSUME NEW x \in ran[seen.receipt.by] PROVE x[2] = pinned[x[1]]
      <4>1. x[1] \in File /\ x[2] \in Nat
        BY <3>2 DEF SoundInv, Shape, Version
      <4>2. pinned[x[1]] \in Nat /\ pinned[x[1]] # Unpinned
        BY <3>1, <4>1 DEF SoundInv, Shape, Version
      <4>3. x[2] <= pinned[x[1]] /\ pinned[x[1]] <= x[2]
        BY <3>1, <3>2, <4>1, <4>2 DEF SoundInv, Between
      <4> QED BY <4>1, <4>2, <4>3
    <3> QED BY <3>1, <3>3 DEF Pure
  <2>2. CASE parent' = parent /\ seen' = seen
    BY <1>0, <1>1, <2>2 DEF Done, Pure
  <2>3. ~Judge => (parent' = parent /\ seen' = seen) \/ parent' # "inspecting"
    BY DEF Next, StrictRequest, DegradedRequest, PinExecutable, CreateView, SealRequest, WriteRequest,
       PreparationFails, Launch, Work, Check, Spawn, ChildEnds, PublishResult, ResultFails, PublishReceipt,
       ReceiptFails, PublishFailure, Kill, Consume, ReadReceipt, Inspect, Cleanup, Die, Expire, Replace, parentVars
  <2> QED BY <2>1, <2>2, <2>3
<1>3. candidate' # Nobody => Done(candidate)' /\ Pure(candidate)'
  <2>1. CASE Inspect
    <3>1. Done(seen.receipt.by) /\ Pure(seen.receipt.by)
      BY <1>0, <2>1 DEF Inspect
    <3>2. candidate' # Nobody => candidate' = seen.receipt.by
      BY <2>1 DEF Inspect, Sealed
    <3> QED BY <1>1, <3>1, <3>2 DEF Done, Pure
  <2>2. ~Inspect => candidate' = candidate \/ candidate' = Nobody
    BY DEF Next, StrictRequest, DegradedRequest, PinExecutable, CreateView, SealRequest,
       PreparationFails, Launch, Work, Check, Spawn, ChildEnds, PublishResult, ResultFails, PublishReceipt,
       ReceiptFails, PublishFailure, Kill, Consume, ReadReceipt, Judge, Cleanup, Die, Expire, Replace, parentVars
  <2> QED BY <1>0, <1>1, <2>1, <2>2 DEF Done, Pure
<1> QED BY <1>2, <1>3, ReceiptStep DEF Vouched

\* The removal of the view lets one result through.
LEMMA AcceptedStep == ASSUME SoundInv, Next PROVE Accepted'
<1>0. /\ \A c \in accepted : Done(c) /\ Pure(c) /\ view = "removed" /\ accepted = {c}
      /\ candidate # Nobody => Done(candidate) /\ Pure(candidate)
  BY DEF SoundInv, Accepted, Vouched
<1>1. \A c : Done(c) /\ Pure(c) => Done(c)' /\ Pure(c)'
  BY PureStays, DoneAfterSealing DEF SoundInv
<1>2. view = "removed" => view' = "removed" \/ Preparing
  BY DEF Next, StrictRequest, DegradedRequest, PinExecutable, CreateView, SealRequest,
     PreparationFails, RemoveView, RemovalFails, Launch, Work, Check, Spawn, ChildEnds, PublishResult, ResultFails,
     PublishReceipt, ReceiptFails, PublishFailure, Kill, Consume, ReadReceipt, Judge, Inspect, Cleanup, Die, Expire,
     Replace, fileVars, Preparing
<1>3. CASE accepted' = accepted
  <2>1. accepted # {} => view' = "removed"
    BY <1>0, <1>2 DEF SoundInv, NothingRan
  <2> QED BY <1>0, <1>1, <1>3, <2>1 DEF Accepted
<1>4. CASE Cleanup /\ RemoveView /\ accepted' = accepted \cup ({candidate} \ {Nobody})
  <2>1. accepted = {} /\ view' = "removed"
    BY <1>0, <1>4 DEF RemoveView
  <2>2. \A c \in accepted' : c = candidate /\ candidate # Nobody /\ accepted' = {c}
    BY <1>4, <2>1
  <2> QED BY <1>0, <1>1, <2>1, <2>2 DEF Accepted, Done, Pure
<1>5. accepted' = accepted \/ (Cleanup /\ RemoveView /\ accepted' = accepted \cup ({candidate} \ {Nobody}))
  BY DEF Next, StrictRequest, DegradedRequest, PinExecutable, CreateView, SealRequest,
     PreparationFails, Launch, Work, Check, Spawn, ChildEnds, PublishResult, ResultFails, PublishReceipt,
     ReceiptFails, PublishFailure, Kill, Consume, ReadReceipt, Judge, Inspect, Cleanup, Die, Expire, Replace, parentVars
<1> QED BY <1>3, <1>4, <1>5

LEMMA SoundInvariant == Spec => []SoundInv
<1>1. Init => SoundInv
  <2> SUFFICES ASSUME Init PROVE SoundInv
    OBVIOUS
  <2>1. Shape
    BY DEF Init, Shape, Version, NothingSeen, NoReceipt
  <2>2. NothingRan /\ Attempted /\ Accepted
    BY DEF Init, NothingRan, Attempted, Accepted
  <2>3. Between /\ Vouched
    BY DEF Init, Between, Vouched, NothingSeen, NoReceipt
  <2> QED BY <2>1, <2>2, <2>3 DEF SoundInv
<1>2. SoundInv /\ [Next]_vars => SoundInv'
  <2> SUFFICES ASSUME SoundInv, [Next]_vars PROVE SoundInv'
    OBVIOUS
  <2>1. CASE Next
    BY <2>1, ShapeStep, NothingRanStep, BetweenStep, AttemptedStep, VouchedStep, AcceptedStep DEF SoundInv
  <2>2. CASE UNCHANGED vars
    <3>1. /\ UNCHANGED <<parent, installed, pinned, view, receipt, pc, attempts>>
          /\ UNCHANGED <<ran, seen, candidate, accepted>>
      BY <2>2 DEF vars, parentVars, captureVars, fileVars, hostVars
    <3>2. Shape' /\ NothingRan'
      BY <3>1 DEF SoundInv, Shape, NothingRan, Preparing
    <3>3. Between' /\ Attempted'
      BY <3>1 DEF SoundInv, Between, Attempted
    <3>4. Vouched' /\ Accepted'
      BY <3>1 DEF SoundInv, Vouched, Accepted, Done, Pure
    <3> QED BY <3>2, <3>3, <3>4 DEF SoundInv
  <2> QED BY <2>1, <2>2
<1> QED BY <1>1, <1>2, PTL DEF Spec

\* A review that is returned is the work of one capture, of the pinned files
\* alone and of a complete last attempt; its view is gone, and nothing is
\* returned twice (consumeCodexParentStrictReviewToolResult and
\* consumeCodexParentReviewHostToolResult).
THEOREM AcceptedReviewSoundCorrect == Spec => []AcceptedReviewSound
<1>1. SoundInv => AcceptedReviewSound
  BY DEF SoundInv, Accepted, AcceptedReviewSound, Done, Pure, Complete
<1> QED BY <1>1, SoundInvariant, PTL

-----------------------------------------------------------------------------
\* One step of a capture, as far as the evidence in its view goes.
LEMMA EvidenceStep ==
  ASSUME PlaceInv, NEW c \in Capture, Launch(c) \/ Work(c) \/ Kill(c)
  PROVE  PlaceInv'
<1>0. /\ DOMAIN pc = Capture /\ parent \in {"idle", "pinned"} => \A d \in Capture : pc[d] = "idle"
      /\ view = "present" => \A d \in Capture : pc[d] = "receipting" => result = d
      /\ view = "present" => \A d \in Capture : pc[d] = "succeeded" =>
             result = d /\ receipt = [by |-> d, says |-> "published"]
  BY DEF PlaceInv, ReceiptsOwn, EvidenceInPlace
<1>1. CASE Launch(c) \/ Check(c) \/ Spawn(c) \/ (\E o \in Outcome : ChildEnds(c, o)) \/ Kill(c)
  BY <1>0, <1>1 DEF Launch, Check, Spawn, ChildEnds, Kill, Go, parentVars, fileVars, PlaceInv, ReceiptsOwn, EvidenceInPlace
<1>2. CASE PublishResult(c) \/ ResultFails(c)
  BY <1>0, <1>2 DEF PublishResult, ResultFails, Free, Go, parentVars, PlaceInv, ReceiptsOwn, EvidenceInPlace
<1>3. CASE PublishReceipt(c)
  BY <1>0, <1>3 DEF PublishReceipt, Free, Vouch, Go, parentVars, PlaceInv, ReceiptsOwn, EvidenceInPlace
<1>4. CASE ReceiptFails(c) \/ PublishFailure(c)
  BY <1>0, <1>4 DEF ReceiptFails, PublishFailure, Free, Vouch, Go, parentVars, PlaceInv, ReceiptsOwn, EvidenceInPlace
<1> QED BY <1>1, <1>2, <1>3, <1>4 DEF Work

\* A capture that succeeded has its two files in the view as long as the view
\* is whole: no other capture of the same command replaces or removes them
\* (publishExclusiveReviewArtifact, publishCodexCaptureSuccess).
THEOREM EvidenceInPlaceCorrect == Spec => []EvidenceInPlace
<1>1. Init => PlaceInv
  BY DEF Init, PlaceInv, ReceiptsOwn, EvidenceInPlace
<1>2. PlaceInv /\ [Next]_vars => PlaceInv'
  <2> SUFFICES ASSUME PlaceInv, [Next]_vars PROVE PlaceInv'
    OBVIOUS
  <2>1. ASSUME NEW c \in Capture, Launch(c) \/ Work(c) \/ Kill(c) PROVE PlaceInv'
    BY <2>1, EvidenceStep
  <2>2. CASE StrictRequest \/ DegradedRequest
    BY <2>2 DEF StrictRequest, DegradedRequest, PinExecutable, CreateView, SealRequest, WriteRequest, PreparationFails,
       RemoveView, RemovalFails, captureVars, fileVars, PlaceInv, ReceiptsOwn, EvidenceInPlace
  <2>3. CASE Consume \/ Die
    BY <2>3 DEF Consume, ReadReceipt, Judge, Inspect, Cleanup, Die, RemoveView, RemovalFails, captureVars, fileVars,
       PlaceInv, ReceiptsOwn, EvidenceInPlace
  <2>4. CASE Expire \/ (\E f \in File : Replace(f)) \/ UNCHANGED vars
    BY <2>4 DEF Expire, Replace, vars, parentVars, captureVars, fileVars, PlaceInv, ReceiptsOwn, EvidenceInPlace
  <2> QED BY <2>1, <2>2, <2>3, <2>4 DEF Next
<1>3. PlaceInv => EvidenceInPlace
  BY DEF PlaceInv
<1> QED BY <1>1, <1>2, <1>3, PTL DEF Spec

-----------------------------------------------------------------------------
(***************************************************************************)
(* The values of the variables.  A capture attempts at most twice because  *)
(* it repeats only its first attempt.                                      *)
(***************************************************************************)
Lists == {<<>>} \cup {<<o>> : o \in Outcome} \cup {<<o, p>> : o, p \in Outcome}

LEMMA AttemptListed == ASSUME NEW s \in Retrying, NEW o \in Outcome PROVE Append(s, o) \in Lists
<1>1. CASE s = <<>>
  <2>1. Append(<<>>, o) = <<o>>
    OBVIOUS
  <2> QED BY <1>1, <2>1 DEF Lists
<1>2. CASE s = <<"retryable">>
  <2> DEFINE longer == Append(<<"retryable">>, o)
             pair == <<"retryable", o>>
  <2>1. <<"retryable">> \in Seq(Outcome) /\ Len(<<"retryable">>) = 1 /\ <<"retryable">>[1] = "retryable"
    BY DEF Outcome
  <2>2. longer \in Seq(Outcome) /\ Len(longer) = 2 /\ longer[1] = "retryable" /\ longer[2] = o
    BY <2>1, AppendProperties
  <2>3. pair \in Seq(Outcome) /\ Len(pair) = 2 /\ pair[1] = "retryable" /\ pair[2] = o
    BY DEF Outcome
  <2>4. pair \in Lists
    BY DEF Lists, Outcome
  <2> HIDE DEF longer, pair
  <2>5. Len(longer) = Len(pair) /\ \A i \in 1..Len(longer) : longer[i] = pair[i]
    BY <2>2, <2>3
  <2>6. longer = pair
    BY <2>2, <2>3, <2>5, SeqEqual
  <2> QED BY <1>2, <2>4, <2>6 DEF longer
<1> QED BY <1>1, <1>2 DEF Retrying

LEMMA TypeStep == ASSUME SoundInv, TypeOK, Next PROVE TypeOK'
<1> DEFINE Points == {"idle", "started", "checked", "child", "publishing", "receipting", "failing"} \cup Finished
           CaptureTypes == /\ pc \in [Capture -> Points] /\ \A c \in Capture : attempts[c] \in Lists
                           /\ ran \in [Capture -> SUBSET (File \X Version)]
           ParentTypes == /\ parent \in {"idle", "pinned", "viewed", "ready", "reading", "inspecting",
                                         "cleaning", "answered", "dead"}
                          /\ seen \in [receipt : Receipt, exitZero : BOOLEAN]
                          /\ candidate \in Capture \cup {Nobody} /\ accepted \subseteq Capture
           FileTypes == /\ view \in {"none", "present", "broken", "removed"}
                        /\ result \in Capture \cup {Nobody} /\ receipt \in Receipt
<1>1. CaptureTypes /\ ParentTypes /\ FileTypes /\ expired \in BOOLEAN /\ DOMAIN attempts = Capture
  BY DEF TypeOK, SoundInv, Shape, Lists
<1>2. installed' \in [File -> Version] /\ pinned' \in [File -> Version \cup {Unpinned}]
  BY ShapeStep DEF Shape
<1>3. expired' \in BOOLEAN
  BY <1>1 DEF Next, StrictRequest, DegradedRequest, PinExecutable, CreateView, SealRequest, PreparationFails,
     Launch, Work, Check, Spawn, ChildEnds, PublishResult, ResultFails, PublishReceipt, ReceiptFails,
     PublishFailure, Kill, Consume, ReadReceipt, Judge, Inspect, Cleanup, Die, Expire, Replace, hostVars
<1>4. NoReceipt \in Receipt /\ NothingSeen \in [receipt : Receipt, exitZero : BOOLEAN]
      /\ \A c \in Capture, state \in {"published", "absent"} : Vouch(c, state) \in Receipt
  BY DEF NoReceipt, NothingSeen, Receipt, Vouch
<1>5. CASE StrictRequest \/ DegradedRequest
  <2>1. UNCHANGED <<captureVars, seen, candidate, accepted>>
    BY <1>5 DEF StrictRequest, DegradedRequest, PinExecutable, CreateView, SealRequest, PreparationFails
  <2>2. parent' \in {"pinned", "viewed", "ready", "answered"} /\ FileTypes'
    BY <1>1, <1>4, <1>5 DEF StrictRequest, DegradedRequest, PinExecutable, CreateView, SealRequest, WriteRequest,
       PreparationFails, RemoveView, RemovalFails, fileVars
  <2> QED BY <1>1, <1>2, <1>3, <2>1, <2>2 DEF TypeOK, captureVars, Lists
<1>6. ASSUME NEW c \in Capture, Launch(c) \/ Work(c) \/ Kill(c) PROVE CaptureTypes' /\ FileTypes'
  <2>1. \A point \in Points : Go(c, point) => pc' \in [Capture -> Points]
    BY <1>1 DEF Go
  <2>2. CASE Launch(c)
    <3>1. <<"host", installed["host"]>> \in File \X Version
      BY DEF SoundInv, Shape, File
    <3> QED BY <1>1, <2>1, <2>2, <3>1 DEF Launch, Finished, fileVars
  <2>3. CASE Check(c) \/ Kill(c)
    BY <1>1, <2>1, <2>3 DEF Check, Kill, Finished, fileVars
  <2>4. ASSUME attempts[c] \in Retrying, NEW o \in Outcome, NoteAttempt(c, o)
        PROVE  \A d \in Capture : attempts'[d] \in Lists
    BY <1>1, <2>4, AttemptListed DEF NoteAttempt
  <2>5. CASE Spawn(c)
    <3>1. attempts[c] \in Retrying
      BY <2>5 DEF Spawn, SoundInv, Attempted
    <3>2. <<"codex", installed["codex"]>> \in File \X Version
      BY DEF SoundInv, Shape, File
    <3> QED BY <1>1, <2>1, <2>4, <2>5, <3>1, <3>2 DEF Spawn, Outcome, fileVars
  <2>6. ASSUME NEW o \in Outcome, ChildEnds(c, o) PROVE CaptureTypes' /\ FileTypes'
    <3>1. attempts[c] \in Retrying
      BY <2>6 DEF ChildEnds, SoundInv, Attempted
    <3> QED BY <1>1, <2>1, <2>4, <2>6, <3>1 DEF ChildEnds, fileVars
  <2>7. CASE PublishResult(c) \/ ResultFails(c)
    BY <1>1, <2>1, <2>7 DEF PublishResult, ResultFails
  <2>8. CASE PublishReceipt(c) \/ ReceiptFails(c) \/ PublishFailure(c)
    <3>1. pc' \in [Capture -> Points] /\ UNCHANGED <<attempts, ran, view>>
      BY <2>1, <2>8 DEF PublishReceipt, ReceiptFails, PublishFailure, Finished
    <3>2. result' \in Capture \cup {Nobody} /\ receipt' \in Receipt
      BY <1>1, <1>4, <2>8 DEF PublishReceipt, ReceiptFails, PublishFailure
    <3> QED BY <1>1, <3>1, <3>2
  <2> QED BY <1>6, <2>2, <2>3, <2>5, <2>6, <2>7, <2>8 DEF Work
<1>7. ASSUME NEW c \in Capture, Launch(c) \/ Work(c) \/ Kill(c) PROVE TypeOK'
  <2>1. UNCHANGED parentVars
    BY <1>7 DEF Launch, Work, Check, Spawn, ChildEnds, PublishResult, ResultFails, PublishReceipt, ReceiptFails,
       PublishFailure, Kill
  <2> QED BY <1>1, <1>2, <1>3, <1>6, <1>7, <2>1 DEF TypeOK, parentVars, Lists
<1>8. CASE Consume
  <2>1. UNCHANGED captureVars
    BY <1>8 DEF Consume, ReadReceipt, Judge, Inspect, Cleanup
  <2>2. ASSUME NEW c \in Capture, ReadReceipt(c) PROVE ParentTypes' /\ FileTypes'
    BY <1>1, <2>2 DEF ReadReceipt, fileVars
  <2>3. ASSUME Judge PROVE ParentTypes' /\ FileTypes'
    BY <1>1, <2>3 DEF Judge, fileVars
  <2>4. ASSUME Inspect PROVE ParentTypes' /\ FileTypes'
    BY <1>1, <2>4 DEF Inspect, Sealed, fileVars
  <2>5. ASSUME Cleanup PROVE ParentTypes' /\ FileTypes'
    <3>1. accepted' \subseteq Capture
      BY <1>1, <2>5 DEF Cleanup
    <3>2. FileTypes'
      BY <1>1, <1>4, <2>5 DEF Cleanup, RemoveView, RemovalFails
    <3> QED BY <1>1, <1>4, <2>5, <3>1, <3>2 DEF Cleanup
  <2> QED BY <1>1, <1>2, <1>3, <1>8, <2>1, <2>2, <2>3, <2>4, <2>5 DEF Consume, TypeOK, captureVars, Lists
<1>9. CASE Die \/ Expire \/ \E f \in File : Replace(f)
  <2>1. /\ UNCHANGED <<captureVars, fileVars, seen, candidate, accepted>>
        /\ parent' = parent \/ parent' = "dead"
    BY <1>9 DEF Die, Expire, Replace, parentVars
  <2> QED BY <1>1, <1>2, <1>3, <2>1 DEF TypeOK, captureVars, fileVars, Lists
<1> QED BY <1>5, <1>7, <1>8, <1>9 DEF Next

\* Every variable keeps to its type, for every set of capture processes and
\* every number of replacements: no capture attempts more than twice
\* (executeCodexCaptureRequest).
THEOREM TypeCorrect == Spec => []TypeOK
<1>1. Init => TypeOK
  <2> SUFFICES ASSUME Init PROVE TypeOK
    OBVIOUS
  <2>1. 0 \in Version /\ NoReceipt \in Receipt /\ NothingSeen \in [receipt : Receipt, exitZero : BOOLEAN]
    BY DEF Version, NoReceipt, NothingSeen, Receipt
  <2>2. attempts = [c \in Capture |-> <<>>]
    BY DEF Init
  <2>3. \A c \in Capture : attempts[c] = <<>>
    BY <2>2
  <2>4. expired \in BOOLEAN /\ installed \in [File -> Version] /\ pinned \in [File -> Version \cup {Unpinned}]
    BY <2>1 DEF Init
  <2>5. pc \in [Capture -> {"idle"}] /\ ran \in [Capture -> SUBSET (File \X Version)]
    BY DEF Init
  <2> QED BY <2>1, <2>3, <2>4, <2>5 DEF Init, TypeOK
<1>2. SoundInv /\ TypeOK /\ [Next]_vars => TypeOK'
  BY TypeStep DEF TypeOK, vars, parentVars, captureVars, fileVars, hostVars
<1> QED BY <1>1, <1>2, SoundInvariant, PTL DEF Spec

=================================================================================
