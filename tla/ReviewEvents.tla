------------------------------ MODULE ReviewEvents ------------------------------
(***************************************************************************)
(* The parser of the reviewer's event stream.  It consumes the stream line *)
(* by line, keeps nothing of it but the last agent message, and at the end *)
(* says whether a review is available and, if not, whether the attempt may *)
(* be repeated.  A line that is malformed, unsupported or over a byte      *)
(* bound, in any way, is the event "bad".                                  *)
(***************************************************************************)
EXTENDS Naturals, Sequences

CONSTANTS Item,        \* the identities of the stream's items
          EventBound   \* bounds.eventCount

VARIABLES
    stream,     \* the lines consumed so far; nothing is consumed after a failure
    turn,       \* threadStarted, turnStarted and turnCompleted: the last one set
    items,      \* itemStates
    candidate,  \* the last agent message: a review, or not one
    failure,    \* whether the stream has been refused
    answer      \* what end() returned

vars == <<stream, turn, items, candidate, failure, answer>>

Kind == {"agent_message", "tool"}
Text == {"review", "prose", "blank"}
None == "none"

TurnEvent == [type : {"thread.started", "turn.started", "turn.completed", "turn.failed", "bad"}]
ItemEvent == [type : {"item.started", "item.updated", "item.completed"},
              id : Item, kind : Kind, text : Text]
\* Only a completed message has a text that matters.
Event == TurnEvent \cup {e \in ItemEvent : e.text = "review" \/
                            (e.type = "item.completed" /\ e.kind = "agent_message")}

Answer == {None, "complete", "retryable", "broken"}
Unseen == [state |-> None, kind |-> None]

TypeOK ==
    /\ stream \in Seq(Event) /\ Len(stream) <= EventBound + 1
    /\ turn \in {None, "thread.started", "turn.started", "turn.completed"}
    /\ items \in [Item -> [state : {None, "started", "completed"}, kind : Kind \cup {None}]]
    /\ candidate \in {None, "review", "prose"}
    /\ failure \in BOOLEAN /\ answer \in Answer

Init ==
    /\ stream = <<>> /\ turn = None
    /\ items = [i \in Item |-> Unseen]
    /\ candidate = None /\ failure = FALSE /\ answer = None

\* The line is within the bound and is consumed by "effect".
Accept(e, allowed) ==
    /\ answer = None /\ ~failure
    /\ stream' = Append(stream, e)
    /\ failure' = ~(Len(stream) < EventBound /\ allowed)
    /\ UNCHANGED answer

\* Mutant of ConsumeTurn: a turn ends whatever its items did.
ConsumeTurnEarly(e) ==
    /\ e \in TurnEvent
    /\ Accept(e, CASE e.type = "thread.started" -> turn = None
                   [] e.type = "turn.started"   -> turn = "thread.started"
                   [] e.type = "turn.completed" -> turn = "turn.started"
                   [] OTHER -> FALSE)
    /\ turn' = IF failure' THEN turn ELSE e.type
    /\ UNCHANGED <<items, candidate>>

\* The thread, the turn and the turn's end come in this order, once each; a
\* turn ends when every item that was seen is completed.
ConsumeTurn(e) ==
    /\ e \in TurnEvent
    /\ Accept(e, CASE e.type = "thread.started" -> turn = None
                   [] e.type = "turn.started"   -> turn = "thread.started"
                   [] e.type = "turn.completed" -> /\ turn = "turn.started"
                                                   /\ \A i \in Item : items[i].state # "started"
                   [] OTHER -> FALSE)
    /\ turn' = IF failure' THEN turn ELSE e.type
    /\ UNCHANGED <<items, candidate>>

\* An item is started, updated and completed with one kind, or completed at
\* once; a completed message is the new candidate.
ConsumeItem(e) ==
    /\ e \in ItemEvent
    /\ LET known == items[e.id]
       IN  Accept(e, /\ turn = "turn.started"
                     /\ CASE e.type = "item.started"   -> known = Unseen
                          [] e.type = "item.updated"   -> known = [state |-> "started", kind |-> e.kind]
                          [] e.type = "item.completed" ->
                                /\ known \in {Unseen, [state |-> "started", kind |-> e.kind]}
                                /\ e.text # "blank")
    /\ LET ends == e.type = "item.completed"
       IN  IF failure' THEN UNCHANGED <<items, candidate>>
           ELSE /\ items' = [items EXCEPT ![e.id] =
                                [state |-> IF ends THEN "completed" ELSE "started", kind |-> e.kind]]
                /\ candidate' = IF ends /\ e.kind = "agent_message" THEN e.text ELSE candidate
    /\ UNCHANGED turn

\* The reviewer's output is closed.  An unfinished last line is consumed
\* like the others, before this.
End ==
    /\ answer = None
    /\ answer' = IF failure \/ turn \in {None, "thread.started"} THEN "broken"
                 ELSE IF turn = "turn.started" \/ candidate = None THEN "retryable"
                 ELSE IF candidate = "prose" THEN "broken"
                 ELSE "complete"
    /\ UNCHANGED <<stream, turn, items, candidate, failure>>

Next == End \/ \E e \in Event : ConsumeTurn(e) \/ ConsumeItem(e)

Spec == Init /\ [][Next]_vars

-----------------------------------------------------------------------------
(***************************************************************************)
(* What a stream is, declared over the whole of it.                        *)
(***************************************************************************)
Of(s, i) == {j \in 1..Len(s) : s[j] \in ItemEvent /\ s[j].id = i}

\* The life of one item, whole or cut short: it has one kind, is started
\* first if at all, and nothing follows its completion.
Life(s, i, whole) ==
    /\ \A j, k \in Of(s, i) :
           /\ s[j].kind = s[k].kind
           /\ s[j].type = "item.started"   => j <= k
           /\ s[j].type = "item.completed" => k <= j
    /\ \A j \in Of(s, i) :
           /\ s[j].text # "blank"
           /\ s[j].type = "item.updated" => \E k \in Of(s, i) : k < j
    /\ whole /\ Of(s, i) # {} => \E j \in Of(s, i) : s[j].type = "item.completed"

Opened(s) ==
    /\ Len(s) >= 2 /\ Len(s) <= EventBound
    /\ s[1].type = "thread.started" /\ s[2].type = "turn.started"

Unfinished(s) ==
    /\ Opened(s) /\ \A j \in 3..Len(s) : s[j] \in ItemEvent
    /\ \A i \in Item : Life(s, i, FALSE)

Closed(s) ==
    /\ Opened(s) /\ s[Len(s)].type = "turn.completed"
    /\ \A j \in 3..(Len(s) - 1) : s[j] \in ItemEvent
    /\ \A i \in Item : Life(s, i, TRUE)

Messages(s) == {j \in 1..Len(s) : /\ s[j] \in ItemEvent
                                  /\ s[j].kind = "agent_message" /\ s[j].type = "item.completed"}
LastMessage(s, text) ==
    \E j \in Messages(s) : s[j].text = text /\ \A k \in Messages(s) : k <= j

\* A review is available exactly for a closed stream whose last message is a
\* review, and an attempt is repeated exactly when its stream is a legal one
\* cut short, or a closed one with no message at all: never after a failure,
\* an illegal event or a bad review (codex-review-event-contract.mjs,
\* createCodexReviewEventParser).
ParserAgrees ==
    answer # None =>
        /\ answer = "complete" <=> Closed(stream) /\ LastMessage(stream, "review")
        /\ answer = "retryable" <=> \/ Unfinished(stream)
                                    \/ Closed(stream) /\ Messages(stream) = {}

=============================================================================
