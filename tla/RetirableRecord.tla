--------------------------- MODULE RetirableRecord ---------------------------
(***************************************************************************)
(* What the controller store promises about one controller record: it only *)
(* grows, one complete update at a time; a record that nothing has been    *)
(* added to can be retired, in two steps; a retiring record never changes. *)
(***************************************************************************)
CONSTANT Op            \* the updates: phases, resources, bindings, receipts

VARIABLES
    record,            \* the updates the durable record holds
    state              \* "active", "retiring" or "retired"

Init == record = {} /\ state = "active"

Update(op) ==
    /\ state = "active"
    /\ op \notin record
    /\ record' = record \cup {op}
    /\ UNCHANGED state

StartRetirement ==
    /\ state = "active"
    /\ record = {}
    /\ state' = "retiring"
    /\ UNCHANGED record

FinishRetirement ==
    /\ state = "retiring"
    /\ state' = "retired"
    /\ UNCHANGED record

Next == (\E op \in Op : Update(op)) \/ StartRetirement \/ FinishRetirement

Spec == Init /\ [][Next]_<<record, state>>
=============================================================================
