----------------------------- MODULE DeliveryQueue -----------------------------
(***************************************************************************)
(* What the controller promises about a delivery: the entries of its queue *)
(* are delivered one after the other; each goes through the phases in      *)
(* order, once, with one piece of evidence per phase; and the last phase,  *)
(* cleanup, is complete only when nothing the entry owned is left.         *)
(***************************************************************************)
EXTENDS Naturals, Sequences

CONSTANTS
    Entries,           \* how many entries the queue has
    LastPhase,         \* how many phases an entry has, the last one is cleanup
    Evidence,
    Resource           \* what an entry can own: worktrees and branches

VARIABLES
    entry,             \* the selected entry
    done,              \* the evidence of its completed phases, in their order
    left               \* what it owns and has not been removed

vars == <<entry, done, left>>

Init == entry = 1 /\ done = <<>> /\ left = {}

\* The entry comes to own a resource, or one of them is removed.
Own ==
    /\ left' \in SUBSET Resource
    /\ UNCHANGED <<entry, done>>

CompletePhase(evidence) ==
    /\ Len(done) < LastPhase
    /\ Len(done) + 1 = LastPhase => left = {}
    /\ done' = Append(done, evidence)
    /\ UNCHANGED <<entry, left>>

SelectNext ==
    /\ Len(done) = LastPhase
    /\ left = {}
    /\ entry < Entries
    /\ entry' = entry + 1
    /\ done' = <<>>
    /\ left' = {}

Next == Own \/ (\E e \in Evidence : CompletePhase(e)) \/ SelectNext

Spec == Init /\ [][Next]_vars
=============================================================================
