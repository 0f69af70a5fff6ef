--------------------------- MODULE RepositoryClaim ---------------------------
(***************************************************************************)
(* What admission, terminalization and cancellation promise together: a    *)
(* repository has at most one active run; a run is admitted once, closed   *)
(* once, and closed in one way.                                            *)
(***************************************************************************)
CONSTANTS
    Run,               \* the runs, one per authorization
    Kind,              \* the ways to close a run
    None

VARIABLES
    claim,             \* the run that holds the repository, or None
    closed             \* how each run was closed, or None

Init == claim = None /\ closed = [r \in Run |-> None]

Admit(r) ==
    /\ claim = None
    /\ closed[r] = None
    /\ claim' = r
    /\ UNCHANGED closed

Close(r, kind) ==
    /\ claim = r
    /\ claim' = None
    /\ closed' = [closed EXCEPT ![r] = kind]

Next == \E r \in Run : Admit(r) \/ \E kind \in Kind : Close(r, kind)

Spec == Init /\ [][Next]_<<claim, closed>>
=============================================================================
