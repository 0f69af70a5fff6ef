--------------------------- MODULE RepositoryMutex ---------------------------
(***************************************************************************)
(* What withRepositoryMutationLock promises its callers: one abstract      *)
(* lock per repository, held by at most one process, that only its holder  *)
(* gives back.  The lock of a process that ended is free again.            *)
(***************************************************************************)
CONSTANTS Process, None

VARIABLE holder        \* the process inside the guarded operation, or None

Init == holder = None

Acquire(p) == holder = None /\ holder' = p

Release(p) == holder = p /\ holder' = None

\* A holder that ends gives the lock up without running its finally block.
HolderEnds(p) == holder = p /\ holder' = None

Next == \E p \in Process : Acquire(p) \/ Release(p) \/ HolderEnds(p)

Spec == Init /\ [][Next]_holder
=============================================================================
