----------------------------- MODULE MutationLock -----------------------------
(***************************************************************************)
(* The repository mutation lock of scripts/sdd/autonomous-sdd-local-store  *)
(* .mjs (withRepositoryMutationLock): a lock file made by hard-linking a   *)
(* private owner file to a fixed name.  A contender that finds the name    *)
(* taken hard-links the lock file to a second fixed name, ".reclaim", to   *)
(* elect itself the only reclaimer, checks that the owner is dead, unlinks *)
(* the lock and tries once more.                                           *)
(*                                                                         *)
(* One action per file-system or process call that other processes can     *)
(* observe.  The owner file is private to its creator until it is linked,  *)
(* so creating it is part of the linking step; a crash leaves an orphan    *)
(* owner file that nothing reads.  An inode is identified by its creator   *)
(* and one bit: when a process creates an owner file, at most one of its   *)
(* earlier inodes can still be linked (at .reclaim), and a live inode      *)
(* number is never reused, so the fresh inode takes the other bit.         *)
(***************************************************************************)
EXTENDS Naturals, FiniteSets

CONSTANTS
    Process,      \* the processes (pids) that call the lock
    None          \* no file at a path

\* "link0" and "link1" are the two rounds of the loop; "compare", "probe",
\* "unlink", "dropFail" and "dropRetry" run while .reclaim is claimed.
Reclaiming == {"compare", "probe", "unlink", "dropFail", "dropRetry"}
Points == {"idle", "link0", "link1", "claim", "inside"} \cup Reclaiming

Inode == Process \X {0, 1}

ASSUME NoneAssumption == None \notin Inode /\ None \notin Process

VARIABLES
    pc,           \* the point each process is at
    owned,        \* the inode of the owner file each process last created
    lock,         \* the inode at "<id>.mutation.lock", or None
    reclaim,      \* the inode at "<id>.mutation.lock.reclaim", or None
    running       \* the processes that have not ended

vars == <<pc, owned, lock, reclaim, running>>

OwnerOf(inode) == inode[1]

\* process.kill(pid, 0) answers ESRCH.
Dead(p) == p \notin running

Goto(p, point) == pc' = [pc EXCEPT ![p] = point]

At(p, point) == p \in running /\ pc[p] = point

Init ==
    /\ pc = [p \in Process |-> "idle"]
    /\ owned = [p \in Process |-> <<p, 0>>]
    /\ lock = None
    /\ reclaim = None
    /\ running = Process

Call(p) ==
    /\ At(p, "idle")
    /\ Goto(p, "link0")
    /\ UNCHANGED <<owned, lock, reclaim, running>>

\* Mutant of LinkLock: the owner file is renamed onto the lock, which replaces
\* a lock that exists.
LinkLockReplaces(p) ==
    /\ At(p, "link0") \/ At(p, "link1")
    /\ \E bit \in {0, 1} :
          /\ <<p, bit>> # reclaim
          /\ owned' = [owned EXCEPT ![p] = <<p, bit>>]
          /\ lock' = <<p, bit>>
    /\ Goto(p, "inside")
    /\ UNCHANGED <<reclaim, running>>

\* openSync(ownerPath, "wx") ; linkSync(ownerPath, lock) succeeds.
LinkLock(p) ==
    /\ At(p, "link0") \/ At(p, "link1")
    /\ lock = None
    /\ \E bit \in {0, 1} :
          /\ <<p, bit>> # reclaim
          /\ owned' = [owned EXCEPT ![p] = <<p, bit>>]
          /\ lock' = <<p, bit>>
    /\ Goto(p, "inside")
    /\ UNCHANGED <<reclaim, running>>

\* linkSync fails with EEXIST: reclaim on the first round, give up on the second.
LockExists(p) ==
    /\ lock # None
    /\ \/ At(p, "link0") /\ Goto(p, "claim")
       \/ At(p, "link1") /\ Goto(p, "idle")
    /\ UNCHANGED <<owned, lock, reclaim, running>>

\* Mutants of ClaimReclaim: the link names the owner, not its file, or
\* replaces another reclaimer's.
ClaimReclaimOwner(p) ==
    /\ At(p, "claim")
    /\ \/ /\ lock = None \/ reclaim # None
          /\ Goto(p, "idle")
          /\ UNCHANGED reclaim
       \/ /\ lock # None /\ reclaim = None
          /\ reclaim' = OwnerOf(lock)
          /\ Goto(p, "compare")
    /\ UNCHANGED <<owned, lock, running>>

ClaimReclaimReplaces(p) ==
    /\ At(p, "claim")
    /\ \/ /\ lock = None
          /\ Goto(p, "idle")
          /\ UNCHANGED reclaim
       \/ /\ lock # None
          /\ reclaim' = lock
          /\ Goto(p, "compare")
    /\ UNCHANGED <<owned, lock, running>>

\* linkSync(lock, reclaim): ENOENT when the lock is gone, EEXIST when another
\* process is reclaiming, else this process is the elected reclaimer.
ClaimReclaim(p) ==
    /\ At(p, "claim")
    /\ \/ /\ lock = None \/ reclaim # None
          /\ Goto(p, "idle")
          /\ UNCHANGED reclaim
       \/ /\ lock # None /\ reclaim = None
          /\ reclaim' = lock
          /\ Goto(p, "compare")
    /\ UNCHANGED <<owned, lock, running>>

\* Mutant of CompareInodes: the same inode is enough to unlink the lock.
CompareInodesOnly(p) ==
    /\ At(p, "compare")
    /\ Goto(p, IF lock = reclaim THEN "unlink" ELSE "dropFail")
    /\ UNCHANGED <<owned, lock, reclaim, running>>

\* lstatSync of both names: they must be the same inode.
CompareInodes(p) ==
    /\ At(p, "compare")
    /\ Goto(p, IF lock = reclaim THEN "probe" ELSE "dropFail")
    /\ UNCHANGED <<owned, lock, reclaim, running>>

\* Mutant of ProbeOwner: every owner counts as dead.
ProbeOwnerBlind(p) ==
    /\ At(p, "probe")
    /\ Goto(p, "unlink")
    /\ UNCHANGED <<owned, lock, reclaim, running>>

\* The owner record is read through .reclaim, then its pid is signalled.
ProbeOwner(p) ==
    /\ At(p, "probe")
    /\ Goto(p, IF Dead(OwnerOf(reclaim)) THEN "unlink" ELSE "dropFail")
    /\ UNCHANGED <<owned, lock, reclaim, running>>

\* unlinkSync(lock): removes whatever is at the name now, throws when nothing is.
UnlinkLock(p) ==
    /\ At(p, "unlink")
    /\ lock' = None
    /\ Goto(p, IF lock = None THEN "dropFail" ELSE "dropRetry")
    /\ UNCHANGED <<owned, reclaim, running>>

\* Mutant of DropReclaim: a reclaim that failed keeps its link.
DropReclaimAfterSuccess(p) ==
    /\ \/ At(p, "dropFail") /\ Goto(p, "idle") /\ UNCHANGED reclaim
       \/ At(p, "dropRetry") /\ Goto(p, "link1") /\ reclaim' = None
    /\ UNCHANGED <<owned, lock, running>>

\* The finally block unlinks .reclaim; the loop goes round or the call fails.
DropReclaim(p) ==
    /\ \/ At(p, "dropFail") /\ Goto(p, "idle")
       \/ At(p, "dropRetry") /\ Goto(p, "link1")
    /\ reclaim' = None
    /\ UNCHANGED <<owned, lock, running>>

\* The operation returned: unlinkSync(lock), whatever is at the name now.
ReleaseLock(p) ==
    /\ At(p, "inside")
    /\ lock' = None
    /\ Goto(p, "idle")
    /\ UNCHANGED <<owned, reclaim, running>>

\* The process exits or is killed, wherever it is; its links stay.
End(p) ==
    /\ p \in running
    /\ running' = running \ {p}
    /\ UNCHANGED <<pc, owned, lock, reclaim>>

Step(p) ==
    \/ LinkLock(p) \/ LockExists(p) \/ ClaimReclaim(p) \/ CompareInodes(p)
    \/ ProbeOwner(p) \/ UnlinkLock(p) \/ DropReclaim(p) \/ ReleaseLock(p)

Next == \E p \in Process : Call(p) \/ Step(p) \/ End(p)

Spec == Init /\ [][Next]_vars

\* Process p gave its lock up after a reclaimer found it at both names, and that
\* reclaimer has not yet asked whether p is alive.
MissedByProbe(p) ==
    \E q \in running :
        /\ pc[q] = "probe" /\ OwnerOf(reclaim) = p
        /\ lock = None \/ OwnerOf(lock) # p

\* The environment in which the lock keeps its promise: no process exits just
\* then.  The code does not see to it (MutationLockReplaced runs Spec instead).
QuietNext == \E p \in Process : Call(p) \/ Step(p) \/ (End(p) /\ ~MissedByProbe(p))

QuietSpec == Init /\ [][QuietNext]_vars

\* A started call runs on (it is synchronous code), and a process that is
\* refused the lock calls again.
RetrySpec == QuietSpec /\ \A p \in Process : WF_vars(Call(p)) /\ WF_vars(Step(p))

-----------------------------------------------------------------------------
TypeOK ==
    /\ pc \in [Process -> Points]
    /\ owned \in [Process -> Inode]
    /\ \A p \in Process : OwnerOf(owned[p]) = p
    /\ lock \in Inode \cup {None}
    /\ reclaim \in Inode \cup {None}
    /\ running \subseteq Process

\* No two live processes run guarded operations at once (the promise of the
\* lock: admission, archiving and retirement publication never interleave).
MutualExclusion ==
    \A p, q \in running : pc[p] = "inside" /\ pc[q] = "inside" => p = q

\* The create-only .reclaim link elects one reclaimer: no two processes, dead
\* ones included, are between claiming and dropping it, and it is on disk
\* exactly while there is one.
OneReclaimer ==
    /\ \A p, q \in Process : pc[p] \in Reclaiming /\ pc[q] \in Reclaiming => p = q
    /\ reclaim # None <=> \E p \in Process : pc[p] \in Reclaiming

\* A lock whose owner is alive leaves its name only when its owner's own
\* operation returns: no contender unlinks a live (replacement) lock.
LiveLockKept ==
    [][lock # None /\ OwnerOf(lock) \in running /\ lock' # lock
          => ReleaseLock(OwnerOf(lock))]_vars

StaleLock == lock # None /\ Dead(OwnerOf(lock))

\* A reclaimer ended before it dropped its link, and nothing drops it now.
OrphanReclaim == \E p \in Process \ running : pc[p] \in Reclaiming

\* Crash release: a lock left by a dead owner does not stay for ever while
\* live processes keep calling, unless a dead reclaimer's link is in the way.
StaleLockReclaimed == StaleLock ~> (~StaleLock \/ running = {} \/ OrphanReclaim)

-----------------------------------------------------------------------------
Inside == {p \in running : pc[p] = "inside"}

Holder == IF Inside = {} THEN None ELSE CHOOSE p \in Inside : TRUE

Mutex == INSTANCE RepositoryMutex WITH holder <- Holder

\* The lock protocol implements the abstract lock.
ImplementsMutex == Mutex!Spec

\* Why no live lock is unlinked under QuietSpec: whoever is inside owns the lock;
\* while a reclaimer is about to probe, a claimed owner that is dead still owns
\* the lock; and the lock about to be unlinked has a dead owner.
InsideOwnsLock == \A p \in running : pc[p] = "inside" => lock = owned[p]
ClaimIsCurrent ==
    \A p \in running : pc[p] = "probe" /\ Dead(OwnerOf(reclaim)) =>
        lock # None /\ OwnerOf(lock) = OwnerOf(reclaim)
UnlinksStaleLock ==
    \A p \in running : pc[p] = "unlink" => StaleLock

SafeInv ==
    TypeOK /\ OneReclaimer /\ InsideOwnsLock /\ ClaimIsCurrent /\ UnlinksStaleLock
=============================================================================
