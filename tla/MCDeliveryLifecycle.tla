-------------------------- MODULE MCDeliveryLifecycle --------------------------
(***************************************************************************)
(* Instances of DeliveryLifecycle.                                         *)
(***************************************************************************)
EXTENDS DeliveryLifecycle, TLC

\* Every worktree has the one branch checked out.
AllCheckedOut == Worktree \X Branch

\* With one cleanup at a time, and with several.
OneOrMany == {{}, {"oneCleaner"}}

\* A process that dies elsewhere leaves nothing unfinished behind.
Removing == {"start", "remove", "finish"}
=============================================================================
