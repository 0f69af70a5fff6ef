---------------------------- MODULE MCMutationLock ----------------------------
(***************************************************************************)
(* Instances of MutationLock: three processes that exit or crash anywhere, *)
(* in the environment the run's specification names.                       *)
(***************************************************************************)
EXTENDS MutationLock
=============================================================================
