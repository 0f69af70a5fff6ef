-------------------------- MODULE MCControllerStore --------------------------
(***************************************************************************)
(* Instances of ControllerStore: the points at which each run lets a       *)
(* process end.                                                            *)
(***************************************************************************)
EXTENDS ControllerStore, TLC

EndAnywhere == Points
Symmetry == Permutations(Process)
\* Only a process that holds the record lock crashes.
EndLocked == Locked
=============================================================================
