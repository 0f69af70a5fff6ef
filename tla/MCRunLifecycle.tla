--------------------------- MODULE MCRunLifecycle ---------------------------
(***************************************************************************)
(* Instances of RunLifecycle: the runs' deadlines, the points at which a   *)
(* run lets a process end or fail, and what the operators keep to.         *)
(***************************************************************************)
EXTENDS RunLifecycle, TLC

Symmetry == Permutations(Process)

\* Two runs of different length, the first expiring within the clock's bound.
Deadlines == [r \in Run |-> IF r = CHOOSE x \in Run : TRUE THEN 2 ELSE 3]
SameDeadline == [r \in Run |-> 2]

AllPoints == Points
EndSafe == {"admit", "publishStaged", "renameStaged", "bind", "move"}
EndBeforeBind == {"indexActive", "bind"}
=============================================================================
