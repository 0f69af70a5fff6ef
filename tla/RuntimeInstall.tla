---------------------------- MODULE RuntimeInstall ----------------------------
(***************************************************************************)
(* The installed runtime that the launcher dispatches helpers from.  An    *)
(* installation promotes a built version to a directory of its own,        *)
(* appends to the history in installed.json and then makes the version the *)
(* active one; a rollback reads the history, activates the runtime that    *)
(* was active before and then appends.  Neither holds a lock: the history  *)
(* is read and written back, and a call may fail or end after any write.   *)
(***************************************************************************)
EXTENDS Naturals, Sequences, FiniteSets

CONSTANTS Version, Operator, None,
          MaxHistory,   \* bound on the activations
          MaxTouched    \* bound on the versions that people touch

VARIABLES
    directory,      \* the version directories, as their manifests see them
    installed,      \* installed.json: the versions in the order of their entries
    active,         \* active.json
    calls,          \* the command of each operator
    trail,          \* history: the versions in the order they became active
    disturbed,      \* history: whether two commands had the history open at one
                    \*   time, or one of them ended between its two writes
    meddled         \* history: the versions whose directory people touched

vars == <<directory, installed, active, calls, trail, disturbed, meddled>>

Idle == [kind |-> "none", at |-> "idle"]
Points == [install |-> {"skills", "promote", "rename", "append", "write", "activate"},
           rollback |-> {"choose", "activate", "append", "write"},
           launch |-> {"verify", "run"}]
Call == [kind : DOMAIN Points, version : Version \cup {None}, read : Seq(Version),
         at : UNION {Points[kind] : kind \in DOMAIN Points}] \cup {Idle}

TypeOK ==
    /\ directory \in [Version -> {"absent", "whole", "damaged", "bare"}]
    /\ installed \in Seq(Version) /\ trail \in Seq(Version)
    /\ active \in Version \cup {None} /\ disturbed \in BOOLEAN /\ meddled \subseteq Version
    /\ calls \in [Operator -> Call]
    /\ \A p \in Operator : calls[p] # Idle =>
           /\ calls[p].at \in Points[calls[p].kind]
           /\ calls[p].at # "choose" => calls[p].version \in Version

Init ==
    /\ directory = [v \in Version |-> "absent"] /\ installed = <<>> /\ active = None
    /\ calls = [p \in Operator |-> Idle]
    /\ trail = <<>> /\ disturbed = FALSE /\ meddled = {}

At(p, kind, point) == calls[p].kind = kind /\ calls[p].at = point
Go(p, point) == calls' = [calls EXCEPT ![p].at = point]
Forget(p, point) == calls' = [calls EXCEPT ![p].read = <<>>, ![p].at = point]
Quit(p) == calls' = [calls EXCEPT ![p] = Idle]

\* From reading the history until the last of the command's writes.
Open(p) ==
    \/ calls[p].at \in {"choose", "write", "activate"}
    \/ At(p, "rollback", "append")

Opens(p) == disturbed' = (disturbed \/ \E q \in Operator \ {p} : Open(q))

(***************************************************************************)
(* installAiSkills.                                                        *)
(***************************************************************************)

\* The version is built and validated in a staging directory of the process;
\* what fails until then changes nothing.  A runtime-only installation leaves
\* out the skills.
Install(p, v) ==
    /\ calls[p] = Idle /\ Len(trail) < MaxHistory /\ Len(installed) < MaxHistory
    /\ \E at \in {"skills", "promote"} :
           calls' = [calls EXCEPT ![p] = [kind |-> "install", version |-> v, read |-> <<>>, at |-> at]]
    /\ UNCHANGED <<directory, installed, active, trail, disturbed, meddled>>

InstallSkills(p) ==
    /\ At(p, "install", "skills") /\ (Go(p, "promote") \/ Quit(p))
    /\ UNCHANGED <<directory, installed, active, trail, disturbed, meddled>>

\* A directory with a manifest is taken for the version; one without is not.
Promote(p) ==
    LET found == directory[calls[p].version]
    IN  /\ At(p, "install", "promote")
        /\ \/ found = "bare" /\ Quit(p)
           \/ found = "absent" /\ Go(p, "rename")
           \/ found \in {"whole", "damaged"} /\ Go(p, "append")
        /\ UNCHANGED <<directory, installed, active, trail, disturbed, meddled>>

\* Mutant of Rename: the version is copied, and the copy may stop halfway.
RenameByCopy(p) ==
    LET v == calls[p].version
    IN  /\ At(p, "install", "rename")
        /\ \/ directory[v] = "absent" /\ directory' = [directory EXCEPT ![v] = "whole"] /\ Go(p, "append")
           \/ directory[v] = "absent" /\ directory' = [directory EXCEPT ![v] = "damaged"] /\ Quit(p)
           \/ directory[v] # "absent" /\ Quit(p) /\ UNCHANGED directory
        /\ UNCHANGED <<installed, active, trail, disturbed, meddled>>

\* One rename, which fails if another call has made the directory since.
Rename(p) ==
    LET v == calls[p].version
    IN  /\ At(p, "install", "rename")
        /\ \/ directory[v] = "absent" /\ directory' = [directory EXCEPT ![v] = "whole"] /\ Go(p, "append")
           \/ directory[v] # "absent" /\ Quit(p) /\ UNCHANGED directory
        /\ UNCHANGED <<installed, active, trail, disturbed, meddled>>

\* appendInstalledHistory, which an installation calls before it activates and
\* a rollback after.
ReadHistory(p) ==
    /\ calls[p].at = "append"
    /\ calls' = [calls EXCEPT ![p].read = installed, ![p].at = "write"]
    /\ IF calls[p].kind = "install" THEN Opens(p) ELSE UNCHANGED disturbed
    /\ UNCHANGED <<directory, installed, active, trail, meddled>>

WriteHistory(p) ==
    /\ calls[p].at = "write"
    /\ installed' = Append(calls[p].read, calls[p].version)
    /\ IF calls[p].kind = "install" THEN Forget(p, "activate") ELSE Quit(p)
    /\ UNCHANGED <<directory, active, trail, disturbed, meddled>>

\* active.json is replaced in one rename.
Activate(p) ==
    /\ calls[p].at = "activate"
    /\ active' = calls[p].version /\ trail' = Append(trail, active')
    /\ IF calls[p].kind = "install" THEN Quit(p) ELSE Go(p, "append")
    /\ UNCHANGED <<directory, installed, disturbed, meddled>>

(***************************************************************************)
(* activatePrevious.                                                       *)
(***************************************************************************)

\* Mutant of PreviousOf: the entry before the last.
PreviousEntry(log, now) == {log[i] : i \in {k \in 1..Len(log) : k = Len(log) - 1}}

\* previouslyActive: the last entry of another version, if there is one.
PreviousOf(log, now) ==
    {log[i] : i \in {k \in 1..Len(log) : log[k] # now /\ \A j \in k + 1..Len(log) : log[j] = now}}

Rollback(p) ==
    /\ calls[p] = Idle /\ Len(trail) < MaxHistory /\ Len(installed) < MaxHistory
    /\ calls' = [calls EXCEPT ![p] = [kind |-> "rollback", version |-> None, read |-> installed, at |-> "choose"]]
    /\ Opens(p)
    /\ UNCHANGED <<directory, installed, active, trail, meddled>>

\* The active metadata is read after the history; the runtime that is found
\* must have its manifest and match it.
Choose(p) ==
    /\ At(p, "rollback", "choose")
    /\ \/ \E v \in PreviousOf(calls[p].read, active) :
              /\ directory[v] = "whole"
              /\ calls' = [calls EXCEPT ![p] = [kind |-> "rollback", version |-> v, read |-> <<>>, at |-> "activate"]]
       \/ (\A v \in PreviousOf(calls[p].read, active) : directory[v] # "whole") /\ Quit(p)
    /\ UNCHANGED <<directory, installed, active, trail, disturbed, meddled>>

(***************************************************************************)
(* The launcher: it resolves the active runtime once, verifies its content *)
(* and runs the helper from the directory that it verified.                *)
(***************************************************************************)
Launch(p) ==
    /\ calls[p] = Idle /\ active # None
    /\ calls' = [calls EXCEPT ![p] = [kind |-> "launch", version |-> active, read |-> <<>>, at |-> "verify"]]
    /\ UNCHANGED <<directory, installed, active, trail, disturbed, meddled>>

VerifyContent(p) ==
    /\ At(p, "launch", "verify")
    /\ IF directory[calls[p].version] = "whole" THEN Go(p, "run") ELSE Quit(p)
    /\ UNCHANGED <<directory, installed, active, trail, disturbed, meddled>>

Run(p) ==
    /\ At(p, "launch", "run") /\ Quit(p)
    /\ UNCHANGED <<directory, installed, active, trail, disturbed, meddled>>

HalfWritten(p) ==
    \/ At(p, "install", "activate")
    \/ At(p, "rollback", "append") \/ At(p, "rollback", "write")

\* A write fails or the process ends.  The history and the active runtime
\* disagree from then on if only one of them was written.
Stop(p) ==
    /\ calls[p] # Idle /\ Quit(p)
    /\ disturbed' = (disturbed \/ HalfWritten(p))
    /\ UNCHANGED <<directory, installed, active, trail, meddled>>

\* People edit an installed version, lose its manifest or prune it.
Meddle(v) ==
    /\ v \notin meddled /\ directory[v] # "absent" /\ Cardinality(meddled) < MaxTouched
    /\ meddled' = meddled \cup {v}
    /\ \E found \in {"damaged", "bare", "absent"} : directory' = [directory EXCEPT ![v] = found]
    /\ UNCHANGED <<installed, active, calls, trail, disturbed>>

Next ==
    \/ \E p \in Operator, v \in Version : Install(p, v)
    \/ \E p \in Operator :
           \/ InstallSkills(p) \/ Promote(p) \/ Rename(p)
           \/ ReadHistory(p) \/ WriteHistory(p) \/ Activate(p)
           \/ Rollback(p) \/ Choose(p)
           \/ Launch(p) \/ VerifyContent(p) \/ Run(p) \/ Stop(p)
    \/ \E v \in Version : Meddle(v)

Spec == Init /\ [][Next]_vars

\* The runtime that is active, and one that a launcher has resolved and that
\* may not be active any more, is there as it was built, whatever commands
\* overlap, fail or end anywhere, unless people touched it (installAiSkills
\* promotes by one rename and prunes nothing).
Resolved == {calls[p].version : p \in {q \in Operator : calls[q].kind = "launch"}}
RuntimeWhole == \A v \in ({active} \cup Resolved) \ {None} : directory[v] = "whole" \/ v \in meddled

\* A rollback activates the runtime that was active immediately before the
\* one that is, however often versions were installed again or rolled back;
\* unless two commands had the history open at one time, or one of them ended
\* between its two writes, which nothing prevents (previouslyActive and the
\* order of the writes in installAiSkills and activatePrevious).
RollbackRestores ==
    [][\A p \in Operator :
           At(p, "rollback", "activate") /\ calls'[p].at = "append" /\ ~disturbed =>
               /\ active' # active
               /\ \E i \in 1..Len(trail) :
                      trail[i] = active' /\ \A j \in i + 1..Len(trail) : trail[j] = active]_vars

================================================================================
