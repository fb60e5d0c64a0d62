--------------------------- MODULE StateRecovery ---------------------------
(***************************************************************************)
(* Snapshot and restore of the two engine databases (state_recovery.py)    *)
(* while runs and receipts go on changing.  Each database is copied on its *)
(* own, in the order of _DATABASES, into a private staging directory that  *)
(* is renamed to its destination when the set is complete; the process may *)
(* die anywhere, and a file of a published snapshot may be damaged.  The   *)
(* digest of a file is its contents here: equal exactly when they are.     *)
(***************************************************************************)
EXTENDS Integers, Sequences

CONSTANTS
    Request,   \* requests whose runs are effectful
    Operator,  \* processes that take snapshots and restore them
    Absent,    \* no directory, no file
    Damaged    \* contents no digest was taken of

VARIABLES
    live,      \* the state root: what each database holds
    snapshot,  \* the directory at the snapshot destination
    restored,  \* the directory at the restore destination
    jobs       \* what each operator is doing, with its staging directory

vars == <<live, snapshot, restored, jobs>>

\* The run database: the requests that have a run.  The policy database: how
\* far the receipt of each request is.
Runs == SUBSET Request
Policies == [Request -> {"none", "available", "redeemed"}]
Name == {"runs", "policy"}

\* A directory with both databases and their manifest.
Copies == [runs : Runs, policy : Policies]
Directory == [files : [runs : Runs \cup {Damaged}, policy : Policies \cup {Damaged}],
              manifest : Copies]

ASSUME RecoveryAssumption == Absent # Damaged /\ Absent \notin Copies \cup Directory

DatabasesPolicyFirst == <<"policy", "runs">>
Databases == <<"runs", "policy">>

Idle == [op |-> "idle"]
NoFiles == [runs |-> Absent, policy |-> Absent]

-----------------------------------------------------------------------------
(* The engine goes on.                                                     *)

Consume(r) ==
    /\ live.policy[r] = "none"
    /\ live' = [live EXCEPT !.policy[r] = "available"]
    /\ UNCHANGED <<snapshot, restored, jobs>>

\* The receipt was available when create_run checked it, in a transaction before
\* this one: it may have been redeemed since.
CreateRun(r) ==
    /\ r \notin live.runs /\ live.policy[r] # "none"
    /\ live' = [live EXCEPT !.runs = @ \cup {r}]
    /\ UNCHANGED <<snapshot, restored, jobs>>

Redeem(r) ==
    /\ live.policy[r] = "available"
    /\ live' = [live EXCEPT !.policy[r] = "redeemed"]
    /\ UNCHANGED <<snapshot, restored, jobs>>

-----------------------------------------------------------------------------
(* create_snapshot.                                                        *)

SnapshotBegin(o) ==
    /\ jobs[o] = Idle
    /\ snapshot = Absent
    /\ jobs' = [jobs EXCEPT ![o] = [op |-> "snapshot", copied |-> 0, files |-> NoFiles, manifest |-> Absent]]
    /\ UNCHANGED <<live, snapshot, restored>>

\* SQLite's online backup: one database, as it is at one instant.
SnapshotCopy(o) ==
    /\ jobs[o].op = "snapshot" /\ jobs[o].copied < Len(Databases)
    /\ LET name == Databases[jobs[o].copied + 1] IN
       jobs' = [jobs EXCEPT ![o].copied = @ + 1, ![o].files[name] = live[name]]
    /\ UNCHANGED <<live, snapshot, restored>>

SnapshotManifest(o) ==
    /\ jobs[o].op = "snapshot" /\ jobs[o].copied = Len(Databases)
    /\ jobs[o].manifest = Absent
    /\ jobs' = [jobs EXCEPT ![o].manifest = jobs[o].files]
    /\ UNCHANGED <<live, snapshot, restored>>

PublishableEarly(o) == jobs[o].copied > 0
Publishable(o) == jobs[o].copied = Len(Databases) /\ jobs[o].manifest # Absent

VacantAlways(directory) == TRUE

\* Renaming a directory over another one that has members fails.
Vacant(directory) == directory = Absent

SnapshotPublish(o) ==
    /\ jobs[o].op = "snapshot" /\ Publishable(o)
    /\ Vacant(snapshot)
    /\ snapshot' = [files |-> jobs[o].files, manifest |-> jobs[o].manifest]
    /\ jobs' = [jobs EXCEPT ![o] = Idle]
    /\ UNCHANGED <<live, restored>>

-----------------------------------------------------------------------------
(* restore, which begins with inspect_snapshot.                            *)

Intact(files, manifest) == manifest # Absent /\ files = manifest

RestoreBegin(o) ==
    /\ jobs[o] = Idle
    /\ restored = Absent
    /\ snapshot # Absent /\ Intact(snapshot.files, snapshot.manifest)
    /\ jobs' = [jobs EXCEPT ![o] =
           [op |-> "restore", copied |-> 0, files |-> NoFiles, manifest |-> snapshot.manifest]]
    /\ UNCHANGED <<live, snapshot, restored>>

VerifiedAlways(copy, recorded) == TRUE

\* Each copy is checked again against the manifest that was inspected.
Verified(copy, recorded) == copy = recorded

RestoreCopy(o) ==
    /\ jobs[o].op = "restore" /\ jobs[o].copied < Len(Databases)
    /\ LET name == Databases[jobs[o].copied + 1] IN
       /\ Verified(snapshot.files[name], jobs[o].manifest[name])
       /\ jobs' = [jobs EXCEPT ![o].copied = @ + 1, ![o].files[name] = snapshot.files[name]]
    /\ UNCHANGED <<live, snapshot, restored>>

\* A restored root gets no manifest file: what is kept here as its manifest is
\* the one that was inspected.
RestorePublish(o) ==
    /\ jobs[o].op = "restore" /\ Publishable(o)
    /\ Vacant(restored)
    /\ restored' = [files |-> jobs[o].files, manifest |-> jobs[o].manifest]
    /\ jobs' = [jobs EXCEPT ![o] = Idle]
    /\ UNCHANGED <<live, snapshot>>

-----------------------------------------------------------------------------
\* Any check or system call of a snapshot or a restore fails: its staging
\* directory is removed.  A crash leaves it behind under its private name.
Ends(o) ==
    /\ jobs[o] # Idle
    /\ jobs' = [jobs EXCEPT ![o] = Idle]
    /\ UNCHANGED <<live, snapshot, restored>>

Damage(name) ==
    /\ snapshot # Absent
    /\ snapshot.files[name] # Damaged
    /\ snapshot' = [snapshot EXCEPT !.files[name] = Damaged]
    /\ UNCHANGED <<live, restored, jobs>>

Init ==
    /\ live = [runs |-> {}, policy |-> [r \in Request |-> "none"]]
    /\ snapshot = Absent /\ restored = Absent
    /\ jobs = [o \in Operator |-> Idle]

Next ==
    \/ \E r \in Request : Consume(r) \/ CreateRun(r) \/ Redeem(r)
    \/ \E o \in Operator :
          \/ SnapshotBegin(o) \/ SnapshotCopy(o) \/ SnapshotManifest(o) \/ SnapshotPublish(o)
          \/ RestoreBegin(o) \/ RestoreCopy(o) \/ RestorePublish(o)
          \/ Ends(o)
    \/ \E name \in Name : Damage(name)

Spec == Init /\ [][Next]_vars

-----------------------------------------------------------------------------
(* Properties.                                                             *)

Published == {d \in {snapshot, restored} : d # Absent}

\* What appears at a destination is whole: both databases and a manifest of
\* exactly their contents, save for damage done after.  Neither a crash nor a
\* failure at any step leaves part of a set there.
PublishedWhole ==
    \A d \in Published :
        /\ d.manifest # Absent
        /\ d.manifest.runs \in Runs /\ d.manifest.policy \in Policies
        /\ \A name \in Name : d.files[name] \in {d.manifest[name], Damaged}

\* The copies are of two instants, yet no recovered run lacks the authorization
\* it was created with: runs are copied first, and receipts are never taken back.
RunsExplained ==
    \A d \in Published :
        \A r \in d.manifest.runs : d.manifest.policy[r] # "none"

Authorized == INSTANCE AuthorizedRuns WITH runs <- live.runs, policy <- live.policy

\* Snapshots and restores leave the live databases to the engine.
LiveIsAuthorized == Authorized!Spec

\* A restored root holds the bytes of the snapshot that was inspected, whatever
\* happens to that snapshot between its inspection and its copying.
RestoreFaithful ==
    restored # Absent => restored.files = restored.manifest

\* A destination is written once: nothing replaces or merges what is there, even
\* with two operators at it.
NeverReplaced ==
    [][ /\ snapshot # Absent => snapshot' # Absent /\ snapshot'.manifest = snapshot.manifest
        /\ restored # Absent => restored' = restored ]_vars
=============================================================================
