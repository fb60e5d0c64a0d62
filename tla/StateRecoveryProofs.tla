------------------------ MODULE StateRecoveryProofs ------------------------
(***************************************************************************)
(* Whatever the engine, any number of operators, crashes and damage do, a  *)
(* published set of databases is whole and explains itself.  The argument  *)
(* follows a copy from the live database into a staging directory: once    *)
(* the runs are copied, the receipt of each of them is in the policy       *)
(* database already and stays there, so the later copy of it has it too.   *)
(***************************************************************************)
EXTENDS StateRecovery, TLAPS

\* Every run of a set of databases has its receipt.
Explained(runs, policy) == \A r \in runs : policy[r] # "none"

Whole(manifest) == manifest \in Copies /\ Explained(manifest.runs, manifest.policy)

LiveOK == live \in Copies /\ Explained(live.runs, live.policy)

Shaped(job) ==
  /\ job = [op |-> job.op, copied |-> job.copied, files |-> job.files, manifest |-> job.manifest]
  /\ job.files = [runs |-> job.files.runs, policy |-> job.files.policy]
  /\ job.copied \in 0 .. 2

\* A staged snapshot: the runs first, explained by the live policy database.
StagedSnapshot(job) ==
  /\ job.copied >= 1 => job.files.runs \in Runs /\ Explained(job.files.runs, live.policy)
  /\ job.copied = 2 => Whole(job.files)
  /\ job.manifest # Absent => job.copied = 2 /\ job.manifest = job.files

\* A staged restore: what was copied is what the inspected manifest records.
StagedRestore(job) ==
  /\ Whole(job.manifest)
  /\ job.copied >= 1 => job.files.runs = job.manifest.runs
  /\ job.copied = 2 => job.files.policy = job.manifest.policy

JobOK(job) ==
  \/ job = Idle
  \/ job.op = "snapshot" /\ Shaped(job) /\ StagedSnapshot(job)
  \/ job.op = "restore" /\ Shaped(job) /\ StagedRestore(job)

DirectoryOK(d) ==
  d # Absent => /\ d \in Directory /\ Whole(d.manifest)
                /\ \A name \in Name : d.files[name] \in {d.manifest[name], Damaged}

RecoveryInv ==
  /\ LiveOK
  /\ jobs = [o \in Operator |-> jobs[o]] /\ \A o \in Operator : JobOK(jobs[o])
  /\ DirectoryOK(snapshot)
  /\ DirectoryOK(restored) /\ RestoreFaithful

-----------------------------------------------------------------------------
LEMMA RecoveryInvInit == Init => RecoveryInv
<1>. SUFFICES ASSUME Init PROVE RecoveryInv
  OBVIOUS
<1>1. LiveOK
  BY DEF Init, LiveOK, Copies, Runs, Policies, Explained
<1>. QED BY <1>1 DEF Init, RecoveryInv, JobOK, DirectoryOK, RestoreFaithful

\* The engine never takes a receipt back, so what it explained it still explains.
LEMMA EngineStep ==
  ASSUME RecoveryInv, NEW r \in Request, Consume(r) \/ CreateRun(r) \/ Redeem(r)
  PROVE  RecoveryInv'
<1>1. UNCHANGED <<snapshot, restored, jobs>>
  BY DEF Consume, CreateRun, Redeem
<1>2. live.runs \in Runs /\ live.policy \in Policies
  BY DEF RecoveryInv, LiveOK, Copies
<1>3. /\ live' \in Copies
      /\ \A q \in Request : live.policy[q] # "none" => live'.policy[q] # "none"
      /\ \A q \in live'.runs : q \in live.runs \/ live'.policy[q] # "none"
  <2>1. CASE Consume(r)
    BY <1>2, <2>1 DEF Consume, RecoveryInv, LiveOK, Copies, Runs, Policies
  <2>2. CASE CreateRun(r)
    BY <1>2, <2>2 DEF CreateRun, RecoveryInv, LiveOK, Copies, Runs, Policies
  <2>3. CASE Redeem(r)
    BY <1>2, <2>3 DEF Redeem, RecoveryInv, LiveOK, Copies, Runs, Policies
  <2>. QED BY <2>1, <2>2, <2>3
<1>4. LiveOK'
  BY <1>2, <1>3 DEF RecoveryInv, LiveOK, Explained, Runs
<1>5. ASSUME NEW job, StagedSnapshot(job)
      PROVE  StagedSnapshot(job)'
  BY <1>3, <1>5 DEF StagedSnapshot, Explained, Runs
<1>6. \A o \in Operator : JobOK(jobs[o])'
  BY <1>1, <1>5 DEF RecoveryInv, JobOK
<1>. QED BY <1>1, <1>4, <1>6 DEF RecoveryInv, DirectoryOK, RestoreFaithful

-----------------------------------------------------------------------------
(* The operators.                                                          *)

\* One operator's job moves and nothing else does.
LEMMA JobMoves ==
  ASSUME RecoveryInv, NEW o \in Operator, NEW x, JobOK(x),
         jobs' = [jobs EXCEPT ![o] = x], UNCHANGED live
  PROVE  /\ LiveOK'
         /\ jobs' = [p \in Operator |-> jobs'[p]] /\ (\A p \in Operator : JobOK(jobs[p]))'
<1>1. LiveOK'
  BY DEF RecoveryInv, LiveOK
<1>2. \A p \in Operator : jobs'[p] = IF p = o THEN x ELSE jobs[p]
  BY DEF RecoveryInv
<1>3. jobs' = [p \in Operator |-> jobs'[p]]
  BY DEF RecoveryInv
<1>4. ASSUME NEW job, JobOK(job) PROVE JobOK(job)'
  BY <1>4 DEF JobOK, StagedSnapshot
<1>. QED BY <1>1, <1>2, <1>3, <1>4 DEF RecoveryInv

LEMMA StagingStep ==
  ASSUME RecoveryInv, NEW o \in Operator, NEW x, JobOK(x),
         jobs' = [jobs EXCEPT ![o] = x], UNCHANGED <<live, snapshot, restored>>
  PROVE  RecoveryInv'
BY JobMoves DEF RecoveryInv, DirectoryOK, RestoreFaithful

LEMMA BeginStep ==
  ASSUME RecoveryInv, NEW o \in Operator, SnapshotBegin(o) \/ RestoreBegin(o) \/ Ends(o)
  PROVE  RecoveryInv'
<1>1. CASE SnapshotBegin(o)
  <2>. DEFINE x == [op |-> "snapshot", copied |-> 0, files |-> NoFiles, manifest |-> Absent]
  <2>1. JobOK(x)
    BY DEF JobOK, Shaped, StagedSnapshot, NoFiles
  <2>. QED BY <1>1, <2>1, StagingStep DEF SnapshotBegin
<1>2. CASE RestoreBegin(o)
  <2>. DEFINE x == [op |-> "restore", copied |-> 0, files |-> NoFiles, manifest |-> snapshot.manifest]
  <2>1. JobOK(x)
    BY <1>2 DEF JobOK, Shaped, StagedRestore, NoFiles, RestoreBegin, RecoveryInv, DirectoryOK
  <2>. QED BY <1>2, <2>1, StagingStep DEF RestoreBegin
<1>3. CASE Ends(o)
  <2>1. JobOK(Idle)
    BY DEF JobOK
  <2>. QED BY <1>3, <2>1, StagingStep DEF Ends
<1>. QED BY <1>1, <1>2, <1>3

LEMMA JobsFunction ==
  RecoveryInv => jobs = [o \in Operator |-> jobs[o]]
BY DEF RecoveryInv

\* The fields of a job under way.
LEMMA SnapshotJob ==
  ASSUME RecoveryInv, NEW o \in Operator, jobs[o].op = "snapshot"
  PROVE  Shaped(jobs[o]) /\ StagedSnapshot(jobs[o])
BY DEF RecoveryInv, JobOK, Idle

LEMMA RestoreJob ==
  ASSUME RecoveryInv, NEW o \in Operator, jobs[o].op = "restore"
  PROVE  Shaped(jobs[o]) /\ StagedRestore(jobs[o])
BY DEF RecoveryInv, JobOK, Idle

\* A copy into a staging directory, field by field.
LEMMA FilesReplaced ==
  ASSUME NEW job, NEW c, NEW value, Shaped(job)
  PROVE  [job EXCEPT !.copied = c, !.files = value]
           = [op |-> job.op, copied |-> c, files |-> value, manifest |-> job.manifest]
<1>1. PICK j : j = [job EXCEPT !.copied = c]
  OBVIOUS
<1>2. j = [op |-> job.op, copied |-> c, files |-> job.files, manifest |-> job.manifest]
  BY <1>1 DEF Shaped
<1>3. [j EXCEPT !.files = value]
         = [op |-> job.op, copied |-> c, files |-> value, manifest |-> job.manifest]
  BY <1>2
<1>4. [job EXCEPT !.copied = c, !.files = value] = [j EXCEPT !.files = value]
  BY <1>1, Zenon
<1>. QED BY <1>3, <1>4

\* What a copying step makes of the jobs, and the job it leaves.
Copied(o, name, value) == [jobs EXCEPT ![o].copied = @ + 1, ![o].files[name] = value]
After(job, files) ==
  [op |-> job.op, copied |-> job.copied + 1, files |-> files, manifest |-> job.manifest]

LEMMA FileCopied ==
  ASSUME RecoveryInv, NEW o \in Operator, Shaped(jobs[o]), NEW name, NEW value
  PROVE  Copied(o, name, value)
           = [jobs EXCEPT ![o] = After(jobs[o], [jobs[o].files EXCEPT ![name] = value])]
<1>. DEFINE job == jobs[o]
            c == job.copied + 1
<1>1. Copied(o, name, value) = [jobs EXCEPT ![o] = [job EXCEPT !.copied = c, !.files[name] = value]]
  BY JobsFunction DEF Copied
<1>2. [job EXCEPT !.copied = c, !.files[name] = value]
         = [job EXCEPT !.copied = c, !.files = [job.files EXCEPT ![name] = value]]
  BY DEF Shaped
<1>3. [job EXCEPT !.copied = c, !.files = [job.files EXCEPT ![name] = value]]
         = After(job, [job.files EXCEPT ![name] = value])
  BY FilesReplaced, Zenon DEF After
<1>. QED BY <1>1, <1>2, <1>3, Zenon

\* The order of _DATABASES.
LEMMA RunsFirst == Databases[1] = "runs" /\ Databases[2] = "policy" /\ Len(Databases) = 2
BY DEF Databases

LEMMA RunsReplaced ==
  ASSUME NEW files, files = [runs |-> files.runs, policy |-> files.policy], NEW value
  PROVE  [files EXCEPT !.runs = value] = [runs |-> value, policy |-> files.policy]
OBVIOUS

LEMMA PolicyReplaced ==
  ASSUME NEW files, files = [runs |-> files.runs, policy |-> files.policy], NEW value
  PROVE  [files EXCEPT !.policy = value] = [runs |-> files.runs, policy |-> value]
OBVIOUS

\* The online backup.  The runs copied first are explained by the policy
\* database of that moment, and then by the copy of it.
LEMMA SnapshotCopyStep ==
  ASSUME RecoveryInv, NEW o \in Operator, SnapshotCopy(o)
  PROVE  RecoveryInv'
<1>. DEFINE job == jobs[o]
<1>1. Shaped(job) /\ StagedSnapshot(job) /\ job.op = "snapshot"
  BY SnapshotJob DEF SnapshotCopy
<1>2. LiveOK /\ job.copied \in {0, 1} /\ job.manifest = Absent
  BY <1>1 DEF SnapshotCopy, Databases, Shaped, StagedSnapshot, RecoveryInv
<1>3. CASE job.copied = 0
  <2>. DEFINE files == [runs |-> live.runs, policy |-> job.files.policy]
  <2>1. jobs' = [jobs EXCEPT ![o] = After(job, files)]
    <3>. DEFINE name == Databases[job.copied + 1]
    <3>1. jobs' = Copied(o, name, live[name])
      BY DEF SnapshotCopy, Copied
    <3>2. name = "runs"
      BY <1>3, RunsFirst
    <3>3. \A n, v : Copied(o, n, v) = [jobs EXCEPT ![o] = After(job, [job.files EXCEPT ![n] = v])]
      BY <1>1, FileCopied
    <3>4. [job.files EXCEPT ![name] = live[name]] = files
      BY <1>1, <3>2, RunsReplaced DEF Shaped
    <3>. HIDE DEF name, files
    <3>. QED BY <3>1, <3>3, <3>4
  <2>2. JobOK(After(job, files))
    BY <1>1, <1>2, <1>3 DEF After, JobOK, Shaped, StagedSnapshot, LiveOK, Copies
  <2>. QED BY <2>1, <2>2, StagingStep DEF SnapshotCopy
<1>4. CASE job.copied = 1
  <2>. DEFINE files == [runs |-> job.files.runs, policy |-> live.policy]
  <2>1. jobs' = [jobs EXCEPT ![o] = After(job, files)]
    <3>. DEFINE name == Databases[job.copied + 1]
    <3>1. jobs' = Copied(o, name, live[name])
      BY DEF SnapshotCopy, Copied
    <3>2. name = "policy"
      BY <1>4, RunsFirst
    <3>3. \A n, v : Copied(o, n, v) = [jobs EXCEPT ![o] = After(job, [job.files EXCEPT ![n] = v])]
      BY <1>1, FileCopied
    <3>4. [job.files EXCEPT ![name] = live[name]] = files
      BY <1>1, <3>2, PolicyReplaced DEF Shaped
    <3>. HIDE DEF name, files
    <3>. QED BY <3>1, <3>3, <3>4
  <2>2. Whole(files)
    BY <1>1, <1>2, <1>4 DEF StagedSnapshot, LiveOK, Copies, Whole
  <2>3. JobOK(After(job, files))
    BY <1>1, <1>2, <1>4, <2>2 DEF After, JobOK, Shaped, StagedSnapshot
  <2>. QED BY <2>1, <2>3, StagingStep DEF SnapshotCopy
<1>. QED BY <1>2, <1>3, <1>4

LEMMA SnapshotManifestStep ==
  ASSUME RecoveryInv, NEW o \in Operator, SnapshotManifest(o)
  PROVE  RecoveryInv'
<1>. DEFINE job == jobs[o]
            x == [op |-> "snapshot", copied |-> 2, files |-> job.files, manifest |-> job.files]
<1>1. Shaped(job) /\ StagedSnapshot(job) /\ job.op = "snapshot" /\ job.copied = 2
  BY SnapshotJob DEF SnapshotManifest, Databases
<1>2. jobs' = [jobs EXCEPT ![o] = x]
  <2>1. jobs' = [jobs EXCEPT ![o] = [job EXCEPT !.manifest = job.files]]
    BY DEF SnapshotManifest
  <2>2. [job EXCEPT !.manifest = job.files] = x
    BY <1>1 DEF Shaped
  <2>. QED BY <2>1, <2>2
<1>3. JobOK(x)
  BY <1>1 DEF JobOK, Shaped, StagedSnapshot
<1>. QED BY <1>2, <1>3, StagingStep DEF SnapshotManifest

\* A copy of a restore that was verified is the inspected one.
LEMMA RestoreCopyStep ==
  ASSUME RecoveryInv, NEW o \in Operator, RestoreCopy(o)
  PROVE  RecoveryInv'
<1>. DEFINE job == jobs[o]
<1>1. Shaped(job) /\ StagedRestore(job) /\ job.op = "restore" /\ job.copied \in {0, 1}
  BY RestoreJob DEF RestoreCopy, Databases, Shaped
<1>2. CASE job.copied = 0
  <2>. DEFINE files == [runs |-> snapshot.files.runs, policy |-> job.files.policy]
  <2>1. jobs' = [jobs EXCEPT ![o] = After(job, files)] /\ snapshot.files.runs = job.manifest.runs
    <3>. DEFINE name == Databases[job.copied + 1]
    <3>1. /\ jobs' = Copied(o, name, snapshot.files[name])
          /\ snapshot.files[name] = job.manifest[name]
      BY DEF RestoreCopy, Verified, Copied
    <3>2. name = "runs"
      BY <1>2, RunsFirst
    <3>3. \A n, v : Copied(o, n, v) = [jobs EXCEPT ![o] = After(job, [job.files EXCEPT ![n] = v])]
      BY <1>1, FileCopied
    <3>4. [job.files EXCEPT ![name] = snapshot.files[name]] = files
      BY <1>1, <3>2, RunsReplaced DEF Shaped
    <3>. QED BY <3>1, <3>2, <3>3, <3>4
  <2>2. JobOK(After(job, files))
    BY <1>1, <1>2, <2>1 DEF After, JobOK, Shaped, StagedRestore
  <2>. QED BY <2>1, <2>2, StagingStep DEF RestoreCopy
<1>3. CASE job.copied = 1
  <2>. DEFINE files == [runs |-> job.files.runs, policy |-> snapshot.files.policy]
  <2>1. jobs' = [jobs EXCEPT ![o] = After(job, files)] /\ snapshot.files.policy = job.manifest.policy
    <3>. DEFINE name == Databases[job.copied + 1]
    <3>1. /\ jobs' = Copied(o, name, snapshot.files[name])
          /\ snapshot.files[name] = job.manifest[name]
      BY DEF RestoreCopy, Verified, Copied
    <3>2. name = "policy"
      BY <1>3, RunsFirst
    <3>3. \A n, v : Copied(o, n, v) = [jobs EXCEPT ![o] = After(job, [job.files EXCEPT ![n] = v])]
      BY <1>1, FileCopied
    <3>4. [job.files EXCEPT ![name] = snapshot.files[name]] = files
      BY <1>1, <3>2, PolicyReplaced DEF Shaped
    <3>. QED BY <3>1, <3>2, <3>3, <3>4
  <2>2. JobOK(After(job, files))
    BY <1>1, <1>3, <2>1 DEF After, JobOK, Shaped, StagedRestore
  <2>. QED BY <2>1, <2>2, StagingStep DEF RestoreCopy
<1>. QED BY <1>1, <1>2, <1>3

\* What is renamed to a destination is complete, and is a directory.
LEMMA PublishStep ==
  ASSUME RecoveryInv, NEW o \in Operator, SnapshotPublish(o) \/ RestorePublish(o)
  PROVE  RecoveryInv'
<1>. DEFINE job == jobs[o]
            d == [files |-> job.files, manifest |-> job.manifest]
<1>1. Shaped(job) /\ job.copied = 2 /\ job.files = job.manifest /\ Whole(job.manifest)
  <2>1. CASE SnapshotPublish(o)
    BY <2>1, SnapshotJob DEF SnapshotPublish, Publishable, Databases, StagedSnapshot
  <2>2. CASE RestorePublish(o)
    BY <2>2, RestoreJob DEF RestorePublish, Publishable, Databases, Shaped, StagedRestore, Whole, Copies
  <2>. QED BY <2>1, <2>2
<1>2. d \in Directory /\ Whole(d.manifest) /\ d.files = d.manifest
  BY <1>1 DEF Directory, Whole, Copies
<1>3. JobOK(Idle)
  BY DEF JobOK
<1>4. DirectoryOK(d)
  BY <1>2 DEF DirectoryOK
<1>. HIDE DEF d
<1>5. CASE SnapshotPublish(o)
  <2>1. snapshot' = d /\ jobs' = [jobs EXCEPT ![o] = Idle] /\ UNCHANGED <<live, restored>>
    BY <1>5 DEF SnapshotPublish, d
  <2>. QED BY <2>1, <1>3, <1>4, JobMoves DEF RecoveryInv, DirectoryOK, RestoreFaithful
<1>6. CASE RestorePublish(o)
  <2>1. restored' = d /\ jobs' = [jobs EXCEPT ![o] = Idle] /\ UNCHANGED <<live, snapshot>>
    BY <1>6 DEF RestorePublish, d
  <2>. QED BY <2>1, <1>2, <1>3, <1>4, JobMoves DEF RecoveryInv, DirectoryOK, RestoreFaithful
<1>. QED BY <1>5, <1>6

\* Damage to a file of a snapshot leaves its manifest alone.
LEMMA DamagedSnapshot ==
  ASSUME RecoveryInv, NEW name \in Name, Damage(name)
  PROVE  /\ snapshot # Absent /\ snapshot' \in Directory
         /\ snapshot'.manifest = snapshot.manifest
         /\ \A n \in Name : snapshot'.files[n] \in {snapshot.files[n], Damaged}
<1>1. snapshot # Absent /\ snapshot \in Directory
  BY DEF Damage, RecoveryInv, DirectoryOK
<1>2. CASE name = "runs"
  BY <1>1, <1>2 DEF Damage, Directory, Copies, Name
<1>3. CASE name = "policy"
  BY <1>1, <1>3 DEF Damage, Directory, Copies, Name
<1>. QED BY <1>1, <1>2, <1>3 DEF Name

LEMMA DamageStep ==
  ASSUME RecoveryInv, NEW name \in Name, Damage(name)
  PROVE  RecoveryInv'
<1>1. UNCHANGED <<live, restored, jobs>>
  BY DEF Damage
<1>2. DirectoryOK(snapshot)'
  BY DamagedSnapshot DEF RecoveryInv, DirectoryOK
<1>3. ASSUME NEW job, JobOK(job) PROVE JobOK(job)'
  BY <1>1, <1>3 DEF JobOK, StagedSnapshot
<1>. QED BY <1>1, <1>2, <1>3 DEF RecoveryInv, LiveOK, DirectoryOK, RestoreFaithful

-----------------------------------------------------------------------------
LEMMA RecoveryInvStep == RecoveryInv /\ [Next]_vars => RecoveryInv'
<1>. SUFFICES ASSUME RecoveryInv, [Next]_vars PROVE RecoveryInv'
  OBVIOUS
<1>1. ASSUME NEW r \in Request, Consume(r) \/ CreateRun(r) \/ Redeem(r) PROVE RecoveryInv'
  BY <1>1, EngineStep
<1>2. ASSUME NEW o \in Operator, SnapshotBegin(o) \/ RestoreBegin(o) \/ Ends(o) PROVE RecoveryInv'
  BY <1>2, BeginStep
<1>3. ASSUME NEW o \in Operator, SnapshotCopy(o) \/ SnapshotManifest(o) \/ RestoreCopy(o)
      PROVE  RecoveryInv'
  BY <1>3, SnapshotCopyStep, SnapshotManifestStep, RestoreCopyStep
<1>4. ASSUME NEW o \in Operator, SnapshotPublish(o) \/ RestorePublish(o) PROVE RecoveryInv'
  BY <1>4, PublishStep
<1>5. ASSUME NEW name \in Name, Damage(name) PROVE RecoveryInv'
  BY <1>5, DamageStep
<1>6. CASE UNCHANGED vars
  <2>1. ASSUME NEW job, JobOK(job) PROVE JobOK(job)'
    BY <1>6, <2>1 DEF vars, JobOK, StagedSnapshot
  <2>. QED BY <1>6, <2>1 DEF vars, RecoveryInv, LiveOK, DirectoryOK, RestoreFaithful
<1>. QED BY <1>1, <1>2, <1>3, <1>4, <1>5, <1>6 DEF Next

\* A destination that is taken stays taken.
LEMMA ReplacementStep ==
  RecoveryInv /\ [Next]_vars =>
     [/\ snapshot # Absent => snapshot' # Absent /\ snapshot'.manifest = snapshot.manifest
      /\ restored # Absent => restored' = restored]_vars
<1>. SUFFICES ASSUME RecoveryInv, Next
              PROVE  /\ snapshot # Absent => snapshot' # Absent /\ snapshot'.manifest = snapshot.manifest
                     /\ restored # Absent => restored' = restored
  OBVIOUS
<1>1. ASSUME NEW r \in Request, Consume(r) \/ CreateRun(r) \/ Redeem(r)
      PROVE  UNCHANGED <<snapshot, restored>>
  BY <1>1 DEF Consume, CreateRun, Redeem
<1>2. ASSUME NEW o \in Operator,
             \/ SnapshotBegin(o) \/ RestoreBegin(o) \/ Ends(o)
             \/ SnapshotCopy(o) \/ SnapshotManifest(o) \/ RestoreCopy(o)
      PROVE  UNCHANGED <<snapshot, restored>>
  BY <1>2 DEF SnapshotBegin, RestoreBegin, Ends, SnapshotCopy, SnapshotManifest, RestoreCopy
<1>3. ASSUME NEW o \in Operator, SnapshotPublish(o)
      PROVE  snapshot = Absent /\ UNCHANGED restored
  BY <1>3 DEF SnapshotPublish, Vacant
<1>4. ASSUME NEW o \in Operator, RestorePublish(o)
      PROVE  restored = Absent /\ UNCHANGED snapshot
  BY <1>4 DEF RestorePublish, Vacant
<1>5. ASSUME NEW name \in Name, Damage(name)
      PROVE  /\ snapshot' # Absent /\ snapshot'.manifest = snapshot.manifest
             /\ UNCHANGED restored
  BY <1>5, DamagedSnapshot, RecoveryAssumption DEF Damage
<1>. QED BY <1>1, <1>2, <1>3, <1>4, <1>5 DEF Next

-----------------------------------------------------------------------------
(* Neither a crash nor a failure leaves part of a set at a destination.    *)
THEOREM PublishedSetsWhole == Spec => []PublishedWhole
<1>1. RecoveryInv => PublishedWhole
  BY RecoveryAssumption DEF RecoveryInv, DirectoryOK, Whole, Copies, PublishedWhole, Published
<1>. QED BY <1>1, RecoveryInvInit, RecoveryInvStep, PTL DEF Spec

(* For any number of requests and any interleaving with the engine, no     *)
(* recovered run lacks the receipt it was created with.                    *)
THEOREM RecoveredRunsExplained == Spec => []RunsExplained
<1>1. RecoveryInv => RunsExplained
  BY DEF RecoveryInv, DirectoryOK, Whole, Explained, RunsExplained, Published
<1>. QED BY <1>1, RecoveryInvInit, RecoveryInvStep, PTL DEF Spec

(* A restored root holds what was inspected, whatever damage the snapshot  *)
(* took between its inspection and its copying.                            *)
THEOREM RestoredFaithfully == Spec => []RestoreFaithful
<1>1. RecoveryInv => RestoreFaithful
  BY DEF RecoveryInv
<1>. QED BY <1>1, RecoveryInvInit, RecoveryInvStep, PTL DEF Spec

(* Nothing that was published is ever replaced.                            *)
THEOREM PublishedNeverReplaced == Spec => NeverReplaced
<1>. QED BY RecoveryInvInit, RecoveryInvStep, ReplacementStep, PTL DEF Spec, NeverReplaced

-----------------------------------------------------------------------------
(* The engine that is copied is the one the run store implements.          *)

LEMMA OperatorsLeaveLive ==
  ASSUME [Next]_vars, \A r \in Request : ~Consume(r) /\ ~CreateRun(r) /\ ~Redeem(r)
  PROVE  live' = live
BY DEF Next, SnapshotBegin, SnapshotCopy, SnapshotManifest, SnapshotPublish, RestoreBegin, RestoreCopy,
       RestorePublish, Ends, Damage, vars

\* No snapshot, restore, failure or crash changes the live databases, and the
\* engine beside them does what AuthorizedRuns says and no more.
THEOREM LiveAlwaysAuthorized == Spec => LiveIsAuthorized
<1>1. Init => Authorized!Init
  BY DEF Init, Authorized!Init
<1>2. RecoveryInv /\ [Next]_vars => [Authorized!Next]_<<live.runs, live.policy>>
  <2>. SUFFICES ASSUME RecoveryInv, [Next]_vars PROVE [Authorized!Next]_<<live.runs, live.policy>>
    OBVIOUS
  <2>1. live = [runs |-> live.runs, policy |-> live.policy]
    BY DEF RecoveryInv, LiveOK, Copies
  <2>2. ASSUME NEW r \in Request, Consume(r) PROVE Authorized!Consume(r)
    BY <2>1, <2>2 DEF Consume, Authorized!Consume
  <2>3. ASSUME NEW r \in Request, CreateRun(r) PROVE Authorized!CreateRun(r)
    BY <2>1, <2>3 DEF CreateRun, Authorized!CreateRun
  <2>4. ASSUME NEW r \in Request, Redeem(r) PROVE Authorized!Redeem(r)
    BY <2>1, <2>4 DEF Redeem, Authorized!Redeem
  <2>5. CASE \A r \in Request : ~Consume(r) /\ ~CreateRun(r) /\ ~Redeem(r)
    BY <2>5, OperatorsLeaveLive
  <2>. QED BY <2>2, <2>3, <2>4, <2>5 DEF Authorized!Next
<1>. QED BY <1>1, <1>2, RecoveryInvInit, RecoveryInvStep, PTL DEF Spec, LiveIsAuthorized, Authorized!Spec
=============================================================================
