------------------------------ MODULE RunStore ------------------------------
(***************************************************************************)
(* Durable runs and artifacts (runs.py).  Workers are processes or threads *)
(* that share the run database; a method's transaction is one step, and    *)
(* what it reads before it, the receipt of create_run and the bytes of     *)
(* attach_artifact, are steps of their own that others come between.       *)
(***************************************************************************)
EXTENDS Integers, FiniteSets, Sequences

CONSTANTS
    Worker,
    Creation,     \* identities a run is created with: [request, owner, effectful]
    Path,         \* artifact paths beneath the artifact root
    Content,      \* what the file at a path may hold: [size, digest]
    Provenance,   \* provenance references
    MaxSequence,  \* bound on a run's sequence number
    MaxTime       \* request -> bound on the timestamps callers pass for its run

ASSUME RunStoreAssumption ==
    /\ \A c \in Creation : c.effectful \in BOOLEAN
    /\ \A c \in Content : c.size \in Nat
    /\ MaxSequence \in Nat /\ MaxTime \in [{c.request : c \in Creation} -> Nat]

VARIABLES
    runs,       \* table runs: request -> [creation, record]
    events,     \* table run_events: request -> its records in sequence order
    provenance, \* table provenance: reference -> [owner, activity]
    artifacts,  \* table artifacts
    receipts,   \* what the policy database holds for each effectful creation
    files,      \* the bytes beneath the artifact root
    jobs,       \* the call each worker is in
    updates     \* history: run -> sequence -> updates of it acknowledged, up to 2

vars == <<runs, events, provenance, artifacts, receipts, files, jobs, updates>>

Request == {c.request : c \in Creation}
Owner == {c.owner : c \in Creation}
Time(r) == 0 .. MaxTime[r]
RunState == {"queued", "running", "succeeded", "failed", "cancelled"}
Terminal == {"succeeded", "failed", "cancelled"}
ReceiptState == {"absent", "available", "closed"}

Artifact == [run : Request, path : Path, owner : Owner, provenance : Provenance,
             size : {c.size : c \in Content}, digest : {c.digest : c \in Content}]
Record == [state : RunState, sequence : 0 .. MaxSequence, updated : UNION {Time(r) : r \in Request},
           artifacts : SUBSET Artifact]
Idle == [op |-> "idle"]
Job ==
    [op : {"idle"}] \cup [op : {"denied"}, creation : Creation]
    \cup [op : {"create"}, creation : Creation]
    \cup [op : {"hash"}, path : Path, size : {c.size : c \in Content}]
    \cup [op : {"attach"}, path : Path, size : {c.size : c \in Content},
          digest : {c.digest : c \in Content}]

With(f, x, value) == [y \in DOMAIN f \cup {x} |-> IF y = x THEN value ELSE f[y]]

-----------------------------------------------------------------------------
(* create_run.                                                             *)

VerifiedAlways(c) == TRUE

\* verify_run_receipt: R0 and R1 runs need none, others an available receipt.
Verified(c) == c.effectful => receipts[c] = "available"

\* The receipt is verified in the policy database, under the policy engine's
\* lock, which is given up again before the run database is touched.
CreateVerify(w, c) ==
    /\ jobs[w].op \in {"idle", "denied"}
    /\ Verified(c)
    /\ jobs' = [jobs EXCEPT ![w] = [op |-> "create", creation |-> c]]
    /\ UNCHANGED <<runs, events, provenance, artifacts, receipts, files, updates>>

CreateDenied(w, c) ==
    /\ jobs[w].op \in {"idle", "denied"}
    /\ ~Verified(c)
    /\ jobs' = [jobs EXCEPT ![w] = [op |-> "denied", creation |-> c]]
    /\ UNCHANGED <<runs, events, provenance, artifacts, receipts, files, updates>>

Queued(time) == [state |-> "queued", sequence |-> 0, updated |-> time, artifacts |-> {}]

CreateInsert(w, r, time) ==
    LET record == Queued(time) IN
    /\ jobs[w].op = "create" /\ jobs[w].creation.request = r
    /\ r \notin DOMAIN runs
    /\ runs' = With(runs, r, [creation |-> jobs[w].creation, record |-> record])
    /\ events' = With(events, r, <<record>>)
    /\ jobs' = [jobs EXCEPT ![w] = Idle]
    /\ UNCHANGED <<provenance, artifacts, receipts, files, updates>>

\* The request is known: the same identity is answered with the run as it now
\* is, another one with a conflict; neither writes.
CreateExisting(w) ==
    /\ jobs[w].op = "create"
    /\ jobs[w].creation.request \in DOMAIN runs
    /\ jobs' = [jobs EXCEPT ![w] = Idle]
    /\ UNCHANGED <<runs, events, provenance, artifacts, receipts, files, updates>>

-----------------------------------------------------------------------------
(* transition, and cancel, which is transition to cancelled.               *)

CurrentUnread(r, expected) == TRUE
Current(r, expected) == runs[r].record.sequence = expected

AllowedDone(state) == {"running", "succeeded", "failed", "cancelled"}

\* The states a run that is not terminal may move to.
Allowed(state) ==
    IF state = "queued" THEN {"running", "failed", "cancelled"}
                        ELSE {"running", "succeeded", "failed", "cancelled"}

StoresRowOnly(r, record) ==
    /\ runs' = [runs EXCEPT ![r].record = record]
    /\ events' = events

\* The row is updated and its event appended in one transaction.
Stores(r, record) ==
    /\ runs' = [runs EXCEPT ![r].record = record]
    /\ events' = [events EXCEPT ![r] = Append(@, record)]

\* The record that follows the current one.
Successor(r, state, time, attached) ==
    [state |-> state, sequence |-> runs[r].record.sequence + 1, updated |-> time,
     artifacts |-> attached]

Acknowledged(r, expected) ==
    updates' = [updates EXCEPT ![r][expected] = IF @ < 2 THEN @ + 1 ELSE @]

Transition(w, r, owner, expected, state, time) ==
    /\ jobs[w].op \in {"idle", "denied"}
    /\ r \in DOMAIN runs /\ runs[r].creation.owner = owner
    /\ Current(r, expected)
    /\ runs[r].record.state \notin Terminal
    /\ state \in Allowed(runs[r].record.state)
    /\ time >= runs[r].record.updated
    /\ runs[r].record.sequence < MaxSequence
    /\ Stores(r, Successor(r, state, time, runs[r].record.artifacts))
    /\ Acknowledged(r, expected)
    /\ UNCHANGED <<provenance, artifacts, receipts, files, jobs>>

-----------------------------------------------------------------------------
(* attach_artifact.                                                        *)

\* The size and then the bytes are read, with no lock and no transaction.
AttachStat(w, path) ==
    /\ jobs[w].op \in {"idle", "denied"}
    /\ jobs' = [jobs EXCEPT ![w] = [op |-> "hash", path |-> path, size |-> files[path].size]]
    /\ UNCHANGED <<runs, events, provenance, artifacts, receipts, files, updates>>

AttachHash(w) ==
    /\ jobs[w].op = "hash"
    /\ jobs' = [jobs EXCEPT ![w] =
           [op |-> "attach", path |-> @.path, size |-> @.size, digest |-> files[@.path].digest]]
    /\ UNCHANGED <<runs, events, provenance, artifacts, receipts, files, updates>>

ReusableAlways(reference, owner, r) == TRUE

\* A provenance reference may come again only with the document and the owner
\* it first came with; the document names the run as its activity.
Reusable(reference, owner, r) ==
    reference \in DOMAIN provenance => provenance[reference] = [owner |-> owner, activity |-> r]

\* The rows' keys: an artifact reference, and a path within a run, only once.
Fresh(a) ==
    \A b \in artifacts :
        /\ <<a.run, a.path, a.digest, a.provenance>> # <<b.run, b.path, b.digest, b.provenance>>
        /\ <<a.run, a.path>> # <<b.run, b.path>>

AttachCommit(w, r, owner, expected, reference, time) ==
    LET job == jobs[w]
        artifact == [run |-> r, path |-> job.path, owner |-> owner, provenance |-> reference,
                     size |-> job.size, digest |-> job.digest] IN
    /\ job.op = "attach"
    /\ r \in DOMAIN runs /\ runs[r].creation.owner = owner
    /\ Current(r, expected)
    /\ runs[r].record.state = "running"
    /\ Reusable(reference, owner, r)
    /\ Fresh(artifact)
    /\ time >= runs[r].record.updated
    /\ expected < MaxSequence
    /\ provenance' = IF reference \in DOMAIN provenance THEN provenance
                       ELSE With(provenance, reference, [owner |-> owner, activity |-> r])
    /\ artifacts' = artifacts \cup {artifact}
    /\ Stores(r, Successor(r, "running", time, runs[r].record.artifacts \cup {artifact}))
    /\ Acknowledged(r, expected)
    /\ jobs' = [jobs EXCEPT ![w] = Idle]
    /\ UNCHANGED <<receipts, files>>

\* Any check of the transaction fails and it is rolled back.
AttachRefused(w) ==
    /\ jobs[w].op = "attach"
    /\ jobs' = [jobs EXCEPT ![w] = Idle]
    /\ UNCHANGED <<runs, events, provenance, artifacts, receipts, files, updates>>

-----------------------------------------------------------------------------
(* The surroundings: the policy engine consumes a grant into a receipt and *)
(* redeems it, a handler writes artifact bytes, the process dies.          *)

ReceiptMoves(c) ==
    /\ c.effectful
    /\ receipts[c] # "closed"
    /\ receipts' = [receipts EXCEPT ![c] = IF @ = "absent" THEN "available" ELSE "closed"]
    /\ UNCHANGED <<runs, events, provenance, artifacts, files, jobs, updates>>

FileWritten(path, content) ==
    /\ files[path] # content
    /\ files' = [files EXCEPT ![path] = content]
    /\ UNCHANGED <<runs, events, provenance, artifacts, receipts, jobs, updates>>

Crash ==
    /\ jobs' = [w \in Worker |-> Idle]
    /\ UNCHANGED <<runs, events, provenance, artifacts, receipts, files, updates>>

-----------------------------------------------------------------------------
Init ==
    /\ runs = <<>> /\ events = <<>>
    /\ provenance = <<>> /\ artifacts = {}
    /\ receipts = [c \in Creation |-> "absent"]
    /\ files \in [Path -> Content]
    /\ jobs = [w \in Worker |-> Idle]
    /\ updates = [r \in Request |-> [n \in 0 .. MaxSequence |-> 0]]

Creates(w) ==
    \/ \E c \in Creation : CreateDenied(w, c) \/ CreateVerify(w, c)
    \/ \E r \in Request : \E time \in Time(r) : CreateInsert(w, r, time)
    \/ CreateExisting(w)

Updates(w) ==
    \/ \E path \in Path : AttachStat(w, path)
    \/ AttachHash(w) \/ AttachRefused(w)
    \/ \E r \in Request, owner \in Owner, expected \in 0 .. MaxSequence : \E time \in Time(r) :
          \/ \E state \in RunState \cup Allowed("queued") : Transition(w, r, owner, expected, state, time)
          \/ \E reference \in Provenance : AttachCommit(w, r, owner, expected, reference, time)

Next ==
    \/ \E w \in Worker : Creates(w) \/ Updates(w)
    \/ \E c \in Creation : ReceiptMoves(c)
    \/ \E path \in Path, content \in Content : FileWritten(path, content)
    \/ Crash

Spec == Init /\ [][Next]_vars

-----------------------------------------------------------------------------
(* Properties.                                                             *)

\* deltas and latest tell one story: a run's events are numbered from 0 without
\* a gap, their times never go back, their artifacts only grow, and the last of
\* them is the row.  A caller that reconnects from any sequence misses nothing.
HistoryComplete ==
    \A r \in DOMAIN runs :
        LET log == events[r] IN
        /\ log[Len(log)] = runs[r].record
        /\ \A i \in 1 .. Len(log) : log[i].sequence = i - 1
        /\ \A i \in 2 .. Len(log) :
              log[i - 1].updated <= log[i].updated /\ log[i - 1].artifacts \subseteq log[i].artifacts

\* Optimistic concurrency: of all the updates that workers base on one sequence
\* number of a run, at most one is acknowledged.
UpdateWonOnce ==
    \A r \in Request, expected \in 0 .. MaxSequence : updates[r][expected] <= 1

\* The artifact rows, the run's record and the provenance rows agree: a record
\* lists exactly its run's artifacts, and each belongs to the run's owner and has
\* a provenance that names this run and this owner.
ArtifactsBelong ==
    /\ \A r \in DOMAIN runs : runs[r].record.artifacts = {a \in artifacts : a.run = r}
    /\ \A a \in artifacts :
          /\ a.run \in DOMAIN runs /\ runs[a.run].creation.owner = a.owner
          /\ a.provenance \in DOMAIN provenance
          /\ provenance[a.provenance] = [owner |-> a.owner, activity |-> a.run]

\* An effectful run exists only where its own authorization was consumed,
\* whatever happened to the receipt between its check and the insert.
RunsHoldReceipts ==
    \A r \in DOMAIN runs : runs[r].creation.effectful => receipts[runs[r].creation] # "absent"

Effectful == {c \in Creation : c.effectful}
Stage == [absent |-> "none", available |-> "available", closed |-> "redeemed"]
Authorized == INSTANCE AuthorizedRuns WITH
    Request <- Effectful,
    runs <- {runs[r].creation : r \in DOMAIN runs} \cap Effectful,
    policy <- [c \in Effectful |-> Stage[receipts[c]]]

\* Run by run and receipt by receipt, the two databases change as whoever copies
\* them takes for granted: StateRecovery's engine is this one.
ImplementsAuthorized == Authorized!Spec

Journal == INSTANCE RunJournal WITH
    journal <- [r \in DOMAIN events |-> [i \in 1 .. Len(events[r]) |-> events[r][i].state]]

\* The store implements the append-only journal of a run's states.
ImplementsJournal == Journal!Spec

\* docs/runtime.md: the store "computes size and SHA-256 from actual bytes".  An
\* attached artifact describes bytes that the file can have held.
ArtifactDescribesBytes ==
    \A a \in artifacts : \E c \in Content : a.size = c.size /\ a.digest = c.digest
=============================================================================
