--------------------------- MODULE RunStoreProofs ---------------------------
(***************************************************************************)
(* Whatever the workers, the handlers and the policy engine do, the tables *)
(* of the run store tell one story.  Only three kinds of step change them: *)
(* a run is inserted, a record is stored on top of the current one, or the *)
(* tables stay as they are; every argument below is made once for each.    *)
(***************************************************************************)
EXTENDS RunStore, TLAPS

JobOK(job) ==
  job \in Job /\ (job.op = "create" /\ job.creation.effectful => receipts[job.creation] # "absent")

RowOK(r) ==
  /\ r \in Request
  /\ runs[r] = [creation |-> runs[r].creation, record |-> runs[r].record]
  /\ runs[r].creation \in Creation /\ runs[r].record \in Record

\* A run's events: numbered from 0, ordered, and ending with its row.
LogOK(r) ==
  /\ events[r] \in Seq(Record) /\ Len(events[r]) > 0
  /\ LET log == events[r] IN
     /\ log[Len(log)] = runs[r].record
     /\ \A i \in 1 .. Len(log) : log[i].sequence = i - 1
     /\ \A i \in 2 .. Len(log) :
           log[i - 1].updated <= log[i].updated /\ log[i - 1].artifacts \subseteq log[i].artifacts

\* Updates based on a sequence number are acknowledged once, and only for
\* numbers that the row has left behind.
UpdatesOK(r, n) ==
  /\ updates[r][n] \in {0, 1}
  /\ updates[r][n] = 1 => r \in DOMAIN runs /\ n < runs[r].record.sequence

StoreInv ==
  /\ files \in [Path -> Content] /\ receipts \in [Creation -> ReceiptState]
  /\ jobs = [w \in Worker |-> jobs[w]] /\ \A w \in Worker : JobOK(jobs[w])
  /\ runs = [r \in DOMAIN runs |-> runs[r]]
  /\ events = [r \in DOMAIN runs |-> events[r]]
  /\ \A r \in DOMAIN runs : RowOK(r) /\ LogOK(r)
  /\ updates = [r \in Request |-> [n \in 0 .. MaxSequence |-> updates[r][n]]]
  /\ \A r \in Request, n \in 0 .. MaxSequence : UpdatesOK(r, n)
  /\ RunsHoldReceipts
  /\ ArtifactsBelong

-----------------------------------------------------------------------------
(* The three kinds of step.                                                *)

TablesStay == UNCHANGED <<runs, events, provenance, artifacts, updates>>

Inserts(r, c, time) ==
  /\ c \in Creation /\ c.request = r /\ r \notin DOMAIN runs /\ time \in Time(r)
  /\ c.effectful => receipts[c] # "absent"
  /\ runs' = With(runs, r, [creation |-> c, record |-> Queued(time)])
  /\ events' = With(events, r, <<Queued(time)>>)
  /\ UNCHANGED <<provenance, artifacts, receipts, files, updates>>

\* The row of r is at n and record comes after it.
Succeeds(record, r, n) ==
  /\ record \in Record
  /\ r \in DOMAIN runs /\ runs[r].record.sequence = n /\ n < MaxSequence
  /\ record.sequence = n + 1
  /\ runs[r].record.updated <= record.updated
  /\ runs[r].record.artifacts \subseteq record.artifacts
  /\ record.state \in Allowed(runs[r].record.state) /\ runs[r].record.state \notin Terminal

LEMMA RecordFields ==
  ASSUME NEW record \in Record
  PROVE  /\ record = [state |-> record.state, sequence |-> record.sequence,
                      updated |-> record.updated, artifacts |-> record.artifacts]
         /\ record.state \in RunState /\ record.sequence \in 0 .. MaxSequence
         /\ record.artifacts \in SUBSET Artifact
BY DEF Record

LEMMA QueuedIsRecord ==
  ASSUME NEW r \in Request, NEW time \in Time(r)
  PROVE  Queued(time) \in Record
<1>1. 0 \in 0 .. MaxSequence
  BY RunStoreAssumption
<1>2. time \in UNION {Time(q) : q \in Request}
  OBVIOUS
<1>. QED BY <1>1, <1>2 DEF Queued, Record, RunState

\* What a transition or an attachment may store is the next record.
LEMMA SuccessorSucceeds ==
  ASSUME StoreInv, NEW r \in Request, NEW time \in Time(r), NEW state \in RunState,
         NEW attached \in SUBSET Artifact,
         r \in DOMAIN runs, runs[r].record.sequence < MaxSequence,
         time >= runs[r].record.updated,
         runs[r].record.state \notin Terminal, state \in Allowed(runs[r].record.state),
         runs[r].record.artifacts \subseteq attached
  PROVE  Succeeds(Successor(r, state, time, attached), r, runs[r].record.sequence)
<1>1. runs[r].record \in Record
  BY DEF StoreInv, RowOK
<1>2. /\ runs[r].record.sequence + 1 \in 0 .. MaxSequence
      /\ time \in UNION {Time(q) : q \in Request}
  BY <1>1, RunStoreAssumption DEF Record
<1>3. runs[r].record.updated <= time
  <2>1. \A q \in Request : Time(q) \subseteq Nat
    BY RunStoreAssumption DEF Time, Request
  <2>. QED BY <1>1, <2>1 DEF Record
<1>4. Successor(r, state, time, attached) \in Record
  BY <1>2 DEF Successor, Record
<1>. QED BY <1>3, <1>4 DEF Succeeds, Successor

LEMMA TransitionSucceeds ==
  ASSUME StoreInv, NEW w \in Worker, NEW r \in Request, NEW owner \in Owner,
         NEW n \in 0 .. MaxSequence, NEW time \in Time(r), NEW state,
         Transition(w, r, owner, n, state, time)
  PROVE  Succeeds(Successor(r, state, time, runs[r].record.artifacts), r, n)
<1>1. /\ r \in DOMAIN runs /\ runs[r].record.sequence = n /\ runs[r].record.sequence < MaxSequence
      /\ time >= runs[r].record.updated
      /\ runs[r].record.state \notin Terminal /\ state \in Allowed(runs[r].record.state)
  BY DEF Transition, Current
<1>2. state \in RunState
  BY <1>1 DEF Allowed, RunState
<1>3. runs[r].record.artifacts \in SUBSET Artifact
  BY <1>1 DEF StoreInv, RowOK, Record
<1>. QED BY <1>1, <1>2, <1>3, SuccessorSucceeds

Attached(w, r, owner, reference) ==
  [run |-> r, path |-> jobs[w].path, owner |-> owner, provenance |-> reference,
   size |-> jobs[w].size, digest |-> jobs[w].digest]

LEMMA AttachSucceeds ==
  ASSUME StoreInv, NEW w \in Worker, NEW r \in Request, NEW owner \in Owner,
         NEW n \in 0 .. MaxSequence, NEW time \in Time(r), NEW reference \in Provenance,
         AttachCommit(w, r, owner, n, reference, time)
  PROVE  LET all == runs[r].record.artifacts \cup {Attached(w, r, owner, reference)} IN
         Succeeds(Successor(r, "running", time, all), r, n)
<1>1. /\ r \in DOMAIN runs /\ runs[r].record.sequence = n /\ n < MaxSequence
      /\ time >= runs[r].record.updated
      /\ runs[r].record.state = "running" /\ jobs[w].op = "attach"
  BY DEF AttachCommit, Current
<1>2. Attached(w, r, owner, reference) \in Artifact
  <2>1. jobs[w] \in Job
    BY DEF StoreInv, JobOK
  <2>2. /\ jobs[w].path \in Path /\ jobs[w].size \in {c.size : c \in Content}
        /\ jobs[w].digest \in {c.digest : c \in Content}
    BY <1>1, <2>1 DEF Job
  <2>. QED BY <2>2 DEF Artifact, Attached
<1>3. runs[r].record.artifacts \cup {Attached(w, r, owner, reference)} \in SUBSET Artifact
  BY <1>1, <1>2 DEF StoreInv, RowOK, Record
<1>4. "running" \in RunState /\ "running" \notin Terminal /\ "running" \in Allowed("running")
  BY DEF RunState, Terminal, Allowed
<1>. QED BY <1>1, <1>3, <1>4, SuccessorSucceeds

-----------------------------------------------------------------------------
(* Each kind of step keeps the invariant.                                  *)

JobsKept == jobs' = [w \in Worker |-> jobs'[w]] /\ \A w \in Worker : JobOK(jobs[w])'

LEMMA StoreInvInit == Init => StoreInv
<1>. SUFFICES ASSUME Init PROVE StoreInv
  OBVIOUS
<1>1. \A w \in Worker : JobOK(jobs[w])
  BY DEF Init, JobOK, Job, Idle
<1>2. runs = [r \in DOMAIN runs |-> runs[r]] /\ events = [r \in DOMAIN runs |-> events[r]] /\ DOMAIN runs = {}
  BY DEF Init
<1>3. \A r \in Request, n \in 0 .. MaxSequence : updates[r][n] = 0
  BY DEF Init
<1>4. receipts \in [Creation -> ReceiptState]
  BY DEF Init, ReceiptState
<1>5. RunsHoldReceipts /\ ArtifactsBelong
  BY <1>2 DEF Init, RunsHoldReceipts, ArtifactsBelong
<1>6. /\ files \in [Path -> Content] /\ jobs = [w \in Worker |-> jobs[w]]
      /\ updates = [r \in Request |-> [n \in 0 .. MaxSequence |-> updates[r][n]]]
  BY DEF Init
<1>7. \A r \in Request, n \in 0 .. MaxSequence : UpdatesOK(r, n)
  BY <1>3 DEF UpdatesOK
<1>. QED BY <1>1, <1>2, <1>4, <1>5, <1>6, <1>7 DEF StoreInv

LEMMA StaysKeeps ==
  ASSUME StoreInv, TablesStay, JobsKept,
         files' \in [Path -> Content], receipts' \in [Creation -> ReceiptState],
         \A c \in Creation : receipts[c] # "absent" => receipts'[c] # "absent"
  PROVE  StoreInv'
<1>1. \A r \in DOMAIN runs : RowOK(r)' /\ LogOK(r)'
  BY DEF StoreInv, TablesStay, RowOK, LogOK
<1>2. \A r \in Request, n \in 0 .. MaxSequence : UpdatesOK(r, n)'
  BY DEF StoreInv, TablesStay, UpdatesOK
<1>3. RunsHoldReceipts'
  BY DEF StoreInv, TablesStay, RunsHoldReceipts, RowOK
<1>4. ArtifactsBelong'
  BY DEF StoreInv, TablesStay, ArtifactsBelong
<1>. QED BY <1>1, <1>2, <1>3, <1>4 DEF StoreInv, TablesStay, JobsKept

LEMMA InsertKeeps ==
  ASSUME StoreInv, JobsKept, NEW r \in Request, NEW c, NEW time, Inserts(r, c, time)
  PROVE  StoreInv'
<1>1. /\ DOMAIN runs' = DOMAIN runs \cup {r} /\ r \notin DOMAIN runs
      /\ runs'[r] = [creation |-> c, record |-> Queued(time)]
      /\ events'[r] = <<Queued(time)>>
      /\ \A q \in DOMAIN runs : runs'[q] = runs[q] /\ events'[q] = events[q]
      /\ runs' = [q \in DOMAIN runs' |-> runs'[q]] /\ events' = [q \in DOMAIN runs' |-> events'[q]]
  <2>1. DOMAIN events = DOMAIN runs
    BY DEF StoreInv
  <2>. QED BY <2>1 DEF Inserts, With
<1>2. Queued(time) \in Record /\ Queued(time).sequence = 0 /\ Queued(time).artifacts = {}
  BY QueuedIsRecord DEF Inserts, Queued
<1>3. RowOK(r)' /\ LogOK(r)'
  <2>1. RowOK(r)'
    BY <1>1, <1>2 DEF Inserts, RowOK
  <2>2. <<Queued(time)>> \in Seq(Record) /\ Len(<<Queued(time)>>) = 1
    BY <1>2
  <2>. QED BY <1>1, <1>2, <2>1, <2>2 DEF LogOK
<1>4. \A q \in DOMAIN runs : RowOK(q)' /\ LogOK(q)'
  BY <1>1 DEF StoreInv, RowOK, LogOK
<1>5. \A q \in Request, n \in 0 .. MaxSequence : UpdatesOK(q, n)'
  BY <1>1 DEF StoreInv, Inserts, UpdatesOK
<1>6. RunsHoldReceipts'
  BY <1>1 DEF StoreInv, Inserts, RunsHoldReceipts
<1>7. ArtifactsBelong'
  <2>1. \A a \in artifacts : a.run # r
    BY <1>1 DEF StoreInv, ArtifactsBelong
  <2>2. /\ {a \in artifacts : a.run = r} = {} /\ runs'[r].record.artifacts = {}
        /\ UNCHANGED <<artifacts, provenance>>
    BY <1>1, <1>2, <2>1 DEF Inserts
  <2>3. \A q \in DOMAIN runs' : runs'[q].record.artifacts = {a \in artifacts' : a.run = q}
    BY <1>1, <2>2 DEF StoreInv, ArtifactsBelong
  <2>. QED BY <1>1, <2>2, <2>3 DEF StoreInv, ArtifactsBelong
<1>. QED BY <1>1, <1>3, <1>4, <1>5, <1>6, <1>7 DEF StoreInv, Inserts, JobsKept

History(log) ==
  /\ \A i \in 1 .. Len(log) : log[i].sequence = i - 1
  /\ \A i \in 2 .. Len(log) :
        log[i - 1].updated <= log[i].updated /\ log[i - 1].artifacts \subseteq log[i].artifacts

\* A history to which the next record is appended is a history.
LEMMA HistoryGrows ==
  ASSUME NEW log \in Seq(Record), Len(log) > 0, History(log), NEW record \in Record,
         log[Len(log)].sequence + 1 = record.sequence,
         log[Len(log)].updated <= record.updated,
         log[Len(log)].artifacts \subseteq record.artifacts
  PROVE  LET longer == Append(log, record) IN
         /\ longer \in Seq(Record) /\ Len(longer) > 0 /\ longer[Len(longer)] = record
         /\ History(longer)
<1>. DEFINE longer == Append(log, record)
<1>1. /\ longer \in Seq(Record) /\ Len(longer) = Len(log) + 1 /\ Len(log) \in Nat
      /\ longer[Len(log) + 1] = record /\ \A i \in 1 .. Len(log) : longer[i] = log[i]
  OBVIOUS
<1>. HIDE DEF longer
<1>2. log[Len(log)].sequence = Len(log) - 1
  BY <1>1 DEF History
<1>3. \A i \in 1 .. Len(longer) : longer[i].sequence = i - 1
  <2>. SUFFICES ASSUME NEW i \in 1 .. Len(longer) PROVE longer[i].sequence = i - 1
    OBVIOUS
  <2>1. CASE i \in 1 .. Len(log)
    BY <1>1, <2>1 DEF History
  <2>2. CASE i = Len(log) + 1
    BY <1>1, <1>2, <2>2
  <2>. QED BY <1>1, <2>1, <2>2
<1>4. ASSUME NEW i \in 2 .. Len(longer)
      PROVE  longer[i - 1].updated <= longer[i].updated /\
             longer[i - 1].artifacts \subseteq longer[i].artifacts
  <2>1. CASE i \in 2 .. Len(log)
    <3>1. longer[i] = log[i] /\ longer[i - 1] = log[i - 1]
      BY <1>1, <2>1
    <3>. QED BY <2>1, <3>1 DEF History
  <2>2. CASE i = Len(log) + 1
    <3>1. longer[i] = record /\ longer[i - 1] = log[Len(log)]
      BY <1>1, <2>2
    <3>. QED BY <3>1
  <2>. QED BY <1>1, <2>1, <2>2
<1>5. Len(longer) > 0 /\ longer[Len(longer)] = record /\ History(longer)
  BY <1>1, <1>3, <1>4 DEF History
<1>. QED BY <1>1, <1>5 DEF longer

\* A record stored on top of the current one, with the artifacts it adds and
\* the provenance they name.
LEMMA StoreKeeps ==
  ASSUME StoreInv, JobsKept, NEW r \in Request, NEW n \in 0 .. MaxSequence, NEW record, NEW added,
         Succeeds(record, r, n), Stores(r, record), Acknowledged(r, n),
         UNCHANGED <<receipts, files>>,
         record.artifacts = runs[r].record.artifacts \cup added, artifacts' = artifacts \cup added,
         \A p \in DOMAIN provenance : p \in DOMAIN provenance' /\ provenance'[p] = provenance[p],
         \A a \in added : /\ a.run = r /\ a.owner = runs[r].creation.owner
                          /\ a.provenance \in DOMAIN provenance'
                          /\ provenance'[a.provenance] = [owner |-> a.owner, activity |-> r]
  PROVE  StoreInv'
<1>1. /\ r \in DOMAIN runs /\ DOMAIN runs' = DOMAIN runs
      /\ runs'[r] = [creation |-> runs[r].creation, record |-> record]
      /\ events'[r] = Append(events[r], record)
      /\ \A q \in DOMAIN runs \ {r} : runs'[q] = runs[q] /\ events'[q] = events[q]
      /\ runs' = [q \in DOMAIN runs' |-> runs'[q]] /\ events' = [q \in DOMAIN runs' |-> events'[q]]
  <2>1. /\ r \in DOMAIN runs /\ runs = [q \in DOMAIN runs |-> runs[q]]
        /\ events = [q \in DOMAIN runs |-> events[q]]
        /\ runs[r] = [creation |-> runs[r].creation, record |-> runs[r].record]
    BY DEF StoreInv, Succeeds, RowOK
  <2>2. [runs[r] EXCEPT !.record = record] = [creation |-> runs[r].creation, record |-> record]
    BY <2>1
  <2>. QED BY <2>1, <2>2 DEF Stores
<1>2. /\ record \in Record /\ record.sequence = n + 1 /\ runs[r].record.sequence = n
      /\ runs[r].record.updated <= record.updated
      /\ runs[r].record.artifacts \subseteq record.artifacts /\ n \in Nat
  BY RunStoreAssumption DEF Succeeds
<1>3. RowOK(r)' /\ LogOK(r)'
  <2>1. RowOK(r)'
    BY <1>1, <1>2 DEF StoreInv, RowOK
  <2>2. LogOK(r)
    BY <1>1 DEF StoreInv
  <2>3. /\ events[r] \in Seq(Record) /\ Len(events[r]) > 0
        /\ History(events[r]) /\ events[r][Len(events[r])] = runs[r].record
    BY <2>2 DEF LogOK, History
  <2>4. /\ Append(events[r], record) \in Seq(Record) /\ Len(Append(events[r], record)) > 0
        /\ Append(events[r], record)[Len(Append(events[r], record))] = record
        /\ History(Append(events[r], record))
    BY <1>2, <2>3, HistoryGrows
  <2>. QED BY <1>1, <2>1, <2>4 DEF LogOK, History
<1>4. \A q \in DOMAIN runs \ {r} : RowOK(q)' /\ LogOK(q)'
  BY <1>1 DEF StoreInv, RowOK, LogOK
<1>5. \A q \in Request, m \in 0 .. MaxSequence : UpdatesOK(q, m)'
  <2>1. updates[r][n] = 0
    BY <1>2 DEF StoreInv, UpdatesOK
  <2>2. /\ updates' = [q \in Request |-> [m \in 0 .. MaxSequence |-> updates'[q][m]]]
        /\ \A q \in Request, m \in 0 .. MaxSequence :
              updates'[q][m] = IF q = r /\ m = n THEN 1 ELSE updates[q][m]
    <3>. DEFINE row == [updates[r] EXCEPT ![n] = IF @ < 2 THEN @ + 1 ELSE @]
    <3>1. updates = [q \in Request |-> [m \in 0 .. MaxSequence |-> updates[q][m]]]
      BY DEF StoreInv
    <3>2. updates[r] = [m \in 0 .. MaxSequence |-> updates[r][m]]
      BY <3>1, Zenon
    <3>3. row = [m \in 0 .. MaxSequence |-> IF m = n THEN 1 ELSE updates[r][m]]
      <4>1. ASSUME NEW f, f = [m \in 0 .. MaxSequence |-> f[m]], f[n] = 0
            PROVE  [f EXCEPT ![n] = IF @ < 2 THEN @ + 1 ELSE @] =
                      [m \in 0 .. MaxSequence |-> IF m = n THEN 1 ELSE f[m]]
        <5>1. [f EXCEPT ![n] = IF @ < 2 THEN @ + 1 ELSE @] = [f EXCEPT ![n] = 1]
          BY <4>1
        <5>. QED BY <4>1, <5>1
      <4>. QED BY <2>1, <3>2, <4>1, Zenon
    <3>. HIDE DEF row
    <3>4. updates' = [q \in Request |-> IF q = r THEN row ELSE updates[q]]
      BY <3>1 DEF Acknowledged, row
    <3>5. \A q \in Request : updates'[q] = [m \in 0 .. MaxSequence |-> updates'[q][m]]
      BY <3>1, <3>3, <3>4
    <3>. QED BY <3>3, <3>4, <3>5
  <2>. QED BY <1>1, <1>2, <2>2 DEF StoreInv, UpdatesOK
<1>6. RunsHoldReceipts'
  BY <1>1 DEF StoreInv, RunsHoldReceipts
<1>7. ArtifactsBelong'
  <2>1. \A a \in artifacts' : a \in artifacts \/ a \in added
    OBVIOUS
  <2>2. \A q \in DOMAIN runs : runs'[q].record.artifacts = {a \in artifacts' : a.run = q}
    <3>. SUFFICES ASSUME NEW q \in DOMAIN runs
                  PROVE  runs'[q].record.artifacts = {a \in artifacts' : a.run = q}
      OBVIOUS
    <3>1. runs[q].record.artifacts = {a \in artifacts : a.run = q}
      BY DEF StoreInv, ArtifactsBelong
    <3>2. CASE q = r
      <4>1. runs'[q].record.artifacts = runs[q].record.artifacts \cup added
        BY <1>1, <3>2
      <4>2. {a \in artifacts' : a.run = q} = {a \in artifacts : a.run = q} \cup added
        BY <3>2
      <4>. QED BY <3>1, <4>1, <4>2
    <3>3. CASE q # r
      <4>1. runs'[q].record.artifacts = runs[q].record.artifacts
        BY <1>1, <3>3
      <4>2. {a \in artifacts' : a.run = q} = {a \in artifacts : a.run = q}
        BY <3>3
      <4>. QED BY <3>1, <4>1, <4>2
    <3>. QED BY <3>2, <3>3
  <2>3. \A q \in DOMAIN runs : runs'[q].creation = runs[q].creation
    BY <1>1
  <2>4. ASSUME NEW a \in artifacts
        PROVE  /\ a.run \in DOMAIN runs /\ runs'[a.run].creation.owner = a.owner
               /\ a.provenance \in DOMAIN provenance'
               /\ provenance'[a.provenance] = [owner |-> a.owner, activity |-> a.run]
    BY <2>3 DEF StoreInv, ArtifactsBelong
  <2>5. ASSUME NEW a \in added
        PROVE  /\ a.run \in DOMAIN runs /\ runs'[a.run].creation.owner = a.owner
               /\ a.provenance \in DOMAIN provenance'
               /\ provenance'[a.provenance] = [owner |-> a.owner, activity |-> a.run]
    BY <1>1, <2>3
  <2>. QED BY <1>1, <2>1, <2>2, <2>4, <2>5 DEF ArtifactsBelong
<1>8. updates' = [q \in Request |-> [m \in 0 .. MaxSequence |-> updates'[q][m]]]
  BY DEF StoreInv, Acknowledged
<1>. QED BY <1>1, <1>3, <1>4, <1>5, <1>6, <1>7, <1>8 DEF StoreInv, JobsKept

-----------------------------------------------------------------------------
(* The actions.                                                            *)

\* A step that gives one worker a sound job keeps all of them sound.
LEMMA JobMoves ==
  ASSUME StoreInv, NEW w \in Worker, NEW job, jobs' = [jobs EXCEPT ![w] = job],
         JobOK(job), UNCHANGED receipts
  PROVE  JobsKept
<1>1. jobs' = [v \in Worker |-> IF v = w THEN job ELSE jobs[v]]
  BY DEF StoreInv
<1>2. \A v \in Worker : JobOK(jobs[v])'
  BY <1>1 DEF StoreInv, JobOK
<1>. QED BY <1>1, <1>2 DEF JobsKept

LEMMA IdleOK == JobOK(Idle)
BY DEF JobOK, Idle, Job

LEMMA CreateStep ==
  ASSUME StoreInv, NEW w \in Worker, Creates(w)
  PROVE  /\ StoreInv'
         /\ \/ TablesStay
            \/ \E r \in Request, c \in Creation : \E time \in Time(r) : Inserts(r, c, time)
<1>1. ASSUME NEW c \in Creation, CreateDenied(w, c) \/ CreateVerify(w, c)
      PROVE  StoreInv' /\ TablesStay
  <2>1. PICK op \in {"denied", "create"} :
             /\ jobs' = [jobs EXCEPT ![w] = [op |-> op, creation |-> c]]
             /\ op = "create" => Verified(c)
    BY <1>1 DEF CreateDenied, CreateVerify
  <2>2. TablesStay /\ UNCHANGED <<receipts, files>>
    BY <1>1 DEF CreateDenied, CreateVerify, TablesStay
  <2>3. JobOK([op |-> op, creation |-> c])
    BY <2>1 DEF JobOK, Job, Verified
  <2>4. JobsKept
    BY <2>1, <2>2, <2>3, JobMoves
  <2>. QED BY <2>2, <2>4, StaysKeeps DEF StoreInv
<1>2. ASSUME NEW r \in Request, NEW time \in Time(r), CreateInsert(w, r, time)
      PROVE  StoreInv' /\ \E c \in Creation : Inserts(r, c, time)
  <2>1. JobsKept
    BY <1>2, IdleOK, JobMoves DEF CreateInsert
  <2>2. /\ jobs[w].creation \in Creation
        /\ jobs[w].creation.effectful => receipts[jobs[w].creation] # "absent"
    <3>1. jobs[w].op = "create" /\ JobOK(jobs[w])
      BY <1>2 DEF CreateInsert, StoreInv
    <3>. QED BY <3>1 DEF JobOK, Job
  <2>3. Inserts(r, jobs[w].creation, time)
    BY <1>2, <2>2 DEF CreateInsert, Inserts
  <2>. QED BY <2>1, <2>2, <2>3, InsertKeeps
<1>3. ASSUME CreateExisting(w)
      PROVE  StoreInv' /\ TablesStay
  <2>1. JobsKept
    BY <1>3, IdleOK, JobMoves DEF CreateExisting
  <2>2. TablesStay /\ UNCHANGED <<receipts, files>>
    BY <1>3 DEF CreateExisting, TablesStay
  <2>. QED BY <2>1, <2>2, StaysKeeps DEF StoreInv
<1>. QED BY <1>1, <1>2, <1>3 DEF Creates

\* A record is stored on the current one.
Changes(r, n) ==
  \E record : Succeeds(record, r, n) /\ Stores(r, record) /\ Acknowledged(r, n)

LEMMA UpdateStep ==
  ASSUME StoreInv, NEW w \in Worker, Updates(w)
  PROVE  /\ StoreInv'
         /\ \/ TablesStay
            \/ \E r \in Request, n \in 0 .. MaxSequence : Changes(r, n)
<1>1. ASSUME (\E path \in Path : AttachStat(w, path)) \/ AttachHash(w) \/ AttachRefused(w)
      PROVE  StoreInv' /\ TablesStay
  <2>1. TablesStay /\ UNCHANGED <<receipts, files>>
    BY <1>1 DEF AttachStat, AttachHash, AttachRefused, TablesStay
  <2>2. CASE \E path \in Path : AttachStat(w, path)
    <3>1. PICK path \in Path : AttachStat(w, path)
      BY <2>2
    <3>2. JobOK([op |-> "hash", path |-> path, size |-> files[path].size])
      <4>1. files[path].size \in {c.size : c \in Content}
        BY DEF StoreInv
      <4>. QED BY <4>1 DEF JobOK, Job
    <3>3. JobsKept
      BY <2>1, <3>1, <3>2, JobMoves DEF AttachStat
    <3>. QED BY <2>1, <3>3, StaysKeeps DEF StoreInv
  <2>3. CASE AttachHash(w)
    <3>. DEFINE job == [op |-> "attach", path |-> jobs[w].path, size |-> jobs[w].size,
                        digest |-> files[jobs[w].path].digest]
    <3>1. /\ jobs[w].path \in Path /\ jobs[w].size \in {c.size : c \in Content}
      BY <2>3 DEF AttachHash, StoreInv, JobOK, Job
    <3>2. files[jobs[w].path].digest \in {c.digest : c \in Content}
      BY <3>1 DEF StoreInv
    <3>3. JobOK(job)
      BY <3>1, <3>2 DEF JobOK, Job
    <3>4. jobs' = [jobs EXCEPT ![w] = job]
      BY <2>3 DEF AttachHash, StoreInv
    <3>5. JobsKept
      BY <2>1, <3>3, <3>4, JobMoves
    <3>. QED BY <2>1, <3>5, StaysKeeps DEF StoreInv
  <2>4. CASE AttachRefused(w)
    <3>1. JobsKept
      BY <2>1, <2>4, IdleOK, JobMoves DEF AttachRefused
    <3>. QED BY <2>1, <3>1, StaysKeeps DEF StoreInv
  <2>. QED BY <1>1, <2>1, <2>2, <2>3, <2>4
<1>2. ASSUME NEW r \in Request, NEW owner \in Owner, NEW n \in 0 .. MaxSequence,
             NEW time \in Time(r), NEW state, Transition(w, r, owner, n, state, time)
      PROVE  StoreInv' /\ Changes(r, n)
  <2>. DEFINE record == Successor(r, state, time, runs[r].record.artifacts)
  <2>1. Succeeds(record, r, n) /\ Stores(r, record) /\ Acknowledged(r, n)
    BY <1>2, TransitionSucceeds DEF Transition
  <2>2. UNCHANGED <<provenance, artifacts, receipts, files, jobs>>
    BY <1>2 DEF Transition
  <2>3. JobsKept
    BY <2>2 DEF StoreInv, JobsKept, JobOK
  <2>. DEFINE added == {a \in artifacts : FALSE}
  <2>4. /\ record.artifacts = runs[r].record.artifacts \cup added
        /\ artifacts' = artifacts \cup added
        /\ \A a \in added : FALSE
    BY <2>2 DEF Successor
  <2>. HIDE DEF record, added
  <2>5. StoreInv'
    BY <2>1, <2>2, <2>3, <2>4, StoreKeeps
  <2>. QED BY <2>1, <2>5 DEF Changes
<1>3. ASSUME NEW r \in Request, NEW owner \in Owner, NEW n \in 0 .. MaxSequence,
             NEW time \in Time(r), NEW reference \in Provenance,
             AttachCommit(w, r, owner, n, reference, time)
      PROVE  StoreInv' /\ Changes(r, n)
  <2>. DEFINE a == Attached(w, r, owner, reference)
              record == Successor(r, "running", time, runs[r].record.artifacts \cup {a})
  <2>1. Succeeds(record, r, n) /\ Stores(r, record) /\ Acknowledged(r, n)
    BY <1>3, AttachSucceeds DEF AttachCommit, Attached
  <2>2. /\ UNCHANGED <<receipts, files>> /\ artifacts' = artifacts \cup {a}
        /\ jobs' = [jobs EXCEPT ![w] = Idle] /\ runs[r].creation.owner = owner
        /\ Reusable(reference, owner, r)
        /\ provenance' = IF reference \in DOMAIN provenance THEN provenance
                           ELSE With(provenance, reference, [owner |-> owner, activity |-> r])
    BY <1>3 DEF AttachCommit, Attached
  <2>3. JobsKept
    BY <2>2, IdleOK, JobMoves
  <2>4. /\ \A p \in DOMAIN provenance : p \in DOMAIN provenance' /\ provenance'[p] = provenance[p]
        /\ reference \in DOMAIN provenance'
        /\ provenance'[reference] = [owner |-> owner, activity |-> r]
    BY <2>2 DEF Reusable, With
  <2>5. a.run = r /\ a.owner = owner /\ a.provenance = reference
    BY DEF Attached
  <2>. DEFINE added == {a}
  <2>6. /\ record.artifacts = runs[r].record.artifacts \cup added
        /\ artifacts' = artifacts \cup added
        /\ \A b \in added : b = a
    BY <2>2 DEF Successor
  <2>. HIDE DEF a, record, added
  <2>7. \A b \in added : /\ b.run = r /\ b.owner = runs[r].creation.owner
                         /\ b.provenance \in DOMAIN provenance'
                         /\ provenance'[b.provenance] = [owner |-> b.owner, activity |-> r]
    BY <2>2, <2>4, <2>5, <2>6
  <2>8. StoreInv'
    BY <2>1, <2>2, <2>3, <2>4, <2>6, <2>7, StoreKeeps
  <2>. QED BY <2>1, <2>8 DEF Changes
<1>. QED BY <1>1, <1>2, <1>3 DEF Updates

LEMMA OutsideStep ==
  ASSUME StoreInv,
         \/ \E c \in Creation : ReceiptMoves(c)
         \/ \E path \in Path, content \in Content : FileWritten(path, content)
         \/ Crash
         \/ UNCHANGED vars
  PROVE  StoreInv' /\ TablesStay
<1>1. TablesStay
  BY DEF ReceiptMoves, FileWritten, Crash, vars, TablesStay
<1>2. files' \in [Path -> Content]
  BY DEF StoreInv, ReceiptMoves, FileWritten, Crash, vars
<1>3. /\ receipts' \in [Creation -> ReceiptState]
      /\ \A c \in Creation : receipts[c] # "absent" => receipts'[c] # "absent"
  BY DEF StoreInv, ReceiptState, ReceiptMoves, FileWritten, Crash, vars
<1>4. JobsKept
  <2>1. CASE UNCHANGED jobs
    BY <1>3, <2>1 DEF StoreInv, JobsKept, JobOK, Job
  <2>2. CASE jobs' = [w \in Worker |-> Idle]
    BY <2>2 DEF JobsKept, JobOK, Idle, Job
  <2>. QED BY <2>1, <2>2 DEF ReceiptMoves, FileWritten, Crash, vars
<1>. QED BY <1>1, <1>2, <1>3, <1>4, StaysKeeps

LEMMA StoreStep ==
  ASSUME StoreInv, [Next]_vars
  PROVE  /\ StoreInv'
         /\ \/ TablesStay
            \/ \E r \in Request, c \in Creation : \E time \in Time(r) : Inserts(r, c, time)
            \/ \E r \in Request, n \in 0 .. MaxSequence : Changes(r, n)
BY CreateStep, UpdateStep, OutsideStep DEF Next

-----------------------------------------------------------------------------
(* The theorems.                                                           *)

\* The strengthened invariant: tables, events, acknowledgements and pending jobs
\* agree in every reachable state.
THEOREM StoreSound == Spec => []StoreInv
<1>1. StoreInv /\ [Next]_vars => StoreInv'
  BY StoreStep
<1>. QED BY <1>1, StoreInvInit, PTL DEF Spec

\* A run's events and its row tell one story: however many workers update it, a
\* client that comes back at any sequence number misses nothing.
THEOREM HistoryAlwaysComplete == Spec => []HistoryComplete
<1>1. StoreInv => HistoryComplete
  BY DEF StoreInv, LogOK, HistoryComplete
<1>. QED BY <1>1, StoreSound, PTL

\* Of all the workers that base an update of a run on one sequence number, one
\* at most is told that it won.
THEOREM UpdatesWonOnce == Spec => []UpdateWonOnce
<1>1. StoreInv => UpdateWonOnce
  BY DEF StoreInv, UpdatesOK, UpdateWonOnce
<1>. QED BY <1>1, StoreSound, PTL

\* An effectful run has its receipt, although the receipt is checked in another
\* database before the run is inserted.
THEOREM RunsAlwaysHoldReceipts == Spec => []RunsHoldReceipts
<1>1. StoreInv => RunsHoldReceipts
  BY DEF StoreInv
<1>. QED BY <1>1, StoreSound, PTL

\* The artifact rows, the records and the provenance rows always agree.
THEOREM ArtifactsAlwaysBelong == Spec => []ArtifactsBelong
<1>1. StoreInv => ArtifactsBelong
  BY DEF StoreInv
<1>. QED BY <1>1, StoreSound, PTL

-----------------------------------------------------------------------------
(* The journal that the store implements.                                  *)

States(log) == [i \in 1 .. Len(log) |-> log[i].state]
journal == [r \in DOMAIN events |-> States(events[r])]

LEMMA StatesAppended ==
  ASSUME NEW log \in Seq(Record), NEW record \in Record
  PROVE  /\ States(log) \in Seq(RunState) /\ Len(States(log)) = Len(log)
         /\ States(Append(log, record)) = Append(States(log), record.state)
<1>1. /\ Len(log) \in Nat /\ Len(Append(log, record)) = Len(log) + 1
      /\ Append(log, record)[Len(log) + 1] = record
      /\ \A i \in 1 .. Len(log) : log[i] \in Record /\ Append(log, record)[i] = log[i]
  OBVIOUS
<1>2. States(log) \in Seq(RunState) /\ Len(States(log)) = Len(log)
  BY <1>1, RecordFields DEF States
<1>3. /\ DOMAIN Append(States(log), record.state) = 1 .. Len(log) + 1
      /\ Append(States(log), record.state) = [i \in 1 .. Len(log) + 1 |->
            IF i = Len(log) + 1 THEN record.state ELSE States(log)[i]]
  BY <1>1, <1>2, RecordFields
<1>4. States(Append(log, record)) = [i \in 1 .. Len(log) + 1 |->
            IF i = Len(log) + 1 THEN record.state ELSE States(log)[i]]
  BY <1>1 DEF States
<1>. QED BY <1>2, <1>3, <1>4

LEMMA InsertOpens ==
  ASSUME StoreInv, NEW r \in Request, NEW c, NEW time, Inserts(r, c, time)
  PROVE  r \notin DOMAIN journal /\
         journal' = [q \in DOMAIN journal \cup {r} |-> IF q = r THEN <<"queued">> ELSE journal[q]]
<1>1. DOMAIN events = DOMAIN runs
  BY DEF StoreInv
<1>2. States(<<Queued(time)>>) = <<"queued">>
  BY DEF States, Queued
<1>3. /\ DOMAIN events' = DOMAIN events \cup {r} /\ events'[r] = <<Queued(time)>>
      /\ \A q \in DOMAIN events : q # r /\ events'[q] = events[q]
  BY <1>1 DEF Inserts, With
<1>4. journal' = [q \in DOMAIN events' |-> States(events'[q])]
  BY DEF journal, States
<1>. QED BY <1>1, <1>2, <1>3, <1>4 DEF journal, Inserts

LEMMA ChangeExtends ==
  ASSUME StoreInv, NEW r \in Request, NEW n \in 0 .. MaxSequence, Changes(r, n)
  PROVE  /\ r \in DOMAIN journal
         /\ \E state \in Journal!Successors(journal[r][Len(journal[r])]) :
               journal' = [journal EXCEPT ![r] = Append(@, state)]
<1>1. PICK record : Succeeds(record, r, n) /\ Stores(r, record)
  BY DEF Changes
<1>2. /\ r \in DOMAIN runs /\ events = [q \in DOMAIN runs |-> events[q]]
      /\ runs[r].record \in Record /\ record \in Record
      /\ events[r] \in Seq(Record) /\ Len(events[r]) > 0
      /\ events[r][Len(events[r])] = runs[r].record
  BY <1>1 DEF StoreInv, RowOK, LogOK, Succeeds
<1>3. journal[r] = States(events[r]) /\ journal[r][Len(journal[r])] = runs[r].record.state
  BY <1>2, StatesAppended DEF journal, States
<1>4. record.state \in Journal!Successors(runs[r].record.state)
  BY <1>1, <1>2, RecordFields DEF Succeeds, Allowed, Terminal, RunState, Journal!Successors, Journal!Terminal
<1>5. journal' = [journal EXCEPT ![r] = Append(@, record.state)]
  <2>1. States(Append(events[r], record)) = Append(States(events[r]), record.state)
    BY <1>2, StatesAppended
  <2>2. journal' = [q \in DOMAIN events' |-> States(events'[q])]
    BY DEF journal, States
  <2>3. events' = [events EXCEPT ![r] = Append(@, record)]
    BY <1>1 DEF Stores
  <2>4. /\ DOMAIN events' = DOMAIN events /\ r \in DOMAIN events
        /\ \A q \in DOMAIN events :
              events'[q] = IF q = r THEN Append(events[r], record) ELSE events[q]
    BY <1>2, <2>3
  <2>. QED BY <2>1, <2>2, <2>4 DEF journal
<1>. QED BY <1>2, <1>3, <1>4, <1>5 DEF journal

\* The store, with its two tables, its unlocked reads and its crashes, implements
\* the append-only journal of each run's states.
THEOREM StoreImplementsJournal == Spec => ImplementsJournal
<1>1. Init => Journal!Init
  <2>1. Init => DOMAIN journal = {} /\ journal = [r \in {} |-> States(events[r])]
    BY DEF Init, journal
  <2>2. Init => journal = <<>>
    BY <2>1
  <2>. QED BY <2>2 DEF journal, States, Journal!Init
<1>2. StoreInv /\ [Next]_vars => [Journal!Next]_(journal)
  <2>. SUFFICES ASSUME StoreInv, [Next]_vars PROVE [Journal!Next]_(journal)
    OBVIOUS
  <2>1. CASE TablesStay
    BY <2>1 DEF TablesStay, journal, States
  <2>2. ASSUME NEW r \in Request, NEW c \in Creation, NEW time \in Time(r), Inserts(r, c, time)
        PROVE  Journal!Next
    <3>1. Journal!Opened(r)
      BY <2>2, InsertOpens DEF Journal!Opened, journal, States
    <3>. QED BY <3>1 DEF Journal!Next
  <2>3. ASSUME NEW r \in Request, NEW n \in 0 .. MaxSequence, Changes(r, n)
        PROVE  Journal!Next
    <3>1. Journal!Extended(r)
      BY <2>3, ChangeExtends DEF Journal!Extended, journal, States
    <3>. QED BY <3>1 DEF Journal!Next
  <2>. QED BY <2>1, <2>2, <2>3, StoreStep
<1>. QED BY <1>1, <1>2, StoreSound, PTL DEF Spec, ImplementsJournal, Journal!Spec, journal, States

-----------------------------------------------------------------------------
(* The two databases, as they look to a reader of both.                    *)

EffectfulRuns == {runs[r].creation : r \in DOMAIN runs} \cap Effectful
Stages == [c \in Effectful |-> Stage[receipts[c]]]

LEMMA ReceiptsKept ==
  ASSUME [Next]_vars, \A c \in Creation : ~ReceiptMoves(c)
  PROVE  receipts' = receipts
<1>1. ASSUME NEW w \in Worker, Creates(w) PROVE receipts' = receipts
  BY <1>1 DEF Creates, CreateVerify, CreateDenied, CreateInsert, CreateExisting
<1>2. ASSUME NEW w \in Worker, (\E path \in Path : AttachStat(w, path)) \/ AttachHash(w) \/ AttachRefused(w)
      PROVE  receipts' = receipts
  BY <1>2 DEF AttachStat, AttachHash, AttachRefused
<1>3. ASSUME NEW w, NEW r, NEW owner, NEW n, NEW state, NEW time, Transition(w, r, owner, n, state, time)
      PROVE  receipts' = receipts
  BY <1>3 DEF Transition
<1>4. ASSUME NEW w, NEW r, NEW owner, NEW n, NEW reference, NEW time, AttachCommit(w, r, owner, n, reference, time)
      PROVE  receipts' = receipts
  BY <1>4 DEF AttachCommit
<1>5. ASSUME NEW w \in Worker, Updates(w) PROVE receipts' = receipts
  BY <1>2, <1>3, <1>4, <1>5 DEF Updates
<1>6. (\E path \in Path, content \in Content : FileWritten(path, content)) \/ Crash \/ UNCHANGED vars
         => receipts' = receipts
  BY DEF FileWritten, Crash, vars
<1>. QED BY <1>1, <1>5, <1>6 DEF Next

LEMMA ReceiptForward ==
  ASSUME StoreInv, NEW c \in Creation, ReceiptMoves(c)
  PROVE  \E d \in Effectful : Authorized!Consume(d) \/ Authorized!Redeem(d)
<1>1. c \in Effectful /\ receipts[c] \in {"absent", "available"} /\ UNCHANGED runs
  BY DEF ReceiptMoves, Effectful, StoreInv, ReceiptState
<1>2. Stages' = [Stages EXCEPT ![c] = IF receipts[c] = "absent" THEN "available" ELSE "redeemed"]
  <2>1. \A d \in Effectful : receipts'[d] =
           IF d = c THEN IF receipts[c] = "absent" THEN "available" ELSE "closed" ELSE receipts[d]
    BY DEF ReceiptMoves, Effectful, StoreInv
  <2>2. Stage["available"] = "available" /\ Stage["closed"] = "redeemed"
    BY DEF Stage
  <2>3. \A d \in Effectful : Stage[receipts'[d]] =
           IF d = c THEN IF receipts[c] = "absent" THEN "available" ELSE "redeemed" ELSE Stage[receipts[d]]
    BY <2>1, <2>2
  <2>4. Stages' = [d \in Effectful |-> Stage[receipts'[d]]]
    BY DEF Stages, Stage
  <2>. QED BY <1>1, <2>3, <2>4 DEF Stages
<1>3. Stages[c] = IF receipts[c] = "absent" THEN "none" ELSE "available"
  BY <1>1 DEF Stages, Stage
<1>4. EffectfulRuns' = EffectfulRuns
  BY <1>1 DEF EffectfulRuns
<1>5. CASE receipts[c] = "absent"
  BY <1>1, <1>2, <1>3, <1>4, <1>5 DEF Authorized!Consume, Stages, EffectfulRuns
<1>6. CASE receipts[c] = "available"
  BY <1>1, <1>2, <1>3, <1>4, <1>6 DEF Authorized!Redeem, Stages, EffectfulRuns
<1>. QED BY <1>1, <1>5, <1>6

LEMMA InsertAuthorized ==
  ASSUME StoreInv, NEW r \in Request, NEW c \in Creation, NEW time, Inserts(r, c, time)
  PROVE  \/ UNCHANGED <<EffectfulRuns, Stages>>
         \/ c \in Effectful /\ Authorized!CreateRun(c)
<1>1. /\ DOMAIN runs' = DOMAIN runs \cup {r} /\ runs'[r].creation = c /\ receipts' = receipts
      /\ \A q \in DOMAIN runs : runs'[q] = runs[q] /\ q # r
  BY DEF Inserts, With
<1>2. EffectfulRuns' = EffectfulRuns \cup ({c} \cap Effectful)
  BY <1>1 DEF EffectfulRuns
<1>3. Stages' = Stages
  BY <1>1 DEF Stages
<1>4. CASE c \in Effectful \ EffectfulRuns
  <2>1. Stages[c] # "none"
    BY <1>4 DEF Inserts, Stages, Stage, Effectful, StoreInv, ReceiptState
  <2>2. EffectfulRuns' = EffectfulRuns \cup {c}
    BY <1>2, <1>4
  <2>. QED BY <1>3, <1>4, <2>1, <2>2 DEF Authorized!CreateRun, Stages, EffectfulRuns
<1>5. CASE c \notin Effectful \ EffectfulRuns
  BY <1>2, <1>3, <1>5
<1>. QED BY <1>4, <1>5

LEMMA ChangeKeepsRuns ==
  ASSUME StoreInv, NEW r \in Request, NEW n \in 0 .. MaxSequence, Changes(r, n)
  PROVE  EffectfulRuns' = EffectfulRuns
<1>1. PICK record : r \in DOMAIN runs /\ runs' = [runs EXCEPT ![r].record = record]
  BY DEF Changes, Succeeds, Stores
<1>2. runs[r] = [creation |-> runs[r].creation, record |-> runs[r].record]
  BY <1>1 DEF StoreInv, RowOK
<1>3. DOMAIN runs' = DOMAIN runs /\ \A q \in DOMAIN runs : runs'[q].creation = runs[q].creation
  BY <1>1, <1>2 DEF StoreInv
<1>. QED BY <1>3 DEF EffectfulRuns

\* An effectful run appears after its receipt, and receipts only move forward:
\* what AuthorizedRuns says of the databases, StateRecovery may assume of them.
THEOREM StoreImplementsAuthorized == Spec => ImplementsAuthorized
<1>1. Init => Authorized!Init
  BY DEF Init, Authorized!Init, Stage, Effectful
<1>2. StoreInv /\ [Next]_vars => [Authorized!Next]_<<EffectfulRuns, Stages>>
  <2>. SUFFICES ASSUME StoreInv, [Next]_vars PROVE [Authorized!Next]_<<EffectfulRuns, Stages>>
    OBVIOUS
  <2>1. ASSUME NEW c \in Creation, ReceiptMoves(c) PROVE Authorized!Next
    BY <2>1, ReceiptForward DEF Authorized!Next
  <2>2. CASE \A c \in Creation : ~ReceiptMoves(c)
    <3>1. receipts' = receipts /\ Stages' = Stages
      BY <2>2, ReceiptsKept DEF Stages
    <3>2. CASE TablesStay
      BY <3>1, <3>2 DEF TablesStay, EffectfulRuns
    <3>3. ASSUME NEW r \in Request, NEW c \in Creation, NEW time \in Time(r), Inserts(r, c, time)
          PROVE  [Authorized!Next]_<<EffectfulRuns, Stages>>
      BY <3>3, InsertAuthorized DEF Authorized!Next
    <3>4. ASSUME NEW r \in Request, NEW n \in 0 .. MaxSequence, Changes(r, n)
          PROVE  [Authorized!Next]_<<EffectfulRuns, Stages>>
      BY <3>1, <3>4, ChangeKeepsRuns
    <3>. QED BY <3>2, <3>3, <3>4, StoreStep
  <2>. QED BY <2>1, <2>2
<1>. QED
  BY <1>1, <1>2, StoreSound, PTL DEF Spec, ImplementsAuthorized, Authorized!Spec, EffectfulRuns, Stages
=============================================================================
