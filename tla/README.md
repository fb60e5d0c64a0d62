# Verification of materials-mcp-commons

TLA+ models of the engine in `src/src/materials_mcp_commons` and of its OPTIMADE
plugin (transport, client calls, federated search, export), with TLC configurations
that check them on small instances and TLAPS proofs, for all values of the
constants, about every component that is modelled. Every definition is
translated from the Python source; `PROJECT.json` names the lines ("map").

## 1. The system

A host application loads plugin manifests, activates some of their capabilities
for a lease of logical turns, and executes requests against bound handlers.
A capability has an effect tier: R0 needs nothing, R1 a grant, R2 and R3 a grant
backed by an approval, R4 a grant backed by a strong approval. Grants,
receipts, quota and an audit log live in one SQLite database, runs and artifacts
in another; both may be opened by several processes.

| Component | State it keeps | Operations that change it | What is hard about it |
|---|---|---|---|
| Policy engine, `policy.py` | tables plans, approvals (with the grant that used each), grants (consumed, receipt state), quota_usage, audit_events; `user_version` | create_plan, approve, issue_grant, consume, redeem_receipt, the recording of denials, migration on open | threads and processes race on one approval and one quota; arguments and the clock are read before the transaction; a crash falls between two transactions; an old store is taken over |
| Lifecycle registry, `lifecycle.py` | registrations, capability ownership, active leases, last turn | register, unregister, activate, deactivate, active, resolve_active | a call that fails has already advanced the turn and expired leases; eviction from a full active set |
| Dispatcher, `dispatch.py` | bindings; calls in progress | bind, unbind, dispatch, dispatch_async | four locks or transactions in a row with other threads between; a receipt may be replayed or burnt |
| MCP host, `mcp_host.py` | turn counter, turn lock, the observer's counts | activate, execute, with the authorization resolver | the lock spans awaits; tasks are cancelled; the resolver charges before the dispatcher has checked everything |
| Run store, `runs.py` | tables runs, run_events, provenance, artifacts | create_run, transition, cancel, attach_artifact | optimistic concurrency between workers; a receipt verified in another database; file bytes read outside any transaction |
| State recovery, `state_recovery.py` | directories at the snapshot and restore destinations | create_snapshot, restore | two databases copied at two instants; failures and crashes between staging and rename; damage between inspection and copy |
| OPTIMADE search, `client.py` | none: a continuation that the caller brings back | search | one thread per provider, partial failures, and a loop that compacts, removes, defers, isolates and rolls cursors back |
| OPTIMADE transport, `transport.py` | four DNS slots, shared by all threads of the process | get | lookups that outlive their callers' timeouts, retries, a total deadline |
| OPTIMADE client calls, `client.py` | the tokenizer cache and its lock | list_providers, inspect_provider, exact retrieval, the tokenizer download | sequences of gets that fail at any of them, a lock held across a get |
| OPTIMADE export, `export.py` | files under a root | export | a destination checked long before it is created, rights that lapse meanwhile, clean-ups that fail, a crash while writing |
| Operation observer, `operations.py` | a sequence number, counts by operation and outcome, dropped sink events | finish | an operation that ends without it |
| Context projection, `context.py` | none | project_result | choice within a budget |
| Manifests, contracts, conformance, authoring, schema hosting, records and errors | none | | stateless validation and offline tools |

How they interact. The host takes a turn, asks the registry whether the target
is live, lets the resolver issue and consume a grant in the policy engine, and
calls the dispatcher. The dispatcher asks the registry again, looks the binding
up, redeems the receipt in the policy engine and calls the handler. A handler
creates a run in the run store, which verifies the receipt in the policy engine,
and attaches artifacts to it. State recovery copies the two databases. The
OPTIMADE plugin supplies handlers and the resolver of its host.

What makes each correct:

- Policy engine: one approval backs at most one grant; every grant rests on the
  authorization of its tier; no quota is exceeded and none is lost; a receipt never
  goes back; the audit log and the tables agree after any crash.
- Registry: ownership is exact, no lease outlives its registration or its term,
  the active set stays within the policy, and a lease is lost early only for a
  stated reason.
- Dispatcher: at most one handler invocation for each receipt, through crashes
  and replays; no refusal burns a receipt.
- Host: turns never regress; a target that is charged stays live until its
  handler ends; charges and effects stay in step; every request ends.
- Run store: one history without gaps for each run, one winner for each sequence
  number, an effectful run only with its receipt, artifacts that agree with the
  run, its owner and its provenance.
- Recovery: a published directory is whole, written once, restored faithfully,
  and explains every run in it.
- Transport: each DNS slot is accounted for and comes back, and no call waits for
  ever, even on lookups that never return.
- Export: an answered export stays on disk as it was answered, no file is
  overwritten or removed but by its writer, and nothing is written without rights.
- Observer: it counts exactly the operations that were answered.
- Search: no record is skipped, none is repeated without need, every record is
  reached, the search ends.

`PROJECT.json` lists under "hazards" the lines where each of these could break.

## 2. Modules

Each module is one component; a method whose body is one lock or one transaction
is one action, and what it does before or after is an action of its own.

**PolicyEngine** (`policy.py`). A caller is a thread of a process that has the
store open. `IssueCall`, `ConsumeCall` and `RedeemCall` are the argument checks
and the read of the clock; `IssueGrant`, `Consume`, `RedeemReceipt` are the
`BEGIN IMMEDIATE` transactions that follow; `Refuse` is the rollback and
`RecordDenial` the second transaction that logs it. `Open` migrates a version-1
store; `Init` includes such stores with one grant in them. `Crash` drops what a
caller has in progress. A document digest is the document itself; the audit hash
chain is the position in a sequence; a charge list is, for each kind, its largest
charge and its sum, which is all the code reads of it. What an operation takes from
its caller and never compares with anything is a constant of its own: `Target`, the
capability details as presented (their tier is not looked up in a manifest), and
`PlanObject`, the plan objects shown to `approve`, of which only the reference must be
a stored plan's. `HonestCallers` says that both are what the engine handed out.

**EffectAuthority**. What the engine promises, with no database, clock or
concurrency: grant on an approval once, pay once and whole, release once.
`PolicyEngine!ImplementsAuthority` is the refinement: paid is consumed, released
is redeemed (or handed out by the old store), left is the limit minus the usage.
`MCPHost!HostImplementsAuthority` is a second one, of the host with its resolver
and its dispatcher.

**LifecycleRegistry** (`lifecycle.py`). One action for each method, `Advance` for
the part of a failing call that is kept and for `active()`. `IsVictim` is the
earliest expiry, ties by identifier.

**Dispatcher** (`dispatch.py`, EXTENDS LifecycleRegistry). A call goes through
the phases resolve, lookup, redeem, invoke, running, done. The policy engine is
the durable set `redeemed`. `Crash` empties memory and keeps `redeemed`. `Available`,
`Fits`, `Permitted` and `Suited` are the checks of `_prepare` in their order: the
lease, the profile (`Compatible`), the receipt and the policy engine (`HasEngine`), and
the method. Schema and budget checks are a free choice of outcome; `RAISED` is an
exception that `dispatch` lets through, of a validator or of a result that cannot be
encoded.

**MCPHost** (`mcp_host.py`, EXTENDS Dispatcher). A task is a Thread. `turnQueue`
is the FIFO `asyncio.Lock`. `activate` is one action; `execute` is a chain of
actions, since other threads may register and bind between them. The resolver's two
transactions are two of them: `IssueGrant` plans and issues a grant for exactly this
request (phase authorizing, variable `issued`), `Consume` pays for it (phase
charging, variable `minted`), and `AuthorizeRefused` may come before, between or after
them: the resolver may also return what is no policy and receipt once it has charged,
and what its transactions did stays. `execute` contains every exception: one from the
clock or the reference factory costs a turn (`ExecuteLosesTurn`), one that the
dispatcher lets through is answered as EXECUTION_FAILED (`CodeOf`). Granted is `issued`, paid is `minted`, released
is the dispatcher's `redeemed`: so the three together are refined to EffectAuthority
with one policy and one kind. Cancellation is possible only where
a task is suspended: in the queue, or awaiting an asynchronous handler. `metrics`
is the observer's count of finished operations by outcome; `finish` is part of the
step that answers, since no await lies between them.

**RunStore** (`runs.py`) and **RunJournal**. A transaction is one action; the
receipt check of `create_run` and the stat and the read of `attach_artifact` are
actions of their own. The policy database is the variable `receipts`, the artifact
root the variable `files`. RunJournal is the abstract store: an append-only list of
states for each request; `ImplementsJournal` is the refinement.

**AuthorizedRuns**. What the two databases of one engine promise whoever copies
them: an effectful run appears only once a receipt was consumed for its request, and
a receipt goes one way. RunStore implements it for the requests that have an effect
(`ImplementsAuthorized`), and the engine inside StateRecovery implements it too
(`LiveIsAuthorized`), so that what is proved of snapshots holds of snapshots of
this run store.

**StateRecovery** (`state_recovery.py`). Operators run `create_snapshot` and
`restore` step by step while the engine consumes, creates and redeems. The engine
is the one of AuthorizedRuns: a run may appear after its receipt was redeemed, since
`create_run` checks the receipt in a transaction before the one that inserts the run.
A file is what its database held; its digest is equal exactly when the contents are.

**FederatedSearch** (`client.py`). The caller and the client together: `Submit`
repeats the request with the last continuation, one thread per provider fetches
pages, `Join` ends the fetching, and each turn of the bounding loop is an action
(`Return`, `Compact`, `RemoveHit`, `Defer`, `Isolate`, `BudgetExceeded`). A call may
also fail before it fetches (`SearchRefused`: the tokenizer, the query's own size) and
when its measurement does not settle (`MeasurementUnstable`). A record
is its position and kind; the inline cost of a result is a sum of constants.

**Transport** (`transport.py`). A thread inside `get`: it waits for a slot, waits
for its lookup, and makes one or two attempts. The lookup runs in a thread of its
own, so the module counts `lookups` under way, lookups that have answered and not
released yet (`releasing`), free slots and slots lost to a thread that never
started. `LookupTimesOut` leaves the lookup behind; `AbandonedLookupEnds` is its
end. `TargetRefused`, a path or URI that is refused before a slot is asked for, is not
among the fair steps: nothing is to end for its sake. A deadline is a choice between going on and ending wherever the code looks at
the clock.

**ProviderCalls** (`client.py`, EXTENDS Transport). A call is a chain of gets:
`Following` says which get comes after which. A list resolves an index for every
registry entry of a reviewed provider, twice for an entry listed twice, up to
`MaxEntries`; an inspection goes through index, info, versions and entry
types, and only the versions may fail. `CountTokens`, `LockTaken`, `TokenizerRead`
and `TokenizerFails` are the double-checked download of the tokenizer data.

**RecordExport** (`export.py`, EXTENDS ProviderCalls). The whole process: exports
beside the other calls. `ExportBegins` is the check of rights and destination,
`RecordFetched` and `FetchAccepted` the fetch and the second look at digest and
rights, which the clock takes away and, set back, returns (`RightsChange`), `Opens`, `Written` and `WriteFails` the POSIX writer. `Crash` empties memory
and leaves the files; a file that no export answered for is `left` until
`OperatorClears`.

`MC*.tla` hold the values of the constants. The theorems are in modules of their own,
one for each component: `PolicyEngineProofs`, `LifecycleProofs`,
`DispatcherProofs`, `MCPHostProofs`, `RunStoreProofs`, `StateRecoveryProofs`,
`RecordExportProofs` (with what it extends) and `FederatedSearchProofs`.

## 3. Runs

| Run | Question | Result |
|---|---|---|
| policy | Two callers, a clock that goes both ways, crashes, a new or a version-1 store; two grants of an R4 request race for one strong approval, and both and an R1 grant for a quota of two; grants without the approval, with one too weak, or of another owner's request are asked for too: ApprovalSingleUse, GrantsAreAuthorized, QuotaAccounted, QuotaHeld, AuditMatchesTables, ReceiptsMoveForward, ImplementsAuthority (whose authority has nothing left when the quota is used up) | holds |
| policy_quota_overrun | The same with charge lists that name a kind twice: QuotaHeld | violated, finding 1 |
| policy_approval_strength | The same with a plan object for `approve` that has the R4 plan's reference and another document: StronglyConfirmed | violated, finding 4 |
| lifecycle | Two versions of a plugin and two others claiming its capabilities, two active slots: OwnershipExact, ActiveSetSound, LeaseLossExplained | holds |
| dispatch | Two threads, one receipt, a version of the plugin for another profile, replays, crashes: AtMostOncePerReceipt, RedeemedOnlyToRun | holds |
| host | Three requests, one charge in the quota, cancellation, a concurrent embedder: TurnsNeverRegress, ChargedTargetStaysLive, EffectsWithinQuota, ChargesExplained, EventsMatchAnswers, HostImplementsAuthority, and under fairness EveryRequestEnds (whenever a request waits, all that have come are answered or cancelled in the end) | holds |
| runs | Two workers, one request contended by two owners and a second run, one shared provenance reference, crashes: HistoryComplete, UpdateWonOnce, ArtifactsBelong, ImplementsAuthorized, ImplementsJournal | holds |
| run_artifact_race | An artifact describes bytes that the file held: ArtifactDescribesBytes | violated, finding 2 |
| recovery | Two operators, two requests, failures and damage: PublishedWhole, RunsExplained, RestoreFaithful, NeverReplaced | holds |
| search | Every corpus of two providers with up to two records each, or one with up to three, of three kinds; two failures: NothingSkipped, RepeatedOnlyWhenWhole, and under fairness SearchEndsAlone, EveryRecordReachedAlone | holds |
| export | Two calls of any kind in two threads, one DNS slot, one destination, two digests; failures, a thread that cannot start, rights that lapse and come back, a crash, a failed clean-up, lookups that never return: SlotsAccounted, TokenizerFetchedOnce, FilesExplained, ArtifactOnDisk, NeverOverwritten, and under fairness EveryCallEnds and SlotsReturn | holds |
| search_starves | The same liveness with two providers that hold records: EveryRecordReached | violated, finding 3 |

### Findings

1. `consume` compares every charge alone with what is left and then adds all of
   them. A list that names a kind twice takes usage over the limit when part of
   the quota is used. `issue_grant`, which sums the list, does not prevent it,
   because it does not look at usage.
2. `attach_artifact` takes the size from `stat` and the digest from a later read.
   A write in between leaves an artifact that describes no content, and that
   `artifact()` then rejects.
3. A provider that is exhausted has no token in the continuation and starts again
   at its first record when the request is repeated for another provider. Its
   records are delivered again, and since the provider furthest behind keeps its
   place in a result that is too large, the other's record may never be sent.
   `RepeatedOnlyWhenWhole` and the two properties named `...Alone` are what is left
   of the promise in `src/plugins/optimade/docs/runtime.md`.
4. `approve` reads the kind of confirmation a plan needs from the document of the plan
   object it is shown, and ties that object to the store by its reference alone.
   `issue_grant` compares the plan with its stored row and the approval with its own
   row, but never the approval's kind with what the stored plan asks for. Shown an
   object with an R4 plan's reference and a weaker requirement, `approve` records a
   standard approval, and the R4 plan gets its grant, where `src/docs/runtime.md:91`
   says "R4 requires strong confirmation and recovery". Between callers that pass on
   what `create_plan` returned it does hold (`GrantsAreAuthorized`).

Behaviour met while modelling that no run judges:

- `create_run` asks for an available receipt before it looks for the run
  (`runs.py:351`), so a retry after the receipt was redeemed is refused although the
  run exists, where `src/docs/runtime.md:117` calls creation idempotent.
- A DNS slot whose thread cannot be started is never released (`transport.py:181`);
  the model keeps it as `lost`.
- Socket timeouts hold for one operation each, so a response that trickles is held
  to the total deadline only between reads of its body.
- `list_providers` answers with a rejected provider when an index breaks the
  protocol, and fails as a whole when the transport fails at an index.
- `OperationObserver.finish` refuses an empty capability reference; raised where a
  failure is being reported, its error replaces the structured answer.

### Bounds

Unbounded quantities are capped by MaxTime, MaxDenials (policy), MaxTurn
(lifecycle, dispatcher, host), MaxSequence and MaxTime (runs), MaxFailures and
Corpora (search), MaxCalls, MaxLost, MaxCrashes and MaxStuck (export).

- Time 0..1 with an approval valid at 0 alone gives a within and an after for each
  of its uses, and a clock that may go back between any two, after which it is valid
  again.
- Two callers are enough for a race on one row, since a transaction is one step
  and a race needs one caller whose reads are stale. Of the grants, two of one unit and
  two share the approval and a third of one unit needs none, so they compete for the
  approval and for a quota of two at once. The denials bound (MaxDenials) is none for
  alice, whose refused operations end busy or crash, and one for bob, whose log
  shows that a denial may come between any two events of another owner.
- MaxTurn 3 with every lease from 1 to 3 and two slots for three capabilities gives
  expiry, renewal, ties and eviction. The dispatch run needs one turn only: its
  questions are about the receipt, and a lease of one turn can expire. One version
  of its plugin is of the dispatcher's profile and one is not. Both it and the host
  have a policy engine; a dispatcher without one (`HasEngine` FALSE) is covered by
  the theorems alone.
- Three tasks in the host let one wait behind a holder and another behind it, and
  one can be cancelled in each place; two charges are asked of a quota of one. A lease
  of 3 lives through two executions, one of 2 through one, and one of 4 is refused
  (LeaseTurns). One active slot makes activations evict.
- MaxSequence 2 lets a run go queued, running, and then end or get an artifact
  while a rival writes at the same number; each of two runs gets that far. Only
  run r1 has two timestamps, enough for one that goes back.
- Two operators suffice for a destination that another has just taken.
- Two providers with a budget of three small records exercise every branch of the
  bounding loop, a deferral, an isolated provider, and both failing at once
  (their failures alone are over the budget). Three records with one page of two
  and a quota of two or one need several calls to be delivered.

- One DNS slot instead of four makes the pool run out with two callers: one can wait
  for a slot while an abandoned lookup of the other holds it. Two calls give a race
  of two exports for one destination, an export beside any other call, two searches
  at the tokenizer lock, and a call after a crash. Two attempts are the code's own
  default; a registry with up to two entries of reviewed providers (MaxEntries) makes a
  list that goes on after its first index, and the code's own bound is 100.

Symmetry is used in the safety-only runs over callers, workers or threads, which
no definition distinguishes; the host, search and export runs check liveness and use none.
`CHECK_DEADLOCK FALSE` stands where the system really stops: every task of the host
has made its one request and nothing is left for the embedder, a search is finished,
a snapshot and its restore exist and all receipts are redeemed, all calls of the
export run are made.

### Fairness

- `FairHostSpec`: weak fairness of `HostStep` for each task. The event loop runs
  any task that is not suspended, and a handler that is awaited returns or raises.
  The code has no timeout of its own around a handler, so a handler that never
  returns does keep the turn lock for ever; nothing is claimed about it. Arrivals,
  cancellation and the embedder have no fairness.
- `FairSpec` of the search: weak fairness of `Next`. Every network operation is
  bounded in time by the transport, so threads end; the loop is sequential; and the
  caller goes on asking with the continuation it holds. Failures are bounded.
- `FairSpec` of the export: weak fairness of `Step` for each caller. The operating
  system runs every thread that can go on, and every wait in `get` has a timeout, so
  a step is always possible; the tokenizer lock has none, which is why
  EveryCallEnds is worth checking. Weak fairness suffices for it: other calls can take
  the lock first only as often as there are calls (MaxCalls). Nothing is assumed of the resolver, the
  arrivals, the crash or the operator. `SlotsReturn` states its own hypothesis, that
  lookups return and their threads then release.

## 4. Proofs

Every theorem holds for all values of the constants that the named assumption of its
module allows: the constants have their shapes, sets that are counted are finite, and
`None` is no member of the sets it is told apart from.

| Module (assumption) | Theorem | States |
|---|---|---|
| PolicyEngineProofs (ConstantsAssumption) | TypeCorrect | `Spec => []TypeOK` |
| | ApprovalUsedOnce | `Spec => []ApprovalSingleUse` |
| | ReceiptsOnlyMoveForward | `Spec => ReceiptsMoveForward` |
| | QuotaAlwaysAccounted | `Spec => []QuotaAccounted` |
| | QuotaNeverOverrun | `DistinctKinds => (Spec => []QuotaHeld)` |
| | QuotaOverrunBounded | `Spec => []OverrunBounded`: no limit is reached twice over, whatever the charge lists |
| | EngineImplementsAuthority | `DistinctKinds => (Spec => ImplementsAuthority)` |
| | GrantsAlwaysBacked | `Spec => []GrantBacked` |
| | GrantsAlwaysAuthorized | `HonestCallers => (Spec => []GrantsAreAuthorized)` |
| | AuditAlwaysMatches | `Spec => []AuditMatchesTables` |
| LifecycleProofs (LifecycleAssumption) | OwnershipAlwaysExact | `LifecycleSpec => []OwnershipExact` |
| | ActiveSetAlwaysSound | `LifecycleSpec => []ActiveSetSound` |
| | LeaseLossAlwaysExplained | `LifecycleSpec => LeaseLossExplained` |
| DispatcherProofs (DispatchAssumption) | ReceiptRunsOnce | `Spec => []AtMostOncePerReceipt` |
| | ReceiptBurntOnlyToRun | `Spec => []RedeemedOnlyToRun` |
| MCPHostProofs (HostAssumption) | TurnsAlwaysForward | `HostSpec => []TurnsNeverRegress` |
| | ChargedTargetsStayLive | `HostSpec => []ChargedTargetStaysLive` |
| | EffectsStayWithinQuota | `HostSpec => []EffectsWithinQuota` |
| | ChargesAlwaysExplained | `HostSpec => []ChargesExplained` |
| | EventsAlwaysMatch | `HostSpec => []EventsMatchAnswers` |
| | HostUsesDispatcher | `HostSpec => Spec` (of Dispatcher) |
| | HostRunsReceiptOnce | `HostSpec => []AtMostOncePerReceipt /\ []RedeemedOnlyToRun` |
| | HostUsesRegistry | `HostSpec => LifecycleSpec` |
| | HostKeepsRegistry | `HostSpec => []OwnershipExact /\ []ActiveSetSound /\ LeaseLossExplained` |
| | HostKeepsAuthority | `HostSpec => HostImplementsAuthority` |
| | LockNeverOrphaned | `HostSpec => []LockIsLive` |
| | HolderAlwaysGoesOn | `HostSpec => []HolderGoesOn` |
| | RequestsAlwaysRunDown | `HostSpec => RequestsRunDown` |
| RunStoreProofs (RunStoreAssumption) | HistoryAlwaysComplete | `Spec => []HistoryComplete` |
| | UpdatesWonOnce | `Spec => []UpdateWonOnce` |
| | RunsAlwaysHoldReceipts | `Spec => []RunsHoldReceipts` |
| | ArtifactsAlwaysBelong | `Spec => []ArtifactsBelong` |
| | StoreImplementsAuthorized | `Spec => ImplementsAuthorized` |
| | StoreImplementsJournal | `Spec => ImplementsJournal` |
| StateRecoveryProofs (RecoveryAssumption) | PublishedSetsWhole | `Spec => []PublishedWhole` |
| | RecoveredRunsExplained | `Spec => []RunsExplained` |
| | LiveAlwaysAuthorized | `Spec => LiveIsAuthorized` |
| | RestoredFaithfully | `Spec => []RestoreFaithful` |
| | PublishedNeverReplaced | `Spec => NeverReplaced` |
| RecordExportProofs (Transport-, Calls- and ExportAssumption) | SlotsAlwaysAccounted | `Spec => []SlotsAccounted` |
| | TokenizerAlwaysFetchedOnce | `Spec => []TokenizerFetchedOnce` |
| | FilesAlwaysExplained | `Spec => []FilesExplained` |
| | ArtifactsStayOnDisk | `Spec => []ArtifactOnDisk` |
| | FilesNeverOverwritten | `Spec => NeverOverwritten` |
| | NobodyEverStuck | `Spec => []NobodyStuck` |
| | CallsAlwaysRunDown | `Spec => CallsRunDown` |
| FederatedSearchProofs (SearchAssumption) | NothingEverSkipped | `Spec => []NothingSkipped` |
| | OnlyWholeRepeated | `Spec => []RepeatedOnlyWhenWhole` |
| | SearchAlwaysGoesOn | `Spec => []GoesOn` |
| | SearchAlwaysRunsDown | `Spec => SearchRunsDown` |
| | AnswersAlwaysMoveOn | `Spec => AnswersMoveOn` |

**Policy engine.** `TypeOK` is inductive; one lemma for each transaction
(`OpenStep`, `IssueStep`, `ConsumeStep`, `RedeemStep`) and one for everything else
(`TableSteps`: the tables are untouched) say what a step does to the tables, and
the other proofs use only these. `ApprovalSingleUse` speaks of two grants and is
not inductive: a second grant could be issued if the first had left no trace. The
strengthening is `ApprovalNamesGrant`: the approval of every stored grant is stored
and names that grant, so an approval that is still unused has no grant, and two
grants of one approval are one. `QuotaHeld` is inductive under
`TypeOK`. The refinement maps each transaction to one abstract
step and everything else, the migration included, to a stutter; it uses
`ApprovalNamesGrant` for the grant and the quota for the payment. `DistinctKinds`,
that no charge list names a kind twice, is a hypothesis because the code does not
ensure it; `policy_quota_overrun` shows that it is needed.

**Quota.** `QuotaAccounted` compares usage with a sum over the consumed grants, and
the sum is a recursive function that takes away the elements CHOOSE picks. The prover
sees a CHOOSE over functions, so it must first be told that some function satisfies
the recursion: `AdditiveExists` builds one that adds up in any order, one grant at a
time (`SubsetsByAdding`, from the well-foundedness of strict inclusion), and
`RecursionIsAdditive` shows that the recursion computes it. One more grant then adds
its charge (`TotalGrows`), and a consumed grant is never charged twice. Without
`DistinctKinds` the limit may be passed, but not by much: `issue_grant` refuses a
charge list whose total is over the limit, and `consume` one of whose charges is over
what is left, so usage that is still below the limit can pass it once, by less than
the limit, and after that no charge of that kind fits (`QuotaOverrunBounded`).

**Authorization and the audit log.** A grant that a caller has checked but not yet
issued must already be backed (`AuthorizedInv`), for the checks come before the
transaction. `GrantsAlwaysBacked` says what that gives with no hypothesis: an approval
was strong enough for the plan object it was recorded for, and a grant's tier is the
one its caller presented. Only `HonestCallers` ties that object to the stored plan and
that tier to the manifest, and with it the R4 grant has its strong approval;
`policy_approval_strength` shows that the hypothesis is needed. The log's invariant says of each row which events it has and in what
order, and `LogGrows` says what one more event does to that. A plan cannot be logged after a grant
made for it, because the plan of a stored grant is stored, which is `AuthorizedInv`
again. The log of a migrated store is built event by event.

**Registry.** The three parts of `LifecycleInv` need each other: a lease names an
owned capability, which only its registered owner can take away. The step with an
argument of its own is the eviction: a finite set of leases that is not empty has
exactly one least element in the order of expiry and rank, since naturals are well
founded, so that one activation takes one lease.

**Dispatcher.** It is the redemption, one transaction, that tells apart the calls
that present one receipt. Beside the properties, the invariant needs that a call
past its resolution carries a receipt when it is effectful (`CarriesReceipt`), that
no handler has run on the receipt of a call about to invoke (`ReadyIsFresh`), and
that a redeemed receipt without a run has such a call (`RedeemedIsPending`).

**Host.** A task in progress is at the head of the turn queue, so there is one. Its
turn is the host's, and the registry's as soon as its target was found live;
leases end later than the registry's turn, hence its second look finds the target as
live as the first, and a charged call can be refused only by its profile, the lack of a
policy engine, its binding, its schema or the redemption, or fail by an exception
(`ChargesExplained`); the profile is that of the registration that was charged for. The turns fit the registry's bound because a task takes
one at most. `HostUsesDispatcher` shows that the composition makes no step which
Dispatcher does not allow, and carries its theorems over. `HostUsesRegistry`
does the same for the registry, without a restart. For the refinement of
EffectAuthority, `IssuedInv` says that a request has a grant exactly from its
authorization on and that only issued grants are paid for, and `RedeemedOnce` that
what the dispatcher redeems was paid for and not released before.

**What is left of liveness.** Fairness and ENABLED are out of the prover's reach, but
what a liveness argument needs beside them is not. For each component with a liveness
property two things are proved for all constants: nobody is stuck, that is, the guard
of some step holds (TLC has compared these guards with ENABLED on the instances of
the runs), and every step lowers a measure which no step of another raises.

- Host: the line for the turn lock is exactly the tasks that wait or are in
  progress, each once (`LockIsLive`), so no answer, refusal or cancelled task leaves
  the lock taken; its head can go on (`HolderGoesOn`), because the registry is never
  ahead of the turn it would take and its dispatch is always at some phase; every
  step of it lowers the steps left of its request, and the tasks ahead of a waiting
  task only become fewer (`RequestsRunDown`). The line is handled by index: what
  `Without` leaves is known at each place (`WithoutAt`).
- Export: a call can go on or waits for the tokenizer lock of a call that can
  (`NobodyStuck`), which needs that a call and its get match (`MatchInv`); its steps
  lower the pair of the gets it may still need and the steps left of this one
  (`CallsRunDown`).
- Search: threads fetch at most MaxPages pages, and each turn of the bounding loop
  isolates one more provider, tries one more compaction, or removes one more hit
  (`SearchRunsDown`). The loop never runs out of trials (`GoesOn`): it removes hits
  only from providers that are not isolated, and these still have a hit to try. And
  an answer that is not the last moves a cursor forward or names a failure
  (`AnswersMoveOn`): a thread that ended well with no hits has nothing more to fetch,
  because every provider has a quota of one at least and no empty page comes before
  the end.

**Run store.** There are three kinds of step: the tables stay, a run is inserted,
a record is stored on top of the current one; every argument is made once for each.
`HistoryGrows` is the lemma about an appended event. `UpdatesOK` says that updates are
acknowledged only for sequence numbers the row has left behind, and `JobOK` that a
creation which passed its check keeps its receipt until it is inserted, since
receipts are never withdrawn. `StoreImplementsAuthorized` follows from the two: an
insertion happens with the receipt in the policy database, available or redeemed.

**Recovery.** The runs are copied first. When they are, the receipt of each is in
the live policy database already and stays there, so the copy of it that is made
later has it as well. `LiveAlwaysAuthorized` ties the engine whose files are copied
to the run store: both implement AuthorizedRuns.

**Export.** Three invariants that do not need each other: slots, the tokenizer, the
files. Most steps move one call and leave all three alone (`Quiet`). A file that is
being written belongs to one export (`WritersApart`), because the name was created
exclusively.

**Search.** Whatever is removed, deferred or isolated, an answer holds a first part
of each provider's hits, and its cursor stands at the end of that part or is gone
because the provider has no more (`CursorStands`). So nothing before a cursor is
missed. For the repetitions the invariant adds `NothingAhead`: a record past the
cursor was delivered only if its provider was delivered whole, which can only come
about by a cursor that was gone and started again.

Only model-checked: liveness itself (EveryRequestEnds, EveryCallEnds, SlotsReturn,
SearchEndsAlone, EveryRecordReachedAlone), which needs fairness and ENABLED. Of the
search, nothing is proved about what several calls deliver together beyond
`NothingSkipped`, `RepeatedOnlyWhenWhole` and `AnswersMoveOn`; of SlotsReturn,
whose premise is a liveness assumption, nothing beyond `SlotsAccounted`. Every other
property of a passing run is a theorem; QuotaHeld and ImplementsAuthority (of the policy engine)
under `DistinctKinds`, GrantsAreAuthorized under `HonestCallers`.

## 5. What is not modelled

- JSON budgets and schemas: they read only, and their failures are free choices.
- The time between the reading of the trusted clock and the commit of the transaction
  that uses it (`policy.py:1126`): any number of steps may fall in between, as in the
  code, which promises nothing of the commit time. The same goes for the denial that
  is lost when a crash comes before its own transaction.
- What happens inside a transaction: `BEGIN IMMEDIATE` is one step, and SQLite's
  rollback is taken as given. The properties of rows, events and sums say what whole
  transactions do.
- An observer that raises (`mcp_host.py:456`), which replaces the answer.
- The `if not descriptor_trials` branch of the search: some provider always has a
  hit to try when hits were removed, so it cannot be reached (`SearchAlwaysGoesOn`).
- The tie between providers equally far behind in a deferral goes by provider id;
  the model, where ids have no order, lets either be sent.
- Restoring an older snapshot makes a receipt available in the restored root that
  the original root redeemed later: nothing in one root can see the other.
- Read-only methods (discover, inspect, latest, deltas, recover_incomplete,
  audit_events, artifact): what they return is the subject of the properties.
- Context projection (`context.py`): a sequential loop that pops list entries from
  one document until a measure fits; its counts hold by construction, and the measure
  is a tokenizer's.
- The observer's durations and sink, whose failures only add to a counter; the
  Windows writer, the CIF conversion, what provider documents hold, and the bounding
  of provider lists and inspections to the dispatch envelope.
- A search's own gets in Transport: FederatedSearch lets each of them answer or fail
  at any time, which is all the transport gives it.
- Manifests, contracts, conformance, authoring, schema hosting: stateless or
  offline, nothing to interleave.

## 6. Plan

Done, in this order: PolicyEngine with EffectAuthority and its proofs,
LifecycleRegistry, Dispatcher, MCPHost (which composes the three, and the observer),
RunStore with RunJournal, StateRecovery, FederatedSearch, Transport, ProviderCalls
and RecordExport.

The host's resolver has its two transactions, and the host, the run store and the
engine that is copied are tied to one another by refinements (EffectAuthority,
AuthorizedRuns) and by `HostUsesDispatcher` and `HostUsesRegistry`.

Next, in order:

1. Transport inside ProviderCalls inside RecordExport: a theorem that each composition
   is a behaviour of the component it extends, as for the host, so that what holds of
   the slots is proved once.
2. The search over several calls: with one provider that holds records and no failure
   left, the cursors run up to the end, by `AnswersMoveOn`.
3. A snapshot of a real engine: StateRecovery with the tables of PolicyEngine in place
   of one receipt state for each request.
