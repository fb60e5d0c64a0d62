-------------------------- MODULE FederatedSearch --------------------------
(***************************************************************************)
(* The federated search of the OPTIMADE plugin (client.py), and a caller   *)
(* that repeats its request with the continuation it was given until none  *)
(* comes back.  A call fetches pages from every provider of the request,   *)
(* one thread each, then bounds the whole result to the inline context: it *)
(* compacts evidence, removes hits, defers or isolates a record that can   *)
(* never fit, and rolls cursors back to the first hit it left out.  A      *)
(* record is its position and its kind; what the kinds cost is a number.   *)
(***************************************************************************)
EXTENDS Integers, Sequences, FiniteSets, FiniteSetsExt

CONSTANTS
    ProviderCount,  \* the providers of the request, by their place in it
    Kinds,          \* the kinds of record
    Corpora,        \* what the providers may hold: the kinds of their records in order
    HitCost,        \* kind -> cost of the record inline
    DescriptorCost, \* kind -> cost of the record's deferred descriptor
    Overhead,       \* 0 .. 3 -> cost of what that many compactions leave
    FailureCost,    \* cost of a failed provider's block
    Budget,         \* the inline context limit
    PageLimit,
    MaxPages,       \* max_pages_per_provider
    MaxResults,
    MaxFailures     \* bound on the failures of providers, networks and measurements

Index == 1 .. ProviderCount

ASSUME SearchAssumption ==
    /\ {ProviderCount, PageLimit, MaxPages} \subseteq Nat \ {0}
    /\ {FailureCost, Budget, MaxFailures} \subseteq Nat
    /\ \A c \in Corpora : c \in [Index -> Seq(Kinds)]
    /\ MaxResults \in Nat /\ MaxResults >= ProviderCount
    /\ HitCost \in [Kinds -> Nat] /\ DescriptorCost \in [Kinds -> Nat]
    /\ Overhead \in [0 .. 3 -> Nat]

VARIABLES
    corpus,    \* the records that each provider holds, in order
    phase,     \* "idle", "fetching", "bounding", "finished"
    cursors,   \* provider -> its offset in the last continuation, or None
    fetched,   \* provider -> what its thread has fetched in this call
    kept,      \* provider -> how many of its hits, from the first, are inline
    excluded,  \* the providers isolated in this call
    compacted, \* how many of the three compactions have been tried
    removed,   \* whether hits were removed since the loop last started over
    delivered, \* history: how often, up to 2, each record was delivered
    failures   \* history: failures so far

bounding == <<kept, excluded, compacted, removed>>
vars == <<corpus, phase, cursors, fetched, bounding, delivered, failures>>

None == -1

Init ==
    /\ corpus \in Corpora
    /\ phase = "idle"
    /\ cursors = [p \in Index |-> None]
    /\ fetched = [p \in Index |-> [start |-> 0, hits |-> 0, pages |-> 0, outcome |-> "success"]]
    /\ kept = [p \in Index |-> 0]
    /\ excluded = {} /\ compacted = 0 /\ removed = FALSE
    /\ delivered = [p \in Index |-> [i \in DOMAIN corpus[p] |-> 0]]
    /\ failures = 0

-----------------------------------------------------------------------------
(* Fetching, one thread per provider.                                      *)

\* A provider without a token starts from its first record.
StartOf(token) == IF token = None THEN 0 ELSE token

\* The first call, or the same request with the last continuation.
Submit ==
    /\ phase = "idle"
    /\ phase' = "fetching"
    /\ fetched' = [p \in Index |->
           [start |-> StartOf(cursors[p]), hits |-> 0, pages |-> 0, outcome |-> "fetching"]]
    /\ kept' = [p \in Index |-> 0]
    /\ excluded' = {} /\ compacted' = 0 /\ removed' = FALSE
    /\ UNCHANGED <<corpus, cursors, delivered, failures>>

\* The tokenizer cannot be had, and nothing is fetched.  (A query too long for the
\* context is refused so each time; the caller here asks one that fits.)
SearchRefused ==
    /\ phase = "idle" /\ failures < MaxFailures
    /\ failures' = failures + 1
    /\ UNCHANGED <<corpus, phase, cursors, fetched, bounding, delivered>>

\* max_results is divided in the order of the request; the first take the rest.
Quota(p) ==
    (MaxResults \div ProviderCount) + (IF p <= MaxResults % ProviderCount THEN 1 ELSE 0)

Offset(p) == fetched[p].start + fetched[p].hits

More(p) == Offset(p) < Len(corpus[p])

Fetching(p) ==
    /\ phase = "fetching" /\ fetched[p].outcome = "fetching"
    /\ fetched[p].pages < MaxPages /\ fetched[p].hits < Quota(p)

\* A page of n records; a provider may send fewer than it was asked for.
Page(p, n, outcome) ==
    LET f == fetched[p] IN
    /\ Fetching(p)
    /\ n <= PageLimit /\ n <= Quota(p) - f.hits
    /\ Offset(p) + n <= Len(corpus[p])
    /\ fetched' = [fetched EXCEPT ![p] =
           [start |-> f.start, hits |-> f.hits + n, pages |-> f.pages + 1, outcome |-> outcome]]
    /\ UNCHANGED <<corpus, phase, cursors, bounding, delivered>>

FetchPage(p, n) ==
    /\ n = 0 => ~More(p)
    /\ Page(p, n, IF Offset(p) + n < Len(corpus[p]) THEN "fetching" ELSE "success")
    /\ UNCHANGED failures

\* Out of quota or of pages while the provider has more.
FetchStops(p) ==
    /\ phase = "fetching" /\ fetched[p].outcome = "fetching"
    /\ fetched[p].pages = MaxPages \/ fetched[p].hits >= Quota(p)
    /\ fetched' = [fetched EXCEPT ![p].outcome = "success"]
    /\ UNCHANGED <<corpus, phase, cursors, bounding, delivered, failures>>

\* The transport fails or refuses: no page is counted.
FetchFails(p) ==
    /\ Fetching(p)
    /\ failures < MaxFailures
    /\ failures' = failures + 1
    /\ fetched' = [fetched EXCEPT ![p].outcome = "failed"]
    /\ UNCHANGED <<corpus, phase, cursors, bounding, delivered>>

\* A page is refused whole (n = 0), or its hits are taken and then its record
\* count is found inconsistent.
FetchRefused(p, n) ==
    /\ failures < MaxFailures
    /\ failures' = failures + 1
    /\ Page(p, n, "failed")

Join ==
    /\ phase = "fetching"
    /\ \A p \in Index : fetched[p].outcome # "fetching"
    /\ phase' = "bounding"
    /\ kept' = [p \in Index |-> fetched[p].hits]
    /\ UNCHANGED <<corpus, cursors, fetched, excluded, compacted, removed, delivered, failures>>

-----------------------------------------------------------------------------
(* Bounding the result: one step for each turn of the loop.                *)

KindOf(p, i) == corpus[p][fetched[p].start + i]

InlineCost(p) == MapThenSumSet(LAMBDA i : HitCost[KindOf(p, i)], 1 .. kept[p])

Failed == {p \in Index : fetched[p].outcome = "failed"}

ResultCost ==
    MapThenSumSet(InlineCost, Index) + FailureCost * Cardinality(Failed) + Overhead[compacted]

FitsCost(cost) == cost <= Budget

HasHits == \E p \in Index : kept[p] > 0

\* The cursor the provider's thread returned: a failure always has one.
ThreadCursorAlways(p) == Offset(p)
ThreadCursorAtStart(p) ==
    IF fetched[p].outcome = "failed" THEN fetched[p].start
    ELSE IF More(p) THEN Offset(p) ELSE None
ThreadCursor(p) ==
    IF fetched[p].outcome = "failed" \/ More(p) THEN Offset(p) ELSE None

\* refresh(): a cursor rolls back to the first hit that is not in the answer.
CursorKept(p, progressed) == ThreadCursor(p)
CursorToStart(p, progressed) ==
    IF progressed < fetched[p].hits THEN fetched[p].start ELSE ThreadCursor(p)
Cursor(p, progressed) ==
    IF progressed < fetched[p].hits THEN fetched[p].start + progressed ELSE ThreadCursor(p)

\* The answer holds the first progressed[p] hits of each provider.
Answer(progressed) ==
    LET next == [p \in Index |-> Cursor(p, progressed[p])] IN
    /\ cursors' = next
    /\ phase' = IF \A p \in Index : next[p] = None THEN "finished" ELSE "idle"
    /\ delivered' = [p \in Index |-> [i \in DOMAIN corpus[p] |->
           IF i - fetched[p].start \in 1 .. progressed[p] /\ delivered[p][i] < 2
             THEN delivered[p][i] + 1 ELSE delivered[p][i]]]
    /\ UNCHANGED <<corpus, fetched, bounding, failures>>

Acceptable == FitsCost(ResultCost) /\ (HasHits \/ ~removed)

Return ==
    /\ phase = "bounding" /\ Acceptable
    /\ Answer(kept)

Compact ==
    /\ phase = "bounding" /\ ~Acceptable
    /\ compacted < 3
    /\ compacted' = compacted + 1
    /\ UNCHANGED <<corpus, phase, cursors, fetched, kept, excluded, removed, delivered, failures>>

Exhausted == phase = "bounding" /\ ~Acceptable /\ compacted = 3

\* The provider that gives up its last hit: the one with most hits, of these a
\* failed one, of these the furthest ahead, of these the last of the request.
Before(p, q) ==
    LET rank(r) == <<kept[r], IF r \in Failed THEN 1 ELSE 0, fetched[r].start, r>> IN
    \E j \in 1 .. 4 : /\ rank(p)[j] < rank(q)[j]
                      /\ \A i \in 1 .. j - 1 : rank(p)[i] = rank(q)[i]

RemoveHit ==
    /\ Exhausted /\ HasHits
    /\ \E p \in Index :
          /\ \A q \in Index \ {p} : Before(q, p)
          /\ kept' = [kept EXCEPT ![p] = @ - 1]
    /\ removed' = TRUE
    /\ UNCHANGED <<corpus, phase, cursors, fetched, excluded, compacted, delivered, failures>>

\* context-budget-exceeded: the caller gets an error, and may ask again.
BudgetExceeded ==
    /\ Exhausted /\ ~HasHits /\ ~FitsCost(ResultCost)
    /\ phase' = "idle"
    /\ UNCHANGED <<corpus, cursors, fetched, bounding, delivered, failures>>

\* A measurement, of any turn of the loop, does not settle: likewise.
MeasurementUnstable ==
    /\ phase = "bounding" /\ failures < MaxFailures
    /\ failures' = failures + 1
    /\ phase' = "idle"
    /\ UNCHANGED <<corpus, cursors, fetched, bounding, delivered>>

\* No hit is left inline.  The first hit of each provider is tried, alone, as
\* a deferred descriptor.  (Some provider always has one to try: hits were
\* removed, and the hits of the isolated providers are not put back.)
Trials == {p \in Index \ excluded : fetched[p].hits > 0}

TrialCost(p) == ResultCost + DescriptorCost[KindOf(p, 1)]

Failing == {p \in Trials : ~FitsCost(TrialCost(p))}

\* All fit: the descriptor of a provider that is furthest behind is sent.  (Ties
\* go by provider id, which the order of the request leaves open.)
FurthestBehind(p) == \A q \in Trials : fetched[p].start <= fetched[q].start

Defer ==
    /\ Exhausted /\ ~HasHits /\ FitsCost(ResultCost)
    /\ Failing = {}
    /\ \E p \in Trials :
          /\ FurthestBehind(p)
          /\ Answer([q \in Index |-> IF q = p THEN 1 ELSE 0])

\* Some do not: the provider of the largest is failed and excluded, and the
\* hits of the others are put back.
Isolate ==
    /\ Exhausted /\ ~HasHits /\ FitsCost(ResultCost)
    /\ \E p \in Failing :
          /\ \A q \in Failing \ {p} :
                TrialCost(p) > TrialCost(q) \/ (TrialCost(p) = TrialCost(q) /\ p < q)
          /\ fetched' = [fetched EXCEPT ![p].outcome = "failed"]
          /\ excluded' = excluded \cup {p}
          /\ kept' = [q \in Index |-> IF q \in excluded' THEN 0 ELSE fetched[q].hits]
    /\ removed' = FALSE
    /\ UNCHANGED <<corpus, phase, cursors, compacted, delivered, failures>>

Next ==
    \/ Submit \/ SearchRefused
    \/ \E p \in Index, n \in 0 .. PageLimit : FetchPage(p, n) \/ FetchRefused(p, n)
    \/ \E p \in Index : FetchStops(p) \/ FetchFails(p)
    \/ Join
    \/ Return \/ Compact \/ RemoveHit \/ BudgetExceeded \/ MeasurementUnstable \/ Defer \/ Isolate

Spec == Init /\ [][Next]_vars

\* The threads end, since the transport bounds every request in time, the
\* bounding loop runs, and the caller asks until nothing is left to ask for.
FairSpec == Spec /\ WF_vars(Next)

-----------------------------------------------------------------------------
(* Properties.                                                             *)

\* No silent offset jump: once an answer came back, every record before a
\* provider's cursor, and every record of a provider that has no cursor, was
\* delivered inline or as a descriptor, whatever failed or was rolled back.
NothingSkipped ==
    phase = "finished" \/ (\E p \in Index : cursors[p] # None) =>
       \A p \in Index : \A i \in DOMAIN corpus[p] :
          cursors[p] = None \/ i <= cursors[p] => delivered[p][i] > 0

\* No duplication: repeating the request with the continuation delivers a record
\* again only if its provider was delivered whole before.  (Such a provider has
\* no token in the continuation of the others, and starts again; the caller's
\* docs, plugins/optimade/docs/runtime.md, promise that no record comes twice.)
RepeatedOnlyWhenWhole ==
    \A p \in Index : (\E i \in DOMAIN corpus[p] : delivered[p][i] > 1) =>
       \A i \in DOMAIN corpus[p] : delivered[p][i] > 0

\* No starvation: every record is delivered, unless it is at or behind one whose
\* own identity cannot fit.  With two providers that hold records it fails: one
\* that is exhausted starts again, and since the one furthest behind keeps its
\* place in the answer, it can crowd the other out of every call.
Blocked(p, i) == \E j \in 1 .. i : DescriptorCost[corpus[p][j]] > Budget

Reached == \A p \in Index : \A i \in DOMAIN corpus[p] : delivered[p][i] > 0 \/ Blocked(p, i)
EveryRecordReached == <>Reached

\* The same, where only one of the providers holds any record.
Alone == Cardinality({p \in Index : corpus[p] # <<>>}) <= 1
EveryRecordReachedAlone == <>(Alone => Reached)

\* The caller that follows continuations is done at last, when one provider
\* holds all records and none has an identity that cannot fit.
SearchEndsAlone ==
    <>(Alone => phase = "finished" \/ \E p \in Index : \E i \in DOMAIN corpus[p] : Blocked(p, i))
=============================================================================
