----------------------- MODULE FederatedSearchProofs -----------------------
(***************************************************************************)
(* For any number of providers and records, any costs, page sizes and      *)
(* failures: no cursor jumps over a record, and a record is repeated only  *)
(* when its provider was delivered whole.  What is removed, deferred or    *)
(* isolated does not matter, since an answer holds a first part of the     *)
(* hits of each provider and its cursor stands at the end of that part.    *)
(* And a call always goes on: no failure and no tight limit leaves it      *)
(* where no step of the loop applies, and what it has to do only shrinks.  *)
(***************************************************************************)
EXTENDS FederatedSearch, TLAPS

Outcomes == {"fetching", "success", "failed"}

\* What the thread of a provider fetched lies within what the provider holds.
FetchedOK(p) ==
  /\ fetched[p] \in [start : Nat, hits : Nat, pages : Nat, outcome : Outcomes]
  /\ Offset(p) <= Len(corpus[p])

\* While a call is under way its threads started where the continuation said,
\* and once they have ended some first part of the hits is kept.
CallOK(p) ==
  /\ FetchedOK(p)
  /\ phase \in {"fetching", "bounding"} => fetched[p].start = StartOf(cursors[p])
  /\ phase = "bounding" => kept[p] \in 0 .. fetched[p].hits

Whole(p) == \A i \in DOMAIN corpus[p] : delivered[p][i] > 0

\* A record past the cursor was delivered only if all of them were.
NothingAhead(p) ==
  (\E i \in DOMAIN corpus[p] : i > StartOf(cursors[p]) /\ delivered[p][i] > 0) => Whole(p)

SearchInv ==
  /\ corpus \in [Index -> Seq(Kinds)]
  /\ phase \in {"idle", "fetching", "bounding", "finished"}
  /\ cursors \in [Index -> Nat \cup {None}]
  /\ fetched = [p \in Index |-> fetched[p]] /\ kept = [p \in Index |-> kept[p]]
  /\ \A p \in Index : cursors[p] # None => cursors[p] <= Len(corpus[p])
  /\ \A p \in Index : CallOK(p)
  /\ \A p \in Index : delivered[p] \in [DOMAIN corpus[p] -> 0 .. 2]
  /\ NothingSkipped
  /\ RepeatedOnlyWhenWhole
  /\ \A p \in Index : NothingAhead(p)

-----------------------------------------------------------------------------
LEMMA SearchInvInit == Init => SearchInv
<1>. SUFFICES ASSUME Init PROVE SearchInv
  OBVIOUS
<1>1. corpus \in [Index -> Seq(Kinds)]
  BY SearchAssumption DEF Init
<1>2. \A p \in Index : /\ cursors[p] = None /\ kept[p] = 0
                       /\ fetched[p] = [start |-> 0, hits |-> 0, pages |-> 0, outcome |-> "success"]
                       /\ delivered[p] = [i \in DOMAIN corpus[p] |-> 0]
  BY DEF Init
<1>3. \A p \in Index : CallOK(p)
  BY <1>1, <1>2 DEF Init, CallOK, FetchedOK, Outcomes, Offset
<1>4. NothingSkipped /\ RepeatedOnlyWhenWhole /\ \A p \in Index : NothingAhead(p)
  BY <1>2 DEF Init, NothingSkipped, RepeatedOnlyWhenWhole, NothingAhead
<1>. QED BY <1>1, <1>2, <1>3, <1>4 DEF Init, SearchInv

\* A step that gives no answer leaves the history alone, and the cursors.
LEMMA CallGoesOn ==
  ASSUME SearchInv, UNCHANGED <<corpus, cursors, delivered>>,
         phase' \in {"idle", "fetching", "bounding"} \/ UNCHANGED phase,
         fetched' = [p \in Index |-> fetched'[p]], kept' = [p \in Index |-> kept'[p]],
         \A p \in Index : CallOK(p)'
  PROVE  SearchInv'
<1>1. NothingSkipped'
  BY DEF SearchInv, NothingSkipped
<1>2. RepeatedOnlyWhenWhole' /\ \A p \in Index : NothingAhead(p)'
  BY DEF SearchInv, RepeatedOnlyWhenWhole, NothingAhead, Whole
<1>. QED BY <1>1, <1>2 DEF SearchInv

\* The hits kept of each provider while its call is under way, whatever the step.
LEMMA SubmitStep ==
  ASSUME SearchInv, Submit
  PROVE  SearchInv'
<1>1. ASSUME NEW p \in Index PROVE CallOK(p)'
  <2>1. /\ fetched'[p] = [start |-> StartOf(cursors[p]), hits |-> 0, pages |-> 0, outcome |-> "fetching"]
        /\ UNCHANGED <<corpus, cursors>> /\ phase' = "fetching"
    BY DEF Submit
  <2>2. StartOf(cursors[p]) \in Nat /\ StartOf(cursors[p]) <= Len(corpus[p])
    BY DEF SearchInv, StartOf
  <2>. QED BY <2>1, <2>2 DEF CallOK, FetchedOK, Outcomes, Offset
<1>. QED BY <1>1, CallGoesOn DEF Submit

\* A thread fetches a page or ends.
LEMMA FetchStep ==
  ASSUME SearchInv,
         \/ \E p \in Index, n \in 0 .. PageLimit : FetchPage(p, n) \/ FetchRefused(p, n)
         \/ \E p \in Index : FetchStops(p) \/ FetchFails(p)
  PROVE  SearchInv'
<1>1. PICK p \in Index, n \in Nat, pages \in Nat, outcome \in Outcomes :
        /\ fetched' = [fetched EXCEPT ![p] = [start |-> fetched[p].start, hits |-> fetched[p].hits + n,
                                              pages |-> pages, outcome |-> outcome]]
        /\ phase = "fetching" /\ Offset(p) + n <= Len(corpus[p])
        /\ UNCHANGED <<corpus, phase, cursors, bounding, delivered>>
  <2>0. \A p \in Index : /\ fetched[p] \in [start : Nat, hits : Nat, pages : Nat, outcome : Outcomes]
                         /\ Offset(p) <= Len(corpus[p]) /\ Len(corpus[p]) \in Nat
    BY DEF SearchInv, CallOK, FetchedOK
  <2>1. ASSUME NEW p \in Index, NEW n \in 0 .. PageLimit, NEW outcome \in Outcomes, Page(p, n, outcome)
        PROVE  /\ fetched' = [fetched EXCEPT ![p] = [start |-> fetched[p].start, hits |-> fetched[p].hits + n,
                                                     pages |-> fetched[p].pages + 1, outcome |-> outcome]]
               /\ phase = "fetching" /\ Offset(p) + n <= Len(corpus[p]) /\ n \in Nat
               /\ fetched[p].pages + 1 \in Nat
               /\ UNCHANGED <<corpus, phase, cursors, bounding, delivered>>
    <3>1. PageLimit \in Nat /\ n \in Nat
      BY SearchAssumption
    <3>2. fetched[p].pages + 1 \in Nat
      BY <2>0
    <3>. QED BY <2>1, <3>1, <3>2 DEF Page, Fetching
  <2>2. ASSUME NEW p \in Index, NEW n \in 0 .. PageLimit, FetchPage(p, n) \/ FetchRefused(p, n)
        PROVE  \E outcome \in Outcomes : Page(p, n, outcome)
    BY <2>2 DEF FetchPage, FetchRefused, Outcomes
  <2>3. ASSUME NEW p \in Index, FetchStops(p) \/ FetchFails(p)
        PROVE  \E outcome \in Outcomes :
                 /\ fetched' = [fetched EXCEPT ![p] = [start |-> fetched[p].start, hits |-> fetched[p].hits + 0,
                                                       pages |-> fetched[p].pages, outcome |-> outcome]]
                 /\ phase = "fetching" /\ Offset(p) + 0 <= Len(corpus[p])
                 /\ UNCHANGED <<corpus, phase, cursors, bounding, delivered>>
    <3>1. PICK outcome \in Outcomes : fetched' = [fetched EXCEPT ![p].outcome = outcome]
      BY <2>3 DEF FetchStops, FetchFails, Outcomes
    <3>2. [fetched[p] EXCEPT !.outcome = outcome] =
            [start |-> fetched[p].start, hits |-> fetched[p].hits + 0, pages |-> fetched[p].pages,
             outcome |-> outcome]
      BY <2>0
    <3>3. phase = "fetching" /\ UNCHANGED <<corpus, phase, cursors, bounding, delivered>>
      BY <2>3 DEF FetchStops, FetchFails, Fetching
    <3>4. fetched' = [fetched EXCEPT ![p] = [fetched[p] EXCEPT !.outcome = outcome]]
      BY <3>1
    <3>5. Offset(p) + 0 = Offset(p)
      BY <2>0 DEF Offset
    <3>. QED BY <2>0, <3>2, <3>3, <3>4, <3>5
  <2>. QED BY <2>0, <2>1, <2>2, <2>3
<1>2. ASSUME NEW q \in Index PROVE CallOK(q)'
  <2>1. CallOK(q) /\ UNCHANGED <<corpus, cursors, phase, kept>>
    BY <1>1 DEF SearchInv, bounding
  <2>2. CASE q = p
    <3>1. fetched'[p] = [start |-> fetched[p].start, hits |-> fetched[p].hits + n,
                         pages |-> pages, outcome |-> outcome]
      BY <1>1 DEF SearchInv
    <3>. QED BY <1>1, <2>1, <2>2, <3>1 DEF CallOK, FetchedOK, Offset
  <2>3. CASE q # p
    <3>1. fetched'[q] = fetched[q]
      BY <1>1, <2>3 DEF SearchInv
    <3>. QED BY <2>1, <3>1 DEF CallOK, FetchedOK, Offset
  <2>. QED BY <2>2, <2>3
<1>3. fetched' = [q \in Index |-> fetched'[q]] /\ kept' = [q \in Index |-> kept'[q]]
  BY <1>1 DEF SearchInv, bounding
<1>. QED BY <1>1, <1>2, <1>3, CallGoesOn

LEMMA JoinStep ==
  ASSUME SearchInv, Join
  PROVE  SearchInv'
<1>1. ASSUME NEW p \in Index PROVE CallOK(p)'
  BY DEF Join, SearchInv, CallOK, FetchedOK, Offset
<1>. QED BY <1>1, CallGoesOn DEF Join, SearchInv

-----------------------------------------------------------------------------
(* The bounding loop.                                                      *)

\* The provider that loses a hit has one: none has more.
LEMMA RemovedHitExists ==
  ASSUME SearchInv, phase = "bounding", HasHits, NEW p \in Index, \A q \in Index \ {p} : Before(q, p)
  PROVE  kept[p] > 0
<1>1. \A q \in Index : kept[q] \in Nat
  BY DEF SearchInv, CallOK, FetchedOK
<1>2. PICK q \in Index : kept[q] > 0
  BY DEF HasHits
<1>3. ASSUME Before(q, p) PROVE kept[q] <= kept[p]
  <2>. DEFINE rank(r) == <<kept[r], IF r \in Failed THEN 1 ELSE 0, fetched[r].start, r>>
  <2>1. PICK j \in 1 .. 4 : rank(q)[j] < rank(p)[j] /\ \A i \in 1 .. j - 1 : rank(q)[i] = rank(p)[i]
    BY <1>3 DEF Before
  <2>2. rank(q)[1] = kept[q] /\ rank(p)[1] = kept[p]
    OBVIOUS
  <2>. HIDE DEF rank
  <2>3. CASE j = 1
    BY <1>1, <2>1, <2>2, <2>3
  <2>4. CASE j # 1
    <3>1. 1 \in 1 .. j - 1
      BY <2>4
    <3>. QED BY <1>1, <2>1, <2>2, <3>1
  <2>. QED BY <2>3, <2>4
<1>. QED BY <1>1, <1>2, <1>3

LEMMA BoundingStep ==
  ASSUME SearchInv, Compact \/ RemoveHit \/ BudgetExceeded \/ MeasurementUnstable \/ Isolate
  PROVE  SearchInv'
<1>1. phase = "bounding" /\ UNCHANGED <<corpus, cursors, delivered>> /\ phase' \in {"idle", "bounding"}
  BY DEF Compact, RemoveHit, BudgetExceeded, MeasurementUnstable, Isolate, Exhausted
<1>2. CASE Compact \/ BudgetExceeded \/ MeasurementUnstable
  <2>1. UNCHANGED <<fetched, kept>>
    BY <1>2 DEF Compact, BudgetExceeded, MeasurementUnstable, bounding
  <2>2. \A p \in Index : CallOK(p)'
    BY <1>1, <2>1 DEF SearchInv, CallOK, FetchedOK, Offset
  <2>. QED BY <1>1, <2>1, <2>2, CallGoesOn DEF SearchInv
<1>3. CASE RemoveHit
  <2>1. PICK p \in Index : (\A q \in Index \ {p} : Before(q, p)) /\ kept' = [kept EXCEPT ![p] = @ - 1]
    BY <1>3 DEF RemoveHit
  <2>2. kept[p] > 0
    BY <1>1, <1>3, <2>1, RemovedHitExists DEF RemoveHit
  <2>3. \A q \in Index : kept'[q] = IF q = p THEN kept[p] - 1 ELSE kept[q]
    BY <2>1 DEF SearchInv
  <2>4. UNCHANGED <<fetched, phase>>
    BY <1>3 DEF RemoveHit
  <2>5. \A q \in Index : CallOK(q)'
    BY <1>1, <2>2, <2>3, <2>4 DEF SearchInv, CallOK, FetchedOK, Offset
  <2>6. kept' = [q \in Index |-> kept'[q]]
    BY <2>1 DEF SearchInv
  <2>. QED BY <1>1, <2>4, <2>5, <2>6, CallGoesOn DEF SearchInv
<1>4. CASE Isolate
  <2>1. PICK p \in Index : fetched' = [fetched EXCEPT ![p].outcome = "failed"]
    BY <1>4 DEF Isolate, Failing, Trials
  <2>2. /\ kept' = [q \in Index |-> IF q \in excluded' THEN 0 ELSE fetched[q].hits]
        /\ UNCHANGED phase
    BY <1>4 DEF Isolate
  <2>3. ASSUME NEW q \in Index PROVE CallOK(q)'
    <3>1. /\ fetched'[q].start = fetched[q].start /\ fetched'[q].hits = fetched[q].hits
          /\ fetched'[q] \in [start : Nat, hits : Nat, pages : Nat, outcome : Outcomes]
      BY <2>1 DEF SearchInv, CallOK, FetchedOK, Outcomes
    <3>2. fetched[q].hits \in Nat /\ CallOK(q)
      BY DEF SearchInv, CallOK, FetchedOK
    <3>3. kept'[q] \in 0 .. fetched[q].hits
      BY <2>2, <3>2
    <3>. QED BY <1>1, <2>2, <3>1, <3>2, <3>3 DEF CallOK, FetchedOK, Offset
  <2>4. fetched' = [q \in Index |-> fetched'[q]] /\ kept' = [q \in Index |-> kept'[q]]
    BY <2>1, <2>2 DEF SearchInv
  <2>. QED BY <1>1, <2>3, <2>4, CallGoesOn
<1>. QED BY <1>2, <1>3, <1>4

-----------------------------------------------------------------------------
(* An answer.                                                              *)

\* The cursor of a provider stands at the end of what it has been answered, or
\* is gone when that is all.
LEMMA CursorStands ==
  ASSUME SearchInv, NEW p \in Index, NEW n \in 0 .. fetched[p].hits
  PROVE  /\ Cursor(p, n) \in Nat \cup {None}
         /\ Cursor(p, n) # None => Cursor(p, n) = fetched[p].start + n /\ Cursor(p, n) <= Len(corpus[p])
         /\ Cursor(p, n) = None => fetched[p].start + n = Len(corpus[p])
<1>1. /\ fetched[p].start \in Nat /\ fetched[p].hits \in Nat /\ Len(corpus[p]) \in Nat
      /\ fetched[p].start + fetched[p].hits <= Len(corpus[p])
  BY DEF SearchInv, CallOK, FetchedOK, Offset
<1>2. CASE n < fetched[p].hits
  <2>1. Cursor(p, n) = fetched[p].start + n
    BY <1>2 DEF Cursor
  <2>2. n \in Nat
    BY <1>1
  <2>3. Cursor(p, n) \in Nat
    BY <1>1, <2>1, <2>2
  <2>4. Cursor(p, n) # None
    BY <2>3 DEF None
  <2>5. Cursor(p, n) <= Len(corpus[p])
    BY <1>1, <1>2, <2>1, <2>2
  <2>. QED BY <2>1, <2>3, <2>4, <2>5
<1>3. CASE n = fetched[p].hits
  <2>1. Cursor(p, n) = ThreadCursor(p)
    BY <1>1, <1>3 DEF Cursor
  <2>2. CASE fetched[p].outcome = "failed" \/ More(p)
    <3>1. Cursor(p, n) = fetched[p].start + n
      BY <1>3, <2>1, <2>2 DEF ThreadCursor, Offset
    <3>2. Cursor(p, n) \in Nat /\ Cursor(p, n) <= Len(corpus[p])
      BY <1>1, <1>3, <3>1
    <3>3. Cursor(p, n) # None
      BY <3>2 DEF None
    <3>. QED BY <3>1, <3>2, <3>3
  <2>3. CASE ~(fetched[p].outcome = "failed" \/ More(p))
    <3>1. Cursor(p, n) = None
      BY <2>1, <2>3 DEF ThreadCursor
    <3>2. ~(fetched[p].start + n < Len(corpus[p]))
      BY <1>3, <2>3 DEF More, Offset
    <3>. QED BY <1>1, <1>3, <3>1, <3>2
  <2>. QED BY <2>2, <2>3
<1>. QED BY <1>1, <1>2, <1>3

LEMMA AnswerStep ==
  ASSUME SearchInv, phase = "bounding",
         NEW progressed, \A p \in Index : progressed[p] \in 0 .. fetched[p].hits, Answer(progressed)
  PROVE  SearchInv'
<1>1. ASSUME NEW p \in Index
      PROVE  /\ cursors'[p] = Cursor(p, progressed[p])
             /\ UNCHANGED <<corpus, fetched, kept>>
             /\ phase' = IF \A q \in Index : cursors'[q] = None THEN "finished" ELSE "idle"
             /\ delivered'[p] = [i \in DOMAIN corpus[p] |->
                  IF i - fetched[p].start \in 1 .. progressed[p] /\ delivered[p][i] < 2
                    THEN delivered[p][i] + 1 ELSE delivered[p][i]]
  BY DEF Answer, bounding
<1>2. ASSUME NEW p \in Index
      PROVE  /\ fetched[p].start = StartOf(cursors[p]) /\ fetched[p].start \in Nat
             /\ progressed[p] \in Nat /\ Len(corpus[p]) \in Nat /\ DOMAIN corpus[p] = 1 .. Len(corpus[p])
             /\ delivered[p] \in [DOMAIN corpus[p] -> 0 .. 2]
  BY DEF SearchInv, CallOK, FetchedOK
<1>3. ASSUME NEW p \in Index
      PROVE  delivered'[p] \in [DOMAIN corpus[p] -> 0 .. 2]
  <2>. DEFINE count(i) == IF i - fetched[p].start \in 1 .. progressed[p] /\ delivered[p][i] < 2
                            THEN delivered[p][i] + 1 ELSE delivered[p][i]
  <2>1. ASSUME NEW i \in DOMAIN corpus[p] PROVE count(i) \in 0 .. 2
    <3>1. delivered[p][i] \in 0 .. 2
      BY <1>2
    <3>. QED BY <3>1
  <2>2. delivered'[p] = [i \in DOMAIN corpus[p] |-> count(i)]
    BY <1>1
  <2>. HIDE DEF count
  <2>. QED BY <2>1, <2>2
\* What stood before the thread had been delivered.
<1>4. ASSUME NEW p \in Index, NEW i \in DOMAIN corpus[p], i <= fetched[p].start
      PROVE  delivered[p][i] > 0
  <2>1. cursors[p] # None /\ i <= cursors[p]
    BY <1>2, <1>4 DEF StartOf
  <2>. QED BY <2>1 DEF SearchInv, NothingSkipped
<1>5. ASSUME NEW p \in Index, NEW i \in DOMAIN corpus[p]
      PROVE  /\ i <= fetched[p].start + progressed[p] => delivered'[p][i] > 0
             /\ delivered[p][i] > 0 => delivered'[p][i] > 0
             /\ i > fetched[p].start + progressed[p] => delivered'[p][i] = delivered[p][i]
             /\ i <= fetched[p].start => delivered'[p][i] = delivered[p][i]
             /\ delivered'[p][i] <= delivered[p][i] + 1
  <2>1. delivered[p][i] \in 0 .. 2 /\ i \in Nat
    BY <1>2
  <2>2. delivered'[p][i] = IF i - fetched[p].start \in 1 .. progressed[p] /\ delivered[p][i] < 2
                             THEN delivered[p][i] + 1 ELSE delivered[p][i]
    BY <1>1
  <2>3. i <= fetched[p].start => delivered[p][i] > 0
    BY <1>4
  <2>. QED BY <1>2, <2>1, <2>2, <2>3
<1>6. ASSUME NEW p \in Index
      PROVE  /\ cursors'[p] \in Nat \cup {None}
             /\ cursors'[p] # None => cursors'[p] = fetched[p].start + progressed[p] /\ cursors'[p] <= Len(corpus[p])
             /\ cursors'[p] = None => fetched[p].start + progressed[p] = Len(corpus[p])
  BY <1>1, CursorStands
<1>7. NothingSkipped'
  <2>1. ASSUME NEW p \in Index, NEW i \in DOMAIN corpus[p], cursors'[p] = None \/ i <= cursors'[p]
        PROVE  delivered'[p][i] > 0
    BY <1>2, <1>5, <1>6, <2>1
  <2>. QED BY <1>1, <2>1 DEF NothingSkipped
\* A provider is whole before the answer, or what the answer adds was new.
<1>8. ASSUME NEW p \in Index, Whole(p) PROVE Whole(p)'
  BY <1>1, <1>5, <1>8 DEF Whole
<1>9. ASSUME NEW p \in Index PROVE NothingAhead(p)'
  <2>. SUFFICES ASSUME NEW i \in DOMAIN corpus[p], i > StartOf(cursors'[p]), delivered'[p][i] > 0
                PROVE  Whole(p)'
    BY <1>1 DEF NothingAhead
  <2>1. CASE cursors'[p] = None
    <3>1. ASSUME NEW j \in DOMAIN corpus[p] PROVE delivered'[p][j] > 0
      <4>1. j <= fetched[p].start + progressed[p]
        BY <1>2, <1>6, <2>1
      <4>. QED BY <1>5, <4>1
    <3>. QED BY <1>1, <3>1 DEF Whole
  <2>2. CASE cursors'[p] # None
    <3>1. i > fetched[p].start + progressed[p] /\ i \in Nat
      BY <1>2, <1>6, <2>2 DEF StartOf
    <3>2. delivered[p][i] > 0 /\ i > StartOf(cursors[p])
      BY <1>2, <1>5, <3>1
    <3>3. Whole(p)
      BY <3>2 DEF SearchInv, NothingAhead
    <3>. QED BY <1>8, <3>3
  <2>. QED BY <2>1, <2>2
<1>10. RepeatedOnlyWhenWhole'
  <2>. SUFFICES ASSUME NEW p \in Index, NEW i \in DOMAIN corpus[p], delivered'[p][i] > 1
                PROVE  Whole(p)'
    BY <1>1 DEF RepeatedOnlyWhenWhole, Whole
  <2>1. delivered[p][i] \in 0 .. 2 /\ i \in Nat
    BY <1>2
  <2>2. Whole(p)
    <3>1. CASE delivered[p][i] > 1
      BY <3>1 DEF SearchInv, RepeatedOnlyWhenWhole, Whole
    <3>2. CASE ~(delivered[p][i] > 1)
      <4>1. i > fetched[p].start /\ delivered[p][i] > 0
        <5>1. /\ i <= fetched[p].start => delivered'[p][i] = delivered[p][i]
              /\ delivered'[p][i] <= delivered[p][i] + 1
          BY <1>5
        <5>2. fetched[p].start \in Nat /\ delivered'[p][i] \in 0 .. 2
          BY <1>1, <1>2, <1>3
        <5>. QED BY <2>1, <3>2, <5>1, <5>2
      <4>. QED BY <1>2, <4>1 DEF SearchInv, NothingAhead
    <3>. QED BY <3>1, <3>2
  <2>. QED BY <1>8, <2>2
<1>11. ASSUME NEW p \in Index PROVE CallOK(p)'
  <2>1. phase' \notin {"fetching", "bounding"}
    BY <1>1
  <2>. QED BY <1>1, <2>1 DEF SearchInv, CallOK, FetchedOK, Offset
<1>12. cursors' \in [Index -> Nat \cup {None}]
  BY <1>6 DEF Answer
<1>13. /\ UNCHANGED <<corpus, fetched, kept>> /\ phase' \in {"finished", "idle"}
  BY DEF Answer, bounding
<1>. QED BY <1>3, <1>6, <1>7, <1>9, <1>10, <1>11, <1>12, <1>13 DEF SearchInv

LEMMA SearchInvStep == SearchInv /\ [Next]_vars => SearchInv'
<1>. SUFFICES ASSUME SearchInv, [Next]_vars PROVE SearchInv'
  OBVIOUS
<1>1. CASE UNCHANGED vars \/ SearchRefused
  <2>1. UNCHANGED <<corpus, phase, cursors, fetched, kept, delivered>>
    BY <1>1 DEF vars, SearchRefused, bounding
  <2>2. \A p \in Index : CallOK(p)'
    BY <2>1 DEF SearchInv, CallOK, FetchedOK, Offset
  <2>. QED BY <2>1, <2>2, CallGoesOn DEF SearchInv
<1>2. CASE Return
  <2>1. \A p \in Index : kept[p] \in 0 .. fetched[p].hits
    BY <1>2 DEF Return, SearchInv, CallOK
  <2>. QED BY <1>2, <2>1, AnswerStep DEF Return
<1>3. CASE Defer
  <2>1. PICK p \in Trials : Answer([q \in Index |-> IF q = p THEN 1 ELSE 0])
    BY <1>3 DEF Defer
  <2>. DEFINE progressed == [q \in Index |-> IF q = p THEN 1 ELSE 0]
  <2>2. \A q \in Index : progressed[q] \in 0 .. fetched[q].hits
    BY DEF Trials, SearchInv, CallOK, FetchedOK
  <2>. HIDE DEF progressed
  <2>. QED BY <1>3, <2>1, <2>2, AnswerStep DEF Defer, Exhausted, progressed
<1>. QED BY <1>1, <1>2, <1>3, SubmitStep, FetchStep, JoinStep, BoundingStep DEF Next

-----------------------------------------------------------------------------
\* Once an answer came back, every record before a provider's cursor, and every
\* record of a provider without one, was delivered.
THEOREM NothingEverSkipped == Spec => []NothingSkipped
<1>1. SearchInv => NothingSkipped
  BY DEF SearchInv
<1>. QED BY <1>1, SearchInvInit, SearchInvStep, PTL DEF Spec

\* A caller that follows continuations gets a record again only from a provider
\* that was delivered whole before.
THEOREM OnlyWholeRepeated == Spec => []RepeatedOnlyWhenWhole
<1>1. SearchInv => RepeatedOnlyWhenWhole
  BY DEF SearchInv
<1>. QED BY <1>1, SearchInvInit, SearchInvStep, PTL DEF Spec

-----------------------------------------------------------------------------
(* What can be proved of the end of a search: a call always goes on, it    *)
(* runs down, and an answer that is not the last has moved some provider   *)
(* on, unless it reports a failure.                                        *)

\* A page that the provider of p may send next.
PageFits(p, n) ==
  /\ n <= Quota(p) - fetched[p].hits /\ Offset(p) + n <= Len(corpus[p])
  /\ n = 0 => ~More(p)

\* A thread has a page to fetch or a reason to stop, the call is joined, or the
\* loop has a turn: a result to return, a compaction to try, a hit to remove, an
\* error to raise, or a trial to make.
GoesOn ==
  \/ phase \in {"idle", "finished"}
  \/ phase = "fetching" /\ \A p \in Index : fetched[p].outcome # "fetching"
  \/ phase = "fetching" /\ \E p \in Index :
        /\ fetched[p].outcome = "fetching"
        /\ \/ Fetching(p) /\ \E n \in 0 .. PageLimit : PageFits(p, n)
           \/ fetched[p].pages = MaxPages \/ fetched[p].hits >= Quota(p)
  \/ phase = "bounding" /\
        (Acceptable \/ compacted < 3 \/ HasHits \/ ~FitsCost(ResultCost) \/ Trials # {})

\* Of the providers isolated, the compactions tried and the hits removed, the
\* first that a turn of the loop changes goes on, to an end.
Narrows ==
  \/ excluded \subseteq excluded' /\ excluded # excluded' /\ excluded' \subseteq Index
  \/ excluded' = excluded /\ compacted < compacted' /\ compacted' <= 3
  \/ /\ UNCHANGED <<excluded, compacted>>
     /\ \E p \in Index : kept[p] > 0 /\ kept' = [kept EXCEPT ![p] = @ - 1]

\* A thread ends, or counts one more of the pages it may fetch.
Fetches(p) ==
  /\ fetched[p].outcome = "fetching"
  /\ \/ fetched'[p].outcome # "fetching"
     \/ fetched[p].pages < fetched'[p].pages /\ fetched'[p].pages <= MaxPages
  /\ \A q \in Index \ {p} : fetched'[q] = fetched[q]

SearchRunsDown ==
  [][/\ phase = "fetching" => phase' = "bounding" \/ \E p \in Index : Fetches(p)
     /\ phase = "bounding" => phase' \in {"idle", "finished"} \/ Narrows]_vars

\* The continuation asks for what comes after what the last one asked for.
MovesOn(p) ==
  IF cursors'[p] = None THEN StartOf(cursors[p]) < Len(corpus[p])
  ELSE StartOf(cursors[p]) < cursors'[p]

\* An answer, which the caller is to continue, is no empty promise.  (A call that
\* ends without one has cost or a measurement to blame.)
AnswersMoveOn ==
  [][phase = "bounding" /\ phase' = "idle" /\ FitsCost(ResultCost) /\ ~MeasurementUnstable =>
       Failed # {} \/ \E p \in Index : MovesOn(p)]_vars

\* A provider that is done without a failure was asked for something, and gave
\* something or has no more.
ThreadOK(p) ==
  /\ fetched[p].pages <= MaxPages
  /\ fetched[p].outcome = "fetching" /\ fetched[p].pages > 0 => fetched[p].hits > 0
  /\ fetched[p].outcome = "success" => fetched[p].hits > 0 \/ ~More(p)

\* The hits of an isolated provider stay out, and hits are removed only from
\* providers that have some to try alone.
LoopInv ==
  /\ SearchInv
  /\ compacted \in 0 .. 3
  /\ phase = "fetching" => excluded = {} /\ ~removed
  /\ phase \in {"fetching", "bounding"} => \A p \in Index : ThreadOK(p)
  /\ phase = "bounding" =>
        /\ excluded \subseteq Failed
        /\ \A p \in Index : fetched[p].outcome # "fetching"
        /\ \A p \in excluded : kept[p] = 0
        /\ removed => Trials # {}
        /\ ~removed => \A p \in Index \ excluded : kept[p] = fetched[p].hits

LEMMA QuotaIsPositive ==
  ASSUME NEW p \in Index
  PROVE  Quota(p) \in Nat /\ Quota(p) >= 1
<1>. DEFINE q == MaxResults \div ProviderCount
            r == MaxResults % ProviderCount
<1>1. MaxResults \in Nat /\ ProviderCount \in Nat /\ ProviderCount >= 1 /\ MaxResults >= ProviderCount
  BY SearchAssumption
<1>2. q \in Int /\ r \in Int /\ MaxResults = ProviderCount * q + r /\ 0 <= r /\ r < ProviderCount
  BY <1>1
<1>. HIDE DEF q, r
<1>3. q >= 1
  <2>. SUFFICES ASSUME q <= 0 PROVE FALSE
    BY <1>2
  <2>1. ProviderCount * q <= 0
    BY <1>1, <1>2
  <2>. QED BY <1>1, <1>2, <2>1
<1>4. Quota(p) = q + (IF p <= r THEN 1 ELSE 0)
  BY DEF Quota, q, r
<1>. QED BY <1>2, <1>3, <1>4

LEMMA FetchedFacts ==
  ASSUME SearchInv, NEW p \in Index
  PROVE  /\ fetched[p] \in [start : Nat, hits : Nat, pages : Nat, outcome : Outcomes]
         /\ Offset(p) = fetched[p].start + fetched[p].hits
         /\ Len(corpus[p]) \in Nat /\ Offset(p) <= Len(corpus[p])
BY DEF SearchInv, CallOK, FetchedOK, Offset

-----------------------------------------------------------------------------
(* Fetching runs down.                                                     *)

\* What a step of a thread makes of what it fetched.
LEMMA ThreadStep ==
  ASSUME LoopInv, NEW p \in Index,
         \/ \E n \in 0 .. PageLimit : FetchPage(p, n) \/ FetchRefused(p, n)
         \/ FetchStops(p) \/ FetchFails(p)
  PROVE  /\ phase = "fetching" /\ UNCHANGED <<corpus, phase, cursors, bounding>>
         /\ ThreadOK(p)' /\ Fetches(p)
<1>1. /\ fetched[p] \in [start : Nat, hits : Nat, pages : Nat, outcome : Outcomes]
      /\ Offset(p) = fetched[p].start + fetched[p].hits
      /\ Len(corpus[p]) \in Nat /\ Offset(p) <= Len(corpus[p])
  BY FetchedFacts DEF LoopInv
<1>2. fetched = [q \in Index |-> fetched[q]] /\ MaxPages \in Nat \ {0} /\ PageLimit \in Nat
  BY SearchAssumption DEF LoopInv, SearchInv
<1>3. phase = "fetching" /\ fetched[p].outcome = "fetching" /\ ThreadOK(p)
  BY DEF LoopInv, FetchPage, FetchRefused, FetchStops, FetchFails, Page, Fetching
<1>4. ASSUME NEW n \in 0 .. PageLimit, NEW outcome \in Outcomes, Page(p, n, outcome),
             outcome = "fetching" => Offset(p) + n < Len(corpus[p]) /\ (n = 0 => ~More(p)),
             outcome = "success" => ~(Offset(p) + n < Len(corpus[p]))
      PROVE  UNCHANGED <<corpus, phase, cursors, bounding>> /\ ThreadOK(p)' /\ Fetches(p)
  <2>. DEFINE f == [start |-> fetched[p].start, hits |-> fetched[p].hits + n,
                    pages |-> fetched[p].pages + 1, outcome |-> outcome]
  <2>1. /\ UNCHANGED <<corpus, phase, cursors, bounding>> /\ fetched[p].pages < MaxPages
        /\ fetched' = [fetched EXCEPT ![p] = f]
    BY <1>4 DEF Page, Fetching
  <2>2. fetched'[p] = f /\ \A q \in Index \ {p} : fetched'[q] = fetched[q]
    BY <1>2, <2>1
  <2>3. n \in Nat
    BY <1>2
  <2>4. ThreadOK(p)'
    <3>1. outcome = "fetching" => n > 0
      <4>. SUFFICES ASSUME outcome = "fetching", n = 0 PROVE FALSE
        BY <2>3
      <4>1. Offset(p) \in Nat
        BY <1>1
      <4>2. Offset(p) + n < Len(corpus[p]) /\ ~(Offset(p) < Len(corpus[p]))
        BY <1>4 DEF More
      <4>. QED BY <4>1, <4>2
    <3>2. outcome = "success" => ~More(p)'
      BY <1>1, <1>4, <2>1, <2>2, <2>3 DEF More, Offset
    <3>3. f.pages <= MaxPages /\ f.hits = fetched[p].hits + n /\ f.outcome = outcome
      BY <1>1, <1>2, <2>1
    <3>. QED BY <1>1, <2>2, <2>3, <3>1, <3>2, <3>3 DEF ThreadOK
  <2>5. fetched[p].pages < f.pages /\ f.pages <= MaxPages
    <3>1. fetched[p].pages \in Nat /\ f.pages = fetched[p].pages + 1 /\ MaxPages \in Nat
      BY <1>1, <1>2
    <3>. HIDE DEF f
    <3>. QED BY <2>1, <3>1
  <2>6. Fetches(p)
    BY <1>3, <2>2, <2>5 DEF Fetches
  <2>. QED BY <2>1, <2>4, <2>6
<1>5. ASSUME NEW n \in 0 .. PageLimit, FetchPage(p, n) \/ FetchRefused(p, n)
      PROVE  UNCHANGED <<corpus, phase, cursors, bounding>> /\ ThreadOK(p)' /\ Fetches(p)
  BY <1>4, <1>5 DEF FetchPage, FetchRefused, Outcomes
<1>6. CASE FetchStops(p) \/ FetchFails(p)
  <2>1. PICK outcome \in {"success", "failed"} :
          /\ fetched' = [fetched EXCEPT ![p].outcome = outcome]
          /\ outcome = "success" => fetched[p].pages = MaxPages \/ fetched[p].hits >= Quota(p)
          /\ UNCHANGED <<corpus, phase, cursors, bounding>>
    BY <1>6 DEF FetchStops, FetchFails
  <2>2. /\ fetched'[p].outcome = outcome /\ fetched'[p].hits = fetched[p].hits
        /\ fetched'[p].pages = fetched[p].pages
        /\ \A q \in Index \ {p} : fetched'[q] = fetched[q]
    BY <1>1, <1>2, <2>1
  <2>3. outcome = "success" => fetched[p].hits > 0
    BY <1>1, <1>2, <1>3, <2>1, QuotaIsPositive DEF ThreadOK
  <2>4. ThreadOK(p)'
    BY <1>3, <2>1, <2>2, <2>3 DEF ThreadOK
  <2>. QED BY <1>3, <2>1, <2>2, <2>4 DEF Fetches
<1>. QED BY <1>3, <1>5, <1>6

LEMMA FetchingStep ==
  ASSUME LoopInv, SearchInv',
         \/ \E p \in Index, n \in 0 .. PageLimit : FetchPage(p, n) \/ FetchRefused(p, n)
         \/ \E p \in Index : FetchStops(p) \/ FetchFails(p)
  PROVE  LoopInv'
<1>1. PICK p \in Index :
         \/ \E n \in 0 .. PageLimit : FetchPage(p, n) \/ FetchRefused(p, n)
         \/ FetchStops(p) \/ FetchFails(p)
  OBVIOUS
<1>2. /\ phase = "fetching" /\ UNCHANGED <<corpus, phase, cursors, bounding>>
      /\ ThreadOK(p)' /\ Fetches(p)
  BY <1>1, ThreadStep
<1>3. ASSUME NEW q \in Index \ {p} PROVE ThreadOK(q)'
  <2>1. ThreadOK(q) /\ fetched'[q] = fetched[q] /\ corpus' = corpus
    BY <1>2 DEF LoopInv, Fetches
  <2>. QED BY <2>1 DEF ThreadOK, More, Offset
<1>. QED BY <1>2, <1>3 DEF LoopInv, bounding

-----------------------------------------------------------------------------
(* The loop narrows what it may return.                                    *)

\* The provider to isolate is one of those not isolated yet.
LEMMA IsolateNarrows ==
  ASSUME LoopInv, Isolate
  PROVE  /\ Narrows /\ phase' = "bounding"
         /\ \E p \in Index \ excluded :
              /\ excluded' = excluded \cup {p}
              /\ fetched' = [fetched EXCEPT ![p].outcome = "failed"]
         /\ kept' = [q \in Index |-> IF q \in excluded' THEN 0 ELSE fetched[q].hits]
         /\ removed' = FALSE /\ UNCHANGED <<corpus, compacted>>
<1>1. PICK p \in Failing :
        /\ fetched' = [fetched EXCEPT ![p].outcome = "failed"]
        /\ excluded' = excluded \cup {p}
        /\ kept' = [q \in Index |-> IF q \in excluded' THEN 0 ELSE fetched[q].hits]
  BY DEF Isolate
<1>2. p \in Index \ excluded
  BY DEF Failing, Trials
<1>3. /\ phase = "bounding" /\ excluded \subseteq Index
      /\ removed' = FALSE /\ UNCHANGED <<corpus, phase, compacted>>
  BY DEF Isolate, Exhausted, LoopInv, Failed
<1>. QED BY <1>1, <1>2, <1>3 DEF Narrows

LEMMA RemovalNarrows ==
  ASSUME LoopInv, RemoveHit
  PROVE  /\ Narrows /\ phase' = "bounding"
         /\ \E p \in Index : kept[p] > 0 /\ kept' = [kept EXCEPT ![p] = @ - 1]
         /\ removed' = TRUE /\ UNCHANGED <<corpus, fetched, excluded, compacted>>
<1>1. phase = "bounding" /\ HasHits /\ removed' = TRUE /\ UNCHANGED <<corpus, phase, fetched, excluded, compacted>>
  BY DEF RemoveHit, Exhausted
<1>2. PICK p \in Index : (\A q \in Index \ {p} : Before(q, p)) /\ kept' = [kept EXCEPT ![p] = @ - 1]
  BY DEF RemoveHit
<1>3. kept[p] > 0
  BY <1>1, <1>2, RemovedHitExists DEF LoopInv
<1>. QED BY <1>1, <1>2, <1>3 DEF Narrows

LEMMA LoopStep ==
  ASSUME LoopInv, SearchInv', Compact \/ RemoveHit \/ Isolate
  PROVE  LoopInv'
<1>1. \A q \in Index : fetched[q] \in [start : Nat, hits : Nat, pages : Nat, outcome : Outcomes]
  BY FetchedFacts DEF LoopInv
<1>2. fetched = [q \in Index |-> fetched[q]] /\ kept = [q \in Index |-> kept[q]]
  BY DEF LoopInv, SearchInv
<1>3. phase = "bounding" /\ phase' = phase
  BY DEF Compact, RemoveHit, Isolate, Exhausted
<1>4. CASE Compact
  <2>1. compacted' \in 0 .. 3
    BY <1>4 DEF Compact, LoopInv
  <2>2. UNCHANGED <<corpus, phase, fetched, kept, excluded, removed>>
    BY <1>4 DEF Compact
  <2>3. Failed' = Failed /\ Trials' = Trials /\ \A p \in Index : ThreadOK(p)' = ThreadOK(p)
    BY <2>2 DEF Failed, Trials, ThreadOK, More, Offset
  <2>. QED BY <1>3, <2>1, <2>2, <2>3 DEF LoopInv
<1>5. CASE RemoveHit
  <2>1. /\ removed' = TRUE /\ UNCHANGED <<corpus, fetched, excluded, compacted>>
        /\ \E p \in Index : kept[p] > 0 /\ kept' = [kept EXCEPT ![p] = @ - 1]
    BY <1>5, RemovalNarrows
  <2>2. PICK p \in Index : kept[p] > 0 /\ kept' = [kept EXCEPT ![p] = @ - 1]
    BY <2>1
  <2>3. kept[p] \in 0 .. fetched[p].hits
    BY <1>3 DEF LoopInv, SearchInv, CallOK
  <2>4. p \notin excluded
    BY <1>3, <2>2 DEF LoopInv
  <2>5. p \in Trials
    BY <1>1, <2>2, <2>3, <2>4 DEF Trials
  <2>6. Failed' = Failed /\ Trials' = Trials /\ \A q \in Index : ThreadOK(q)' = ThreadOK(q)
    BY <2>1 DEF Failed, Trials, ThreadOK, More, Offset
  <2>7. \A q \in excluded : kept'[q] = 0
    BY <1>2, <1>3, <2>2, <2>4 DEF LoopInv, Failed
  <2>. QED BY <1>3, <2>1, <2>5, <2>6, <2>7 DEF LoopInv
<1>6. CASE Isolate
  <2>1. /\ \E p \in Index \ excluded : /\ excluded' = excluded \cup {p}
                                       /\ fetched' = [fetched EXCEPT ![p].outcome = "failed"]
        /\ kept' = [q \in Index |-> IF q \in excluded' THEN 0 ELSE fetched[q].hits]
        /\ removed' = FALSE /\ UNCHANGED <<corpus, compacted>>
    BY <1>6, IsolateNarrows
  <2>2. PICK p \in Index \ excluded : /\ excluded' = excluded \cup {p}
                                      /\ fetched' = [fetched EXCEPT ![p].outcome = "failed"]
    BY <2>1
  <2>3. /\ fetched'[p].outcome = "failed" /\ fetched'[p].pages = fetched[p].pages
        /\ fetched'[p].hits = fetched[p].hits
        /\ \A q \in Index \ {p} : fetched'[q] = fetched[q]
    BY <1>1, <1>2, <2>2
  <2>4. Failed' = Failed \cup {p}
    BY <2>3 DEF Failed
  <2>5. \A q \in Index : fetched'[q].outcome # "fetching"
    BY <1>3, <2>3 DEF LoopInv
  <2>6. \A q \in Index : ThreadOK(q)'
    <3>1. \A q \in Index \ {p} : ThreadOK(q)'
      BY <1>3, <2>1, <2>3 DEF LoopInv, ThreadOK, More, Offset
    <3>2. ThreadOK(p)'
      BY <1>3, <2>3 DEF LoopInv, ThreadOK
    <3>. QED BY <3>1, <3>2
  <2>7. /\ \A q \in Index : q \in excluded' => kept'[q] = 0
        /\ \A q \in Index \ excluded' : kept'[q] = fetched'[q].hits
    BY <2>1, <2>3
  <2>. QED BY <1>3, <2>1, <2>2, <2>4, <2>5, <2>6, <2>7 DEF LoopInv, Failed
<1>. QED BY <1>4, <1>5, <1>6

LEMMA LoopInvInit == Init => LoopInv
<1>. SUFFICES ASSUME Init PROVE LoopInv
  OBVIOUS
<1>1. SearchInv
  BY SearchInvInit
<1>. QED BY <1>1 DEF Init, LoopInv

LEMMA LoopInvStep == LoopInv /\ [Next]_vars => LoopInv'
<1>. SUFFICES ASSUME LoopInv, [Next]_vars PROVE LoopInv'
  OBVIOUS
<1>0. SearchInv /\ SearchInv'
  BY SearchInvStep DEF LoopInv
<1>1. CASE UNCHANGED vars \/ SearchRefused
  <2>1. UNCHANGED <<corpus, phase, fetched, kept, excluded, compacted, removed>>
    BY <1>1 DEF vars, SearchRefused, bounding
  <2>2. Failed' = Failed /\ Trials' = Trials /\ \A p \in Index : ThreadOK(p)' = ThreadOK(p)
    BY <2>1 DEF Failed, Trials, ThreadOK, More, Offset
  <2>. QED BY <1>0, <2>1, <2>2 DEF LoopInv
<1>2. CASE Submit
  <2>1. \A p \in Index : fetched'[p] = [start |-> StartOf(cursors[p]), hits |-> 0, pages |-> 0, outcome |-> "fetching"]
    BY <1>2 DEF Submit
  <2>2. \A p \in Index : ThreadOK(p)'
    <3>1. ASSUME NEW p \in Index
          PROVE  fetched'[p].pages = 0 /\ fetched'[p].hits = 0 /\ fetched'[p].outcome = "fetching"
      <4>. DEFINE f == [start |-> StartOf(cursors[p]), hits |-> 0, pages |-> 0, outcome |-> "fetching"]
      <4>1. fetched'[p] = f
        BY <2>1
      <4>2. f.pages = 0 /\ f.hits = 0 /\ f.outcome = "fetching"
        OBVIOUS
      <4>. HIDE DEF f
      <4>. QED BY <4>1, <4>2
    <3>2. MaxPages \in Nat
      BY SearchAssumption
    <3>. QED BY <3>1, <3>2 DEF ThreadOK
  <2>. QED BY <1>0, <1>2, <2>2 DEF Submit, LoopInv
<1>3. CASE \/ \E p \in Index, n \in 0 .. PageLimit : FetchPage(p, n) \/ FetchRefused(p, n)
           \/ \E p \in Index : FetchStops(p) \/ FetchFails(p)
  BY <1>0, <1>3, FetchingStep
<1>4. CASE Join
  <2>1. /\ phase = "fetching" /\ phase' = "bounding" /\ kept' = [p \in Index |-> fetched[p].hits]
        /\ \A p \in Index : fetched[p].outcome # "fetching"
        /\ UNCHANGED <<corpus, fetched, excluded, compacted, removed>>
    BY <1>4 DEF Join
  <2>2. \A p \in Index : ThreadOK(p)'
    BY <2>1 DEF LoopInv, ThreadOK, More, Offset
  <2>. QED BY <1>0, <2>1, <2>2 DEF LoopInv
<1>5. CASE Compact \/ RemoveHit \/ Isolate
  BY <1>0, <1>5, LoopStep
<1>6. CASE Return \/ BudgetExceeded \/ MeasurementUnstable \/ Defer
  <2>1. phase' \in {"idle", "finished"} /\ compacted' = compacted
    BY <1>6 DEF Return, BudgetExceeded, MeasurementUnstable, Defer, Answer, bounding
  <2>. QED BY <1>0, <2>1 DEF LoopInv
<1>. QED BY <1>1, <1>2, <1>3, <1>4, <1>5, <1>6 DEF Next

-----------------------------------------------------------------------------
\* The search never gets stuck within a call.  In particular, when no hit is left
\* inline some provider has one to try alone: the branch of the loop that would
\* raise for want of a trial is never taken.
THEOREM SearchAlwaysGoesOn == Spec => []GoesOn
<1>1. LoopInv => GoesOn
  <2>. SUFFICES ASSUME LoopInv PROVE GoesOn
    OBVIOUS
  <2>1. phase \in {"idle", "fetching", "bounding", "finished"}
    BY DEF LoopInv, SearchInv
  <2>2. CASE phase = "bounding"
    <3>. SUFFICES ASSUME ~Acceptable, FitsCost(ResultCost), ~HasHits PROVE Trials # {}
      BY <2>2 DEF GoesOn
    <3>1. removed
      BY DEF Acceptable
    <3>. QED BY <2>2, <3>1 DEF LoopInv
  <2>3. ASSUME phase = "fetching", NEW p \in Index, fetched[p].outcome = "fetching",
               ~(fetched[p].pages = MaxPages \/ fetched[p].hits >= Quota(p))
        PROVE  Fetching(p) /\ \E n \in 0 .. PageLimit : PageFits(p, n)
    <3>1. /\ fetched[p] \in [start : Nat, hits : Nat, pages : Nat, outcome : Outcomes]
          /\ Len(corpus[p]) \in Nat /\ Offset(p) <= Len(corpus[p]) /\ Offset(p) \in Nat
      BY FetchedFacts DEF LoopInv
    <3>2. PageLimit \in Nat \ {0} /\ MaxPages \in Nat /\ fetched[p].pages <= MaxPages
      BY <2>3, SearchAssumption DEF LoopInv, ThreadOK
    <3>3. Fetching(p) /\ Quota(p) - fetched[p].hits >= 1
      BY <2>3, <3>1, <3>2, QuotaIsPositive DEF Fetching
    <3>4. CASE More(p)
      <4>1. PageFits(p, 1)
        BY <3>1, <3>3, <3>4 DEF PageFits, More
      <4>. QED BY <3>2, <3>3, <4>1
    <3>5. CASE ~More(p)
      <4>1. PageFits(p, 0)
        BY <3>1, <3>3, <3>5, QuotaIsPositive DEF PageFits
      <4>. QED BY <3>2, <3>3, <4>1
    <3>. QED BY <3>4, <3>5
  <2>. QED BY <2>1, <2>2, <2>3 DEF GoesOn
<1>. QED BY <1>1, LoopInvInit, LoopInvStep, PTL DEF Spec

\* Every call of the search ends: its threads fetch so many pages at most, and
\* each turn of the bounding loop, which starts over when it isolates a provider,
\* narrows what it may return.
THEOREM SearchAlwaysRunsDown == Spec => SearchRunsDown
<1>1. ASSUME LoopInv, [Next]_vars, ~UNCHANGED vars, phase = "fetching"
      PROVE  phase' = "bounding" \/ \E p \in Index : Fetches(p)
  <2>1. \/ Join
        \/ \E p \in Index, n \in 0 .. PageLimit : FetchPage(p, n) \/ FetchRefused(p, n)
        \/ \E p \in Index : FetchStops(p) \/ FetchFails(p)
    BY <1>1 DEF Next, Submit, SearchRefused, Return, Compact, RemoveHit, BudgetExceeded, MeasurementUnstable,
                Defer, Isolate, Exhausted
  <2>2. Join => phase' = "bounding"
    BY DEF Join
  <2>. QED BY <1>1, <2>1, <2>2, ThreadStep
<1>2. ASSUME LoopInv, [Next]_vars, ~UNCHANGED vars, phase = "bounding"
      PROVE  phase' \in {"idle", "finished"} \/ Narrows
  <2>1. Return \/ Compact \/ RemoveHit \/ BudgetExceeded \/ MeasurementUnstable \/ Defer \/ Isolate
    BY <1>2 DEF Next, Submit, SearchRefused, FetchPage, FetchRefused, Page, Fetching, FetchStops, FetchFails, Join
  <2>2. Compact => Narrows
    BY <1>2 DEF Compact, Narrows, LoopInv
  <2>3. Return \/ BudgetExceeded \/ MeasurementUnstable \/ Defer => phase' \in {"idle", "finished"}
    BY DEF Return, BudgetExceeded, MeasurementUnstable, Defer, Answer
  <2>. QED BY <1>2, <2>1, <2>2, <2>3, IsolateNarrows, RemovalNarrows
<1>3. LoopInv /\ [Next]_vars =>
        [/\ phase = "fetching" => phase' = "bounding" \/ \E p \in Index : Fetches(p)
         /\ phase = "bounding" => phase' \in {"idle", "finished"} \/ Narrows]_vars
  BY <1>1, <1>2
<1>. QED BY <1>3, LoopInvInit, LoopInvStep, PTL DEF Spec, SearchRunsDown

\* An answer that holds a record of a provider moves the cursor of that provider.
LEMMA AnswerMoves ==
  ASSUME SearchInv, phase = "bounding", NEW progressed, Answer(progressed),
         NEW p \in Index, progressed[p] \in 1 .. fetched[p].hits
  PROVE  MovesOn(p)
<1>1. cursors'[p] = Cursor(p, progressed[p])
  BY DEF Answer
<1>2. fetched[p].start = StartOf(cursors[p]) /\ fetched[p].start \in Nat /\ fetched[p].hits \in Nat
  BY DEF SearchInv, CallOK, FetchedOK
<1>3. progressed[p] \in 0 .. fetched[p].hits /\ progressed[p] \in Nat /\ progressed[p] >= 1
  BY <1>2
<1>4. /\ cursors'[p] # None => cursors'[p] = fetched[p].start + progressed[p]
      /\ cursors'[p] = None => fetched[p].start + progressed[p] = Len(corpus[p])
  BY <1>1, <1>3, CursorStands
<1>. QED BY <1>2, <1>3, <1>4 DEF MovesOn

\* A caller that follows continuations gets on with every answer: it delivers a
\* record, or names a provider that failed, or is the last.
THEOREM AnswersAlwaysMoveOn == Spec => AnswersMoveOn
<1>1. ASSUME LoopInv, [Next]_vars, phase = "bounding", phase' = "idle", FitsCost(ResultCost), Failed = {},
             ~MeasurementUnstable
      PROVE  \E p \in Index : MovesOn(p)
  <2>0. SearchInv
    BY <1>1 DEF LoopInv
  <2>1. Return \/ Defer
    BY <1>1 DEF Next, vars, Submit, SearchRefused, FetchPage, FetchRefused, Page, FetchStops, FetchFails,
                Join, Compact, RemoveHit, BudgetExceeded, Isolate
  <2>2. CASE Defer
    <3>1. PICK p \in Trials : Answer([q \in Index |-> IF q = p THEN 1 ELSE 0])
      BY <2>2 DEF Defer
    <3>. DEFINE progressed == [q \in Index |-> IF q = p THEN 1 ELSE 0]
    <3>2. p \in Index /\ fetched[p].hits \in Nat /\ fetched[p].hits > 0
      BY <2>0, FetchedFacts DEF Trials
    <3>3. progressed[p] \in 1 .. fetched[p].hits
      BY <3>2
    <3>. HIDE DEF progressed
    <3>4. MovesOn(p)
      BY <1>1, <2>0, <3>1, <3>2, <3>3, AnswerMoves DEF progressed
    <3>. QED BY <3>2, <3>4
  <2>3. CASE Return /\ HasHits
    <3>1. PICK p \in Index : kept[p] > 0
      BY <2>3 DEF HasHits
    <3>2. kept[p] \in 0 .. fetched[p].hits /\ fetched[p].hits \in Nat
      BY <1>1, <2>0, FetchedFacts DEF SearchInv, CallOK
    <3>3. kept[p] \in 1 .. fetched[p].hits
      BY <3>1, <3>2
    <3>. QED BY <1>1, <2>0, <2>3, <3>3, AnswerMoves DEF Return
  <2>4. CASE Return /\ ~HasHits
    <3>1. ~removed /\ excluded = {} /\ Answer(kept)
      BY <1>1, <2>4 DEF Return, Acceptable, LoopInv
    <3>2. ASSUME NEW p \in Index PROVE Cursor(p, kept[p]) = None
      <4>1. kept[p] = fetched[p].hits /\ fetched[p].hits \in Nat
        BY <1>1, <2>0, <3>1, FetchedFacts DEF LoopInv
      <4>2. fetched[p].hits = 0
        BY <2>4, <4>1 DEF HasHits
      <4>3. fetched[p].outcome = "success"
        BY <1>1, <2>0, FetchedFacts DEF LoopInv, Failed, Outcomes
      <4>4. ~More(p)
        BY <1>1, <4>2, <4>3 DEF LoopInv, ThreadOK
      <4>. QED BY <4>1, <4>2, <4>3, <4>4 DEF Cursor, ThreadCursor
    <3>3. phase' = "finished"
      BY <3>1, <3>2 DEF Answer
    <3>. QED BY <1>1, <3>3
  <2>. QED BY <2>1, <2>2, <2>3, <2>4
<1>2. LoopInv /\ [Next]_vars =>
        [phase = "bounding" /\ phase' = "idle" /\ FitsCost(ResultCost) /\ ~MeasurementUnstable =>
           Failed # {} \/ \E p \in Index : MovesOn(p)]_vars
  BY <1>1
<1>. QED BY <1>2, LoopInvInit, LoopInvStep, PTL DEF Spec, AnswersMoveOn
=============================================================================
