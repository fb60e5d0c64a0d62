------------------------- MODULE RecordExportProofs -------------------------
(***************************************************************************)
(* For any number of callers, DNS slots, destinations, crashes and failed  *)
(* clean-ups: no slot is lost or released twice, the tokenizer data is     *)
(* downloaded once, and an export never touches a file that it did not     *)
(* create and keeps what it has answered.  Three invariants that do not    *)
(* need each other; most steps move one call and leave all three alone.    *)
(***************************************************************************)
EXTENDS RecordExport, TLAPS, FiniteSetTheorems

-----------------------------------------------------------------------------
(* The slots.                                                              *)

SlotInv == TransportTypeOK /\ SlotsAccounted

LEMMA WaitingFinite == IsFiniteSet(Waiting) /\ Cardinality(Waiting) \in Nat
<1>1. Waiting \subseteq Caller
  BY DEF Waiting
<1>2. IsFiniteSet(Waiting)
  BY <1>1, FS_Subset, TransportAssumption
<1>. QED BY <1>2, FS_CardinalityType

\* A caller that does not start to wait leaves no more waiting than before, and
\* one fewer if it waited.
LEMMA WaitingAfter ==
  ASSUME SlotInv, NEW c \in Caller, NEW get, get # Resolving("none"), Becomes(c, get)
  PROVE  /\ Cardinality(Waiting') <= Cardinality(Waiting)
         /\ Cardinality(Waiting') \in Nat
         /\ gets[c] = Resolving("none") => Cardinality(Waiting') = Cardinality(Waiting) - 1
<1>1. Waiting' = Waiting \ {c}
  BY DEF Waiting, Becomes, SlotInv, TransportTypeOK
<1>2. /\ IsFiniteSet(Waiting \ {c})
      /\ Cardinality(Waiting \ {c}) = IF c \in Waiting THEN Cardinality(Waiting) - 1
                                                       ELSE Cardinality(Waiting)
  BY WaitingFinite, FS_RemoveElement
<1>3. Cardinality(Waiting \ {c}) \in Nat
  BY <1>2, FS_CardinalityType
<1>4. gets[c] = Resolving("none") => c \in Waiting
  BY DEF Waiting
<1>. QED BY <1>1, <1>2, <1>3, <1>4, WaitingFinite

\* The get of one caller moves, and takes or gives back no slot.
LEMMA SlotsKept ==
  ASSUME SlotInv, NEW c \in Caller, NEW get \in Get, get # Resolving("none"),
         Becomes(c, get), UNCHANGED slotVars
  PROVE  SlotInv'
<1>1. TransportTypeOK'
  BY DEF SlotInv, TransportTypeOK, Becomes, slotVars
<1>2. Cardinality(Waiting') <= lookups
  BY WaitingAfter, WaitingFinite DEF SlotInv, SlotsAccounted, TransportTypeOK
<1>. QED BY <1>1, <1>2 DEF SlotInv, SlotsAccounted, slotVars

LEMMA AcquireStep ==
  ASSUME SlotInv, NEW c \in Caller, AcquireSlot(c) \/ ThreadDoesNotStart(c)
  PROVE  SlotInv'
<1>1. CASE AcquireSlot(c)
  <2>1. Resolving("none") \in Get /\ Acquiring # Resolving("none")
    BY DEF Get, Resolving, Acquiring
  <2>2. TransportTypeOK'
    BY <1>1, <2>1 DEF AcquireSlot, SlotInv, TransportTypeOK, Becomes
  <2>3. Waiting' = Waiting \cup {c} /\ c \notin Waiting
    BY <1>1, <2>1 DEF AcquireSlot, Waiting, Becomes, SlotInv, TransportTypeOK
  <2>4. Cardinality(Waiting') = Cardinality(Waiting) + 1
    BY <2>3, WaitingFinite, FS_AddElement
  <2>. QED BY <1>1, <2>2, <2>4, WaitingFinite, TransportAssumption
           DEF AcquireSlot, SlotInv, TransportTypeOK, SlotsAccounted
<1>2. CASE ThreadDoesNotStart(c)
  <2>1. Done("raised") \in Get /\ Done("raised") # Resolving("none")
    BY DEF Get, Done, Resolving, Outcome
  <2>2. TransportTypeOK'
    BY <1>2, <2>1 DEF ThreadDoesNotStart, SlotInv, TransportTypeOK, Becomes
  <2>3. Cardinality(Waiting') <= lookups
    BY <1>2, <2>1, WaitingAfter, WaitingFinite
       DEF ThreadDoesNotStart, SlotInv, SlotsAccounted, TransportTypeOK
  <2>. QED BY <1>2, <2>2, <2>3, TransportAssumption
           DEF ThreadDoesNotStart, SlotInv, TransportTypeOK, SlotsAccounted
<1>. QED BY <1>1, <1>2

\* The rest of a caller's own steps.
LEMMA GetStepSlots ==
  ASSUME SlotInv, NEW c \in Caller, GetStep(c) \/ TargetRefused(c)
  PROVE  SlotInv'
<1>1. CASE AcquireSlot(c) \/ ThreadDoesNotStart(c)
  BY <1>1, AcquireStep
<1>2. ASSUME NEW get \in Get, get # Resolving("none"), Becomes(c, get), UNCHANGED slotVars
      PROVE  SlotInv'
  BY <1>2, SlotsKept
<1>3. \A o \in Outcome : Done(o) \in Get /\ Done(o) # Resolving("none")
  BY DEF Get, Done, Resolving
<1>4. \A n \in 1 .. MaxAttempts : Requesting(n) \in Get /\ Requesting(n) # Resolving("none")
  BY DEF Get, Requesting, Resolving
<1>5. CASE TargetRefused(c) \/ SlotTimesOut(c) \/ LookupTimesOut(c) \/ RequestAnswered(c)
  BY <1>2, <1>3, <1>5 DEF TargetRefused, SlotTimesOut, LookupTimesOut, RequestAnswered, Outcome
<1>6. CASE AnswerTaken(c)
  BY <1>2, <1>3, <1>4, <1>6, TransportAssumption DEF AnswerTaken, Outcome
<1>7. ASSUME NEW failure \in Retryable \cup Final, AttemptFails(c, failure)
      PROVE  SlotInv'
  <2>1. gets[c].attempt \in 1 .. MaxAttempts
    BY <1>7 DEF AttemptFails, SlotInv, TransportTypeOK, Get, Idle, Acquiring, Resolving,
                Requesting, Done
  <2>2. gets[c].attempt < MaxAttempts => gets[c].attempt + 1 \in 1 .. MaxAttempts
    BY <2>1, TransportAssumption
  <2>. QED BY <1>2, <1>3, <1>4, <1>7, <2>2 DEF AttemptFails, Outcome
<1>. QED BY <1>1, <1>5, <1>6, <1>7 DEF GetStep

\* A lookup that ends passes its slot to its thread's finally, which frees it.
LEMMA ResolverSlots ==
  ASSUME SlotInv, ResolverStep
  PROVE  SlotInv'
<1>1. ASSUME NEW c \in Caller, LookupAnswers(c)
      PROVE  SlotInv'
  <2>1. PICK answer \in Resolution : Becomes(c, Resolving(answer))
    BY <1>1 DEF LookupAnswers
  <2>2. Resolving(answer) \in Get /\ Resolving(answer) # Resolving("none")
    BY DEF Get, Resolving, Resolution
  <2>3. /\ Cardinality(Waiting') = Cardinality(Waiting) - 1
        /\ Cardinality(Waiting') \in Nat
    BY <1>1, <2>1, <2>2, WaitingAfter DEF LookupAnswers
  <2>4. lookups > 0
    BY <2>3, WaitingFinite DEF SlotInv, SlotsAccounted, TransportTypeOK
  <2>5. TransportTypeOK'
    BY <1>1, <2>1, <2>2, <2>4 DEF LookupAnswers, SlotInv, TransportTypeOK, Becomes
  <2>. QED BY <1>1, <2>3, <2>5, WaitingFinite, TransportAssumption
           DEF LookupAnswers, SlotInv, TransportTypeOK, SlotsAccounted
<1>2. CASE AbandonedLookupEnds
  <2>1. Waiting' = Waiting
    BY <1>2 DEF AbandonedLookupEnds, Waiting
  <2>. QED BY <1>2, <2>1, WaitingFinite, TransportAssumption
           DEF AbandonedLookupEnds, SlotInv, TransportTypeOK, SlotsAccounted
<1>3. CASE SlotReleased
  <2>1. Waiting' = Waiting
    BY <1>3 DEF SlotReleased, Waiting
  <2>. QED BY <1>3, <2>1, WaitingFinite, TransportAssumption
           DEF SlotReleased, SlotInv, TransportTypeOK, SlotsAccounted
<1>. QED BY <1>1, <1>2, <1>3 DEF ResolverStep

-----------------------------------------------------------------------------
(* The calls.  Most steps move one call between places where it holds      *)
(* neither a file nor the tokenizer lock.                                  *)

Holds(call) == call.at \in {"writing", "tokenizer"}

\* What is known of an export beside its place: once accepted, its rights have
\* been current since the record arrived and its digest is the expected one.
CallOK(call) ==
  /\ call.at \in {"fetch", "fetched", "opening", "writing"} => call.name \in Name
  /\ call.at \in {"fetched", "opening", "writing"} =>
        call = [at |-> call.at, name |-> call.name, expected |-> call.expected,
                digest |-> call.digest, late |-> call.late]
  /\ call.at = "fetched" => (call.late => ~rightsCurrent)
  /\ call.at \in {"opening", "writing"} => ~call.late /\ call.expected \in {None, call.digest}

CallsOK == calls = [c \in Caller |-> calls[c]] /\ \A c \in Caller : CallOK(calls[c])

\* A step of one call that holds nothing before it and nothing after it.
Quiet(c, call) ==
  /\ calls' = [calls EXCEPT ![c] = call] /\ CallOK(call)
  /\ ~Holds(calls[c]) /\ ~Holds(call)
  /\ (\E get \in {Idle, Acquiring} : Becomes(c, get)) \/ UNCHANGED gets
  /\ UNCHANGED <<slotVars, tokenizerVars, exportVars>>

PlainSteps(c) ==
  \/ ListProviders(c) \/ GetRecord(c) \/ CountTokens(c)
  \/ \E entryTypes \in 1 .. 2 : InspectProvider(c, entryTypes)
  \/ Proceeds(c) \/ CallFails(c)

ExportSteps(c) ==
  \/ \E n \in Name, expected \in Digest \cup {None} : ExportBegins(c, n, expected)
  \/ FetchFails(c) \/ \E digest \in Digest : RecordFetched(c, digest)
  \/ FetchAccepted(c) \/ FetchRejected(c) \/ OpenFails(c)

\* A call at one of its gets, or none, is no export and holds nothing.
LEMMA PlainCall ==
  /\ CallOK(NoCall) /\ ~Holds(NoCall)
  /\ \A place \in Plain : \A left : CallOK(At(place, left)) /\ ~Holds(At(place, left))
  /\ \A call : call.at \in Plain \cup {"none"} => ~Holds(call)
BY DEF CallOK, Holds, NoCall, At, Plain

LEMMA BeginsQuietly ==
  ASSUME NEW c \in Caller, NEW call, CallOK(call), ~Holds(call), Begins(c, call), UNCHANGED exportVars
  PROVE  Quiet(c, call)
BY PlainCall DEF Begins, CanBegin, Moves, Quiet, Holds, NoCall

LEMMA PlainQuiet ==
  ASSUME CallsOK, NEW c \in Caller, PlainSteps(c), UNCHANGED exportVars
  PROVE  \E call : Quiet(c, call)
<1>1. ASSUME NEW place \in Plain, NEW left, Begins(c, At(place, left))
      PROVE  Quiet(c, At(place, left))
  BY <1>1, PlainCall, BeginsQuietly
<1>2. CASE ListProviders(c) \/ GetRecord(c) \/ \E entryTypes \in 1 .. 2 : InspectProvider(c, entryTypes)
  BY <1>1, <1>2 DEF ListProviders, GetRecord, InspectProvider, Plain
<1>3. CASE CountTokens(c)
  <2>1. CallOK([at |-> "lock"]) /\ ~Holds([at |-> "lock"])
    BY DEF CallOK, Holds
  <2>2. PICK call \in {NoCall, [at |-> "lock"]} : calls' = [calls EXCEPT ![c] = call]
    BY <1>3 DEF CountTokens
  <2>. QED BY <1>3, <2>1, <2>2, PlainCall
           DEF CountTokens, CanBegin, Quiet, transportVars, slotVars, Holds, NoCall
<1>4. CASE Proceeds(c)
  <2>1. PICK call \in Following(calls[c]) :
           IF call = NoCall THEN Ends(c) ELSE Moves(c, call, Acquiring)
    BY <1>4 DEF Proceeds
  <2>2. call = NoCall \/ \E place \in Plain : \E left : call = At(place, left)
    BY <2>1 DEF Following, Plain
  <2>3. CallOK(call) /\ ~Holds(call)
    BY <2>2, PlainCall
  <2>4. /\ calls' = [calls EXCEPT ![c] = call]
        /\ Becomes(c, Idle) \/ Becomes(c, Acquiring)
    BY <2>1 DEF Ends, Moves
  <2>5. ~Holds(calls[c]) /\ UNCHANGED <<slotVars, tokenizerVars>>
    BY <1>4, PlainCall DEF Proceeds
  <2>. QED BY <2>3, <2>4, <2>5 DEF Quiet
<1>5. CASE CallFails(c)
  <2>1. Quiet(c, NoCall)
    BY <1>5, PlainCall DEF CallFails, Ends, Moves, Quiet
  <2>. QED BY <2>1
<1>. QED BY <1>2, <1>3, <1>4, <1>5 DEF PlainSteps

LEMMA ExportQuiet ==
  ASSUME CallsOK, NEW c \in Caller, ExportSteps(c)
  PROVE  \E call : Quiet(c, call)
<1>. DEFINE call == calls[c]
<1>1. ASSUME NEW n \in Name, NEW expected, ExportBegins(c, n, expected)
      PROVE  Quiet(c, Export(n, expected))
  <2>1. CallOK(Export(n, expected)) /\ ~Holds(Export(n, expected))
    BY DEF CallOK, Holds, Export
  <2>. QED BY <1>1, <2>1, BeginsQuietly DEF ExportBegins
<1>2. CASE FetchFails(c) \/ FetchRejected(c) \/ OpenFails(c)
  <2>1. ~Holds(calls[c]) /\ Ends(c) /\ UNCHANGED <<slotVars, tokenizerVars, exportVars>>
    BY <1>2 DEF FetchFails, FetchRejected, OpenFails, Rest, Holds
  <2>2. Quiet(c, NoCall)
    BY <2>1, PlainCall DEF Ends, Moves, Quiet
  <2>. QED BY <2>2
<1>3. ASSUME NEW digest, RecordFetched(c, digest)
      PROVE  \E x : Quiet(c, x)
  <2>. DEFINE x == Fetched(call, digest, ~rightsCurrent)
  <2>1. call.name \in Name /\ ~Holds(call)
    BY <1>3 DEF RecordFetched, CallsOK, CallOK, Holds
  <2>2. CallOK(x) /\ ~Holds(x)
    BY <2>1 DEF CallOK, Holds, Fetched
  <2>3. Moves(c, x, Idle) /\ UNCHANGED <<slotVars, tokenizerVars, exportVars>>
    BY <1>3 DEF RecordFetched, Rest
  <2>. HIDE DEF x
  <2>. QED BY <2>1, <2>2, <2>3 DEF Quiet, Moves
<1>4. CASE FetchAccepted(c)
  <2>. DEFINE x == [call EXCEPT !.at = "opening"]
  <2>1. CallOK(call) /\ call.at = "fetched" /\ ~Holds(call)
    BY <1>4 DEF FetchAccepted, CallsOK, Holds
  <2>2. ~call.late /\ call.expected \in {None, call.digest}
    BY <1>4, <2>1 DEF FetchAccepted, AsExpected, CallOK
  <2>3. /\ x = [at |-> "opening", name |-> call.name, expected |-> call.expected,
                digest |-> call.digest, late |-> call.late]
        /\ call.name \in Name
    BY <2>1 DEF CallOK
  <2>4. CallOK(x) /\ ~Holds(x)
    BY <2>2, <2>3 DEF CallOK, Holds
  <2>5. calls' = [calls EXCEPT ![c] = x] /\ UNCHANGED <<gets, slotVars, tokenizerVars, exportVars>>
    BY <1>4 DEF FetchAccepted, Rest
  <2>. HIDE DEF x
  <2>. QED BY <2>1, <2>4, <2>5 DEF Quiet
<1>. QED BY <1>1, <1>2, <1>3, <1>4 DEF ExportSteps

-----------------------------------------------------------------------------
(* The steps by kind.                                                      *)

TokenizerSteps(c) == LockTaken(c) \/ TokenizerRead(c) \/ TokenizerFails(c)
WritingSteps(c) == Opens(c) \/ Written(c) \/ WriteFails(c)

LEMMA StepKinds ==
  ASSUME CallsOK, [Next]_vars
  PROVE  \/ \E c \in Caller : \E call : Quiet(c, call)
         \/ \E c \in Caller : /\ GetStep(c) \/ TargetRefused(c)
                              /\ UNCHANGED <<callVars, tokenizerVars, exportVars>>
         \/ \E c \in Caller : TokenizerSteps(c) /\ UNCHANGED exportVars
         \/ \E c \in Caller : WritingSteps(c)
         \/ ResolverStep /\ UNCHANGED <<callVars, tokenizerVars, exportVars>>
         \/ RightsChange \/ Crash \/ (\E n \in Name : OperatorClears(n))
         \/ UNCHANGED vars
<1>1. ASSUME NEW c \in Caller, PlainSteps(c) /\ UNCHANGED exportVars
      PROVE  \E call : Quiet(c, call)
  BY <1>1, PlainQuiet
<1>2. ASSUME NEW c \in Caller, ExportSteps(c)
      PROVE  \E call : Quiet(c, call)
  BY <1>2, ExportQuiet
<1>3. ASSUME NEW c \in Caller, Arrives(c)
      PROVE  (PlainSteps(c) /\ UNCHANGED exportVars) \/ ExportSteps(c)
  BY <1>3 DEF Arrives, Requests, PlainSteps, ExportSteps
<1>4. ASSUME NEW c \in Caller, Step(c)
      PROVE  \/ GetStep(c) /\ UNCHANGED <<callVars, tokenizerVars, exportVars>>
             \/ TokenizerSteps(c) /\ UNCHANGED exportVars
             \/ WritingSteps(c)
             \/ PlainSteps(c) /\ UNCHANGED exportVars
             \/ ExportSteps(c)
  BY <1>4 DEF Step, ClientStep, TokenizerSteps, WritingSteps, PlainSteps, ExportSteps
<1>. QED BY <1>1, <1>2, <1>3, <1>4 DEF Next, Resolvers, RefusedTargets

\* The clock moves no call from its place, and makes none late that was not.
LEMMA RightsMove ==
  ASSUME CallsOK, RightsChange, NEW c \in Caller
  PROVE  /\ calls'[c].at = calls[c].at
         /\ calls'[c] = calls[c] \/ (calls[c].at = "fetched" /\ rightsCurrent')
         /\ CallOK(calls[c])'
<1>1. CallOK(calls[c])
  BY DEF CallsOK
<1>2. CASE calls[c].at = "fetched" /\ rightsCurrent'
  <2>1. calls'[c] = [at |-> "fetched", name |-> calls[c].name, expected |-> calls[c].expected,
                     digest |-> calls[c].digest, late |-> FALSE]
    BY <1>1, <1>2 DEF RightsChange, CallOK
  <2>. QED BY <1>1, <1>2, <2>1 DEF CallOK
<1>3. CASE ~(calls[c].at = "fetched" /\ rightsCurrent')
  <2>1. calls'[c] = calls[c]
    BY <1>3 DEF RightsChange
  <2>. QED BY <1>1, <1>3, <2>1 DEF CallOK
<1>. QED BY <1>2, <1>3

-----------------------------------------------------------------------------
(* What a step does to the slots.                                          *)

LEMMA SlotInvStep ==
  ASSUME SlotInv, CallsOK, [Next]_vars
  PROVE  SlotInv'
<1>1. Idle \in Get /\ Acquiring \in Get /\ Idle # Resolving("none") /\ Acquiring # Resolving("none")
  BY DEF Get, Idle, Acquiring, Resolving
<1>2. ASSUME UNCHANGED transportVars PROVE SlotInv'
  BY <1>2 DEF transportVars, SlotInv, TransportTypeOK, SlotsAccounted, Waiting
<1>3. ASSUME NEW c \in Caller, NEW get \in {Idle, Acquiring}, Becomes(c, get), UNCHANGED slotVars
      PROVE  SlotInv'
  BY <1>1, <1>3, SlotsKept
<1>4. ASSUME NEW c \in Caller, NEW call, Quiet(c, call) PROVE SlotInv'
  BY <1>2, <1>3, <1>4 DEF Quiet, transportVars, slotVars
<1>5. ASSUME NEW c \in Caller, TokenizerSteps(c) PROVE SlotInv'
  BY <1>2, <1>3, <1>5
     DEF TokenizerSteps, LockTaken, TokenizerRead, TokenizerFails, Ends, Moves
<1>6. ASSUME NEW c \in Caller, WritingSteps(c) PROVE SlotInv'
  BY <1>2, <1>3, <1>6
     DEF WritingSteps, Opens, Written, WriteFails, Ends, Moves, Rest, transportVars, slotVars
<1>7. CASE Crash
  <2>1. \A c \in Caller : gets'[c] = Idle
    BY <1>7 DEF Crash
  <2>2. Waiting' = {}
    BY <2>1, <1>1 DEF Waiting
  <2>3. TransportTypeOK'
    BY <1>1, <1>7, TransportAssumption DEF Crash, TransportTypeOK
  <2>. QED BY <1>7, <2>2, <2>3, FS_EmptySet, TransportAssumption
           DEF Crash, SlotInv, SlotsAccounted
<1>8. ASSUME RightsChange \/ (\E n \in Name : OperatorClears(n)) \/ UNCHANGED vars PROVE SlotInv'
  BY <1>2, <1>8 DEF RightsChange, OperatorClears, vars, clientVars
<1>. QED BY <1>4, <1>5, <1>6, <1>7, <1>8, StepKinds, GetStepSlots, ResolverSlots

-----------------------------------------------------------------------------
(* What a step does to the tokenizer.                                      *)

\* Whoever is at the download holds the lock, so that there is one of them.
TokenizerInv ==
  /\ TokenizerFetchedOnce
  /\ tokenizerLock \in Caller \cup {None}
  /\ \A c \in Caller : calls[c].at = "tokenizer" => tokenizerLock = c

LEMMA TokenizerInvStep ==
  ASSUME TokenizerInv, CallsOK, [Next]_vars
  PROVE  TokenizerInv'
<1>1. \A c \in Caller : \A call : calls' = [calls EXCEPT ![c] = call] =>
         \A d \in Caller : calls'[d] = IF d = c THEN call ELSE calls[d]
  BY DEF CallsOK
<1>2. NoCall.at = "none" /\ \A left : At("tokenizer", left).at = "tokenizer"
  BY DEF NoCall, At
<1>3. ASSUME NEW c \in Caller, NEW call, calls' = [calls EXCEPT ![c] = call],
             calls[c].at # "tokenizer", call.at # "tokenizer", UNCHANGED tokenizerVars
      PROVE  TokenizerInv'
  BY <1>1, <1>3, CallsAssumption DEF TokenizerInv, TokenizerFetchedOnce, tokenizerVars
<1>4. ASSUME UNCHANGED <<calls, tokenizerVars>> PROVE TokenizerInv'
  BY <1>4 DEF TokenizerInv, TokenizerFetchedOnce, tokenizerVars
<1>5. ASSUME NEW c \in Caller, NEW call, Quiet(c, call) PROVE TokenizerInv'
  BY <1>3, <1>5 DEF Quiet, Holds
<1>6. ASSUME NEW c \in Caller, LockTaken(c) PROVE TokenizerInv'
  <2>1. CASE encoding /\ Ends(c) /\ UNCHANGED tokenizerLock
    BY <1>2, <1>3, <1>6, <2>1 DEF LockTaken, Ends, Moves, tokenizerVars
  <2>2. CASE ~encoding /\ Moves(c, At("tokenizer", 0), Acquiring) /\ tokenizerLock' = c
    <3>1. \A d \in Caller : calls'[d] = IF d = c THEN At("tokenizer", 0) ELSE calls[d]
      BY <2>2 DEF CallsOK, Moves
    <3>2. tokenizerLock = None /\ UNCHANGED <<encoding, downloads>> /\ c # None
      BY <1>6, CallsAssumption DEF LockTaken
    <3>3. \A d \in Caller : calls[d].at # "tokenizer"
      BY <3>2, CallsAssumption DEF TokenizerInv
    <3>4. calls'[c].at = "tokenizer" /\ \A d \in Caller : calls'[d].at = "tokenizer" => d = c
      BY <1>2, <3>1, <3>3
    <3>5. TokenizerFetchedOnce'
      BY <2>2, <3>2, <3>4 DEF TokenizerInv, TokenizerFetchedOnce
    <3>. QED BY <2>2, <3>4, <3>5 DEF TokenizerInv
  <2>. QED BY <1>6, <2>1, <2>2 DEF LockTaken
<1>7. ASSUME NEW c \in Caller, TokenizerRead(c) \/ TokenizerFails(c) PROVE TokenizerInv'
  <2>1. /\ calls' = [calls EXCEPT ![c] = NoCall] /\ tokenizerLock' = None
        /\ tokenizerLock = c /\ ~encoding /\ downloads = 0
    BY <1>7, CallsAssumption
       DEF TokenizerRead, TokenizerFails, Ends, Moves, TokenizerInv, TokenizerFetchedOnce
  <2>2. downloads' = IF encoding' THEN 1 ELSE 0
    BY <1>7, <2>1 DEF TokenizerRead, TokenizerFails
  <2>3. \A d \in Caller : calls'[d].at # "tokenizer"
    <3>1. \A d \in Caller : calls'[d] = IF d = c THEN NoCall ELSE calls[d]
      BY <2>1 DEF CallsOK
    <3>. QED BY <1>2, <2>1, <3>1 DEF TokenizerInv
  <2>. QED BY <2>1, <2>2, <2>3 DEF TokenizerInv, TokenizerFetchedOnce
<1>8. ASSUME NEW c \in Caller, Opens(c) PROVE TokenizerInv'
  <2>1. calls[c].at = "opening" /\ CallOK(calls[c])
    BY <1>8 DEF Opens, CallsOK
  <2>2. [calls[c] EXCEPT !.at = "writing"].at = "writing"
    BY <2>1 DEF CallOK
  <2>3. calls' = [calls EXCEPT ![c] = [calls[c] EXCEPT !.at = "writing"]]
    BY <1>8 DEF Opens
  <2>. QED BY <1>3, <1>8, <2>1, <2>2, <2>3 DEF Opens, Rest
<1>9. ASSUME NEW c \in Caller, Written(c) \/ WriteFails(c) PROVE TokenizerInv'
  BY <1>2, <1>3, <1>9 DEF Written, WriteFails, Ends, Moves, Rest
<1>10. CASE Crash
  BY <1>2, <1>10 DEF Crash, TokenizerInv, TokenizerFetchedOnce
<1>11. ASSUME \/ (\E n \in Name : OperatorClears(n)) \/ UNCHANGED vars
              \/ UNCHANGED <<callVars, tokenizerVars, exportVars>>
       PROVE  TokenizerInv'
  BY <1>4, <1>11 DEF OperatorClears, vars, clientVars, callVars
<1>12. CASE RightsChange
  BY <1>12, RightsMove DEF RightsChange, TokenizerInv, TokenizerFetchedOnce, tokenizerVars
<1>. QED BY <1>5, <1>6, <1>7, <1>8, <1>9, <1>10, <1>11, <1>12, StepKinds DEF TokenizerSteps, WritingSteps

-----------------------------------------------------------------------------
(* What a step does to the files.                                          *)

\* A file is absent, or has come from one export: while it is written, its
\* writer is at it.
FileOK(n) ==
  \/ files[n] = Absent
  \/ /\ files[n] = File(files[n].state, files[n].digest, files[n].writer)
     /\ files[n].state \in {"partial", "left", "whole"}
     /\ files[n].state = "partial" =>
           /\ files[n].writer \in Caller
           /\ calls[files[n].writer].at = "writing" /\ calls[files[n].writer].name = n
     /\ files[n].state = "left" => faults.crashes + faults.stuck > 0
     /\ files[n].state = "whole" =>
           \E a \in artifacts : a.name = n /\ a.digest = files[n].digest

\* A call that writes has the file to itself.
WriterOK(c) ==
  calls[c].at = "writing" => files[calls[c].name] = File("partial", calls[c].digest, c)

FilesInv ==
  /\ CallsOK
  /\ files = [n \in Name |-> files[n]] /\ faults \in [crashes : Nat, stuck : Nat]
  /\ \A n \in Name : FileOK(n)
  /\ \A c \in Caller : WriterOK(c)
  /\ ArtifactOnDisk /\ \A a \in artifacts : a.name \in Name

LEMMA FileFields ==
  /\ \A state, digest, writer :
        /\ File(state, digest, writer).state = state
        /\ File(state, digest, writer).digest = digest
        /\ File(state, digest, writer).writer = writer
  /\ Absent.state = "absent"
BY DEF File, Absent

LEMMA FilesInvInit == Init => FilesInv
<1>. SUFFICES ASSUME Init PROVE FilesInv
  OBVIOUS
<1>1. CallsOK
  BY PlainCall DEF Init, ClientInit, CallsOK
<1>. QED BY <1>1 DEF Init, ClientInit, FilesInv, FileOK, WriterOK, ArtifactOnDisk, NoCall

\* A call moves that writes neither before nor after.
LEMMA OtherMoves ==
  ASSUME FilesInv, NEW c \in Caller, NEW call, CallOK(call),
         calls' = [calls EXCEPT ![c] = call],
         calls[c].at # "writing", call.at # "writing", UNCHANGED exportVars
  PROVE  FilesInv'
<1>1. \A d \in Caller : calls'[d] = IF d = c THEN call ELSE calls[d]
  BY DEF FilesInv, CallsOK
<1>2. UNCHANGED <<files, rightsCurrent, artifacts, faults>>
  BY DEF exportVars
<1>3. \A x : CallOK(x) => CallOK(x)'
  BY <1>2 DEF CallOK
<1>4. calls' = [d \in Caller |-> calls'[d]]
  BY DEF FilesInv, CallsOK
<1>5. CallsOK'
  BY <1>1, <1>2, <1>4 DEF FilesInv, CallsOK, CallOK
<1>6. \A n \in Name : FileOK(n)'
  BY <1>1, <1>2 DEF FilesInv, FileOK
<1>7. \A d \in Caller : WriterOK(d)'
  BY <1>1, <1>2 DEF FilesInv, WriterOK
<1>. QED BY <1>2, <1>5, <1>6, <1>7 DEF FilesInv, ArtifactOnDisk

\* Of two calls that write, each has its own destination; a finished file is
\* none of theirs.
LEMMA WritersApart ==
  ASSUME FilesInv, NEW c \in Caller, calls[c].at = "writing"
  PROVE  /\ calls[c].name \in Name
         /\ files[calls[c].name] = File("partial", calls[c].digest, c)
         /\ ~calls[c].late /\ calls[c].expected \in {None, calls[c].digest}
         /\ \A d \in Caller \ {c} : calls[d].at = "writing" => calls[d].name # calls[c].name
         /\ \A a \in artifacts : a.name # calls[c].name
<1>1. CallOK(calls[c]) /\ files[calls[c].name] = File("partial", calls[c].digest, c)
  BY DEF FilesInv, CallsOK, WriterOK
<1>2. \A d \in Caller \ {c} : calls[d].at = "writing" => calls[d].name # calls[c].name
  <2>. SUFFICES ASSUME NEW d \in Caller, d # c, calls[d].at = "writing",
                       calls[d].name = calls[c].name
                PROVE  FALSE
    OBVIOUS
  <2>1. files[calls[d].name] = File("partial", calls[d].digest, d)
    BY DEF FilesInv, WriterOK
  <2>2. files[calls[d].name].writer = d /\ files[calls[c].name].writer = c
    BY <1>1, <2>1, FileFields
  <2>. QED BY <2>2
<1>3. \A a \in artifacts : a.name # calls[c].name
  BY <1>1 DEF FilesInv, ArtifactOnDisk, File
<1>. QED BY <1>1, <1>2, <1>3 DEF CallOK

\* The exclusive create: the name was free, so nobody else's file is touched.
LEMMA OpensFiles ==
  ASSUME FilesInv, NEW c \in Caller, Opens(c)
  PROVE  FilesInv'
<1>. DEFINE call == calls[c]
            x == [call EXCEPT !.at = "writing"]
            file == File("partial", call.digest, c)
<1>1. call.at = "opening" /\ CallOK(call) /\ files[call.name] = Absent
  BY DEF Opens, FilesInv, CallsOK
<1>2. call.name \in Name /\ ~call.late /\ call.expected \in {None, call.digest}
  BY <1>1 DEF CallOK
<1>3. x = [at |-> "writing", name |-> call.name, expected |-> call.expected,
           digest |-> call.digest, late |-> call.late]
  BY <1>1 DEF CallOK
<1>4. /\ x.at = "writing" /\ x.name = call.name /\ x.digest = call.digest /\ CallOK(x)
  BY <1>2, <1>3 DEF CallOK
<1>5. /\ calls' = [calls EXCEPT ![c] = x] /\ files' = [files EXCEPT ![call.name] = file]
      /\ UNCHANGED <<rightsCurrent, artifacts, faults>>
  BY DEF Opens, Puts
<1>. HIDE DEF x
<1>6. /\ calls' = [d \in Caller |-> calls'[d]] /\ files' = [n \in Name |-> files'[n]]
      /\ \A d \in Caller : calls'[d] = IF d = c THEN x ELSE calls[d]
      /\ \A n \in Name : files'[n] = IF n = call.name THEN file ELSE files[n]
  BY <1>2, <1>5 DEF FilesInv, CallsOK
<1>7. file.state = "partial" /\ file.digest = call.digest /\ file.writer = c
      /\ file = File("partial", call.digest, c) /\ Absent.state = "absent"
  BY DEF File, Absent
<1>8. CallsOK'
  BY <1>4, <1>5, <1>6 DEF FilesInv, CallsOK, CallOK
<1>9. ASSUME NEW n \in Name PROVE FileOK(n)'
  <2>1. CASE n = call.name
    BY <1>4, <1>6, <1>7, <2>1 DEF FileOK
  <2>2. CASE n # call.name
    BY <1>1, <1>4, <1>5, <1>6, <2>2 DEF FilesInv, FileOK
  <2>. QED BY <2>1, <2>2
<1>10. ASSUME NEW d \in Caller PROVE WriterOK(d)'
  <2>1. CASE d = c
    BY <1>2, <1>4, <1>6, <2>1 DEF WriterOK
  <2>2. CASE d # c
    <3>1. calls[d].at = "writing" => calls[d].name # call.name /\ calls[d].name \in Name
      <4>. SUFFICES ASSUME calls[d].at = "writing"
                    PROVE  calls[d].name # call.name /\ calls[d].name \in Name
        OBVIOUS
      <4>1. calls[d].name \in Name /\ files[calls[d].name] = File("partial", calls[d].digest, d)
        BY WritersApart
      <4>2. files[calls[d].name].state = "partial" /\ files[call.name].state = "absent"
        BY <1>1, <4>1, FileFields
      <4>. QED BY <4>1, <4>2
    <3>. QED BY <1>6, <2>2, <3>1 DEF FilesInv, WriterOK
  <2>. QED BY <2>1, <2>2
<1>11. ArtifactOnDisk' /\ \A a \in artifacts' : a.name \in Name
  BY <1>1, <1>5, <1>6, <1>7 DEF FilesInv, ArtifactOnDisk
<1>. QED BY <1>5, <1>6, <1>8, <1>9, <1>10, <1>11 DEF FilesInv

\* The writer finishes, or removes its file, or fails to.
LEMMA WriterEnds ==
  ASSUME FilesInv, NEW c \in Caller, Written(c) \/ WriteFails(c)
  PROVE  FilesInv'
<1>. DEFINE call == calls[c]
            name == call.name
<1>1. call.at = "writing" /\ calls' = [calls EXCEPT ![c] = NoCall] /\ UNCHANGED rightsCurrent
  BY DEF Written, WriteFails, Ends, Moves
<1>2. /\ name \in Name /\ files[name] = File("partial", call.digest, c)
      /\ call.expected \in {None, call.digest}
      /\ \A d \in Caller \ {c} : calls[d].at = "writing" => calls[d].name # name
      /\ \A a \in artifacts : a.name # name
  BY <1>1, WritersApart
<1>3. PICK file : files' = [files EXCEPT ![name] = file] /\
         \/ /\ file = File("whole", call.digest, c) /\ UNCHANGED faults
            /\ artifacts' = artifacts \cup {[name |-> name, digest |-> call.digest, expected |-> call.expected]}
         \/ file = Absent /\ UNCHANGED <<artifacts, faults>>
         \/ /\ file = [files[name] EXCEPT !.state = "left"] /\ UNCHANGED artifacts
            /\ faults' = [faults EXCEPT !.stuck = @ + 1]
  BY DEF Written, WriteFails, Puts
<1>4. [files[name] EXCEPT !.state = "left"] = File("left", call.digest, c)
  BY <1>2 DEF File
<1>5. /\ calls' = [d \in Caller |-> calls'[d]] /\ files' = [n \in Name |-> files'[n]]
      /\ \A d \in Caller : calls'[d] = IF d = c THEN NoCall ELSE calls[d]
      /\ \A n \in Name : files'[n] = IF n = name THEN file ELSE files[n]
  BY <1>1, <1>2, <1>3 DEF FilesInv, CallsOK
<1>6. CallsOK'
  BY <1>1, <1>5, PlainCall DEF FilesInv, CallsOK, CallOK, NoCall
<1>7. faults' \in [crashes : Nat, stuck : Nat] /\
      (file.state = "left" => faults'.crashes + faults'.stuck > 0) /\
      (faults.crashes + faults.stuck > 0 => faults'.crashes + faults'.stuck > 0)
  <2>1. CASE UNCHANGED faults
    BY <1>3, <2>1 DEF FilesInv, File, Absent
  <2>2. CASE faults' = [faults EXCEPT !.stuck = @ + 1]
    BY <2>2 DEF FilesInv
  <2>. QED BY <1>3, <2>1, <2>2
<1>8. artifacts \subseteq artifacts'
  BY <1>3
<1>9. ASSUME NEW n \in Name PROVE FileOK(n)'
  <2>1. CASE n = name
    <3>1. CASE file = Absent
      BY <1>5, <2>1, <3>1 DEF FileOK
    <3>2. CASE file = File("whole", call.digest, c) /\
               artifacts' = artifacts \cup {[name |-> name, digest |-> call.digest, expected |-> call.expected]}
      <4>1. /\ file.state = "whole" /\ file.digest = call.digest
            /\ file = File(file.state, file.digest, file.writer)
        BY <3>2, FileFields
      <4>2. \E a \in artifacts' : a.name = n /\ a.digest = call.digest
        <5>. DEFINE a == [name |-> name, digest |-> call.digest, expected |-> call.expected]
        <5>1. a \in artifacts' /\ a.name = n /\ a.digest = call.digest
          BY <2>1, <3>2
        <5>. QED BY <5>1
      <4>. QED BY <1>5, <2>1, <4>1, <4>2 DEF FileOK
    <3>3. CASE file = File("left", call.digest, c)
      BY <1>5, <1>7, <2>1, <3>3 DEF FileOK, File
    <3>. QED BY <1>3, <1>4, <3>1, <3>2, <3>3
  <2>2. CASE n # name
    <3>1. files'[n] = files[n] /\ FileOK(n)
      BY <1>5, <2>2 DEF FilesInv
    <3>2. files[n].state = "partial" /\ files[n] # Absent => files[n].writer # c
      BY <1>2, <2>2, <3>1 DEF FileOK
    <3>3. CASE files[n] = Absent
      BY <3>1, <3>3 DEF FileOK
    <3>4. CASE files[n] # Absent
      <4>1. /\ files[n].state = "partial" =>
                   LET w == files[n].writer IN w \in Caller /\ calls'[w] = calls[w]
            /\ files[n].state = "left" => faults'.crashes + faults'.stuck > 0
            /\ files[n].state = "whole" =>
                   \E a \in artifacts' : a.name = n /\ a.digest = files[n].digest
        BY <1>5, <1>7, <1>8, <3>1, <3>2, <3>4 DEF FileOK
      <4>. QED BY <3>1, <3>4, <4>1 DEF FileOK
    <3>. QED BY <3>3, <3>4
  <2>. QED BY <2>1, <2>2
<1>10. ASSUME NEW d \in Caller PROVE WriterOK(d)'
  <2>1. CASE d = c
    BY <1>5, <2>1 DEF WriterOK, NoCall
  <2>2. CASE d # c
    <3>1. calls[d].at = "writing" => calls[d].name # name /\ calls[d].name \in Name
      BY <1>2, <2>2, WritersApart
    <3>. QED BY <1>5, <2>2, <3>1 DEF FilesInv, WriterOK
  <2>. QED BY <2>1, <2>2
<1>11. ArtifactOnDisk' /\ \A a \in artifacts' : a.name \in Name
  <2>1. CASE UNCHANGED artifacts
    BY <1>2, <1>5, <2>1 DEF FilesInv, ArtifactOnDisk
  <2>2. CASE file = File("whole", call.digest, c) /\
             artifacts' = artifacts \cup {[name |-> name, digest |-> call.digest, expected |-> call.expected]}
    <3>1. file.state = "whole" /\ file.digest = call.digest
      BY <2>2 DEF File
    <3>. QED BY <1>2, <1>5, <2>2, <3>1 DEF FilesInv, ArtifactOnDisk
  <2>. QED BY <1>3, <2>1, <2>2
<1>. QED BY <1>5, <1>6, <1>7, <1>9, <1>10, <1>11 DEF FilesInv

\* The crash: what was being written is left, what was finished stays.
LEMMA CrashFiles ==
  ASSUME FilesInv, Crash
  PROVE  FilesInv'
<1>1. /\ calls' = [c \in Caller |-> NoCall] /\ UNCHANGED <<rightsCurrent, artifacts>>
      /\ faults' = [faults EXCEPT !.crashes = @ + 1]
      /\ files' = [n \in Name |-> IF files[n].state = "partial"
                                  THEN [files[n] EXCEPT !.state = "left"] ELSE files[n]]
  BY DEF Crash
<1>2. CallsOK' /\ \A c \in Caller : WriterOK(c)'
  BY <1>1, PlainCall DEF CallsOK, CallOK, WriterOK, NoCall
<1>3. faults' \in [crashes : Nat, stuck : Nat] /\ faults'.crashes + faults'.stuck > 0
  BY <1>1 DEF FilesInv
<1>4. ASSUME NEW n \in Name PROVE FileOK(n)'
  <2>1. FileOK(n)
    BY DEF FilesInv
  <2>2. CASE files[n].state = "partial"
    <3>1. files[n] = File("partial", files[n].digest, files[n].writer)
      BY <2>1, <2>2, FileFields DEF FileOK
    <3>2. files'[n] = File("left", files[n].digest, files[n].writer)
      BY <1>1, <2>2, <3>1 DEF File
    <3>. QED BY <1>3, <3>2, FileFields DEF FileOK
  <2>3. CASE files[n].state # "partial"
    <3>1. files'[n] = files[n]
      BY <1>1, <2>3
    <3>. QED BY <1>1, <1>3, <2>1, <2>3, <3>1 DEF FileOK
  <2>. QED BY <2>2, <2>3
<1>5. ArtifactOnDisk' /\ \A a \in artifacts' : a.name \in Name
  BY <1>1 DEF FilesInv, ArtifactOnDisk
<1>. QED BY <1>1, <1>2, <1>3, <1>4, <1>5 DEF FilesInv

\* The operator clears only what nobody writes and nobody was answered with.
LEMMA ClearsFiles ==
  ASSUME FilesInv, NEW n \in Name, OperatorClears(n)
  PROVE  FilesInv'
<1>1. /\ files[n].state = "left" /\ files' = [files EXCEPT ![n] = Absent]
      /\ UNCHANGED <<calls, rightsCurrent, artifacts, faults>>
  BY DEF OperatorClears, Puts, clientVars, callVars
<1>2. /\ files' = [m \in Name |-> files'[m]]
      /\ \A m \in Name : files'[m] = IF m = n THEN Absent ELSE files[m]
  BY <1>1 DEF FilesInv
<1>3. CallsOK'
  BY <1>1 DEF FilesInv, CallsOK, CallOK
<1>4. \A m \in Name : FileOK(m)'
  BY <1>1, <1>2 DEF FilesInv, FileOK
<1>5. ASSUME NEW c \in Caller PROVE WriterOK(c)'
  <2>1. calls[c].at = "writing" =>
           /\ calls[c].name \in Name /\ files[calls[c].name].state = "partial"
    BY WritersApart, FileFields
  <2>. QED BY <1>1, <1>2, <2>1 DEF FilesInv, WriterOK
<1>6. ArtifactOnDisk'
  BY <1>1, <1>2 DEF FilesInv, ArtifactOnDisk
<1>. QED BY <1>1, <1>2, <1>3, <1>4, <1>5, <1>6 DEF FilesInv

LEMMA FilesUnchanged ==
  ASSUME FilesInv, UNCHANGED <<calls, files, artifacts, faults, rightsCurrent>>
  PROVE  FilesInv'
<1>1. CallsOK'
  BY DEF FilesInv, CallsOK, CallOK
<1>. QED BY <1>1 DEF FilesInv, FileOK, WriterOK, ArtifactOnDisk

LEMMA RightsFiles ==
  ASSUME FilesInv, RightsChange
  PROVE  FilesInv'
<1>1. CallsOK'
  BY RightsMove DEF FilesInv, CallsOK, RightsChange
<1>2. UNCHANGED <<files, artifacts, faults>>
  BY DEF RightsChange
<1>3. \A c \in Caller : calls[c].at = "writing" \/ calls'[c].at = "writing" => calls'[c] = calls[c]
  BY RightsMove DEF FilesInv
<1>4. \A n \in Name : FileOK(n)'
  BY <1>2, <1>3 DEF FilesInv, FileOK
<1>5. \A c \in Caller : WriterOK(c)'
  BY <1>2, <1>3 DEF FilesInv, WriterOK
<1>. QED BY <1>1, <1>2, <1>4, <1>5 DEF FilesInv, ArtifactOnDisk

LEMMA TokenizerMoves ==
  ASSUME FilesInv, NEW c \in Caller, TokenizerSteps(c), UNCHANGED exportVars
  PROVE  FilesInv'
<1>1. calls[c].at \in {"lock", "tokenizer"}
  BY DEF TokenizerSteps, LockTaken, TokenizerRead, TokenizerFails
<1>2. PICK call \in {NoCall, At("tokenizer", 0)} : calls' = [calls EXCEPT ![c] = call]
  BY DEF TokenizerSteps, LockTaken, TokenizerRead, TokenizerFails, Ends, Moves
<1>3. CallOK(call) /\ call.at # "writing"
  BY <1>2 DEF CallOK, NoCall, At
<1>. QED BY <1>1, <1>2, <1>3, OtherMoves

LEMMA FilesInvStep ==
  ASSUME FilesInv, [Next]_vars
  PROVE  FilesInv'
<1>1. CallsOK
  BY DEF FilesInv
<1>2. ASSUME NEW c \in Caller, NEW call, Quiet(c, call) PROVE FilesInv'
  BY <1>2, OtherMoves DEF Quiet, Holds
<1>3. ASSUME NEW c \in Caller, WritingSteps(c) PROVE FilesInv'
  BY <1>3, OpensFiles, WriterEnds DEF WritingSteps
<1>4. ASSUME \/ UNCHANGED <<callVars, tokenizerVars, exportVars>>
             \/ UNCHANGED vars
      PROVE  FilesInv'
  BY <1>4, FilesUnchanged DEF vars, clientVars, callVars, exportVars
<1>. QED BY <1>1, <1>2, <1>3, <1>4, StepKinds, TokenizerMoves, CrashFiles, ClearsFiles, RightsFiles

\* What a step may do to a file.
FileChange(n) ==
  \/ files[n] = Absent /\ files'[n].state = "partial"
  \/ files[n].state = "partial" /\ calls'[files[n].writer] = NoCall
  \/ files[n].state = "left" /\ files'[n] = Absent

LEMMA FileChangeStep ==
  ASSUME FilesInv, [Next]_vars, NEW n \in Name, files'[n] # files[n]
  PROVE  FileChange(n)
<1>1. CallsOK /\ files = [m \in Name |-> files[m]]
  BY DEF FilesInv
<1>2. files' # files
  OBVIOUS
<1>3. ASSUME NEW c \in Caller, WritingSteps(c) PROVE FileChange(n)
  <2>1. CASE Opens(c)
    <3>1. PICK file : file = File("partial", calls[c].digest, c)
      OBVIOUS
    <3>2. files' = [files EXCEPT ![calls[c].name] = file] /\ files[calls[c].name] = Absent
      BY <2>1, <3>1 DEF Opens, Puts
    <3>3. n = calls[c].name /\ files'[n] = file
      BY <1>1, <3>2
    <3>. QED BY <3>1, <3>2, <3>3, FileFields DEF FileChange
  <2>2. CASE Written(c) \/ WriteFails(c)
    <3>1. calls[c].at = "writing" /\ calls' = [calls EXCEPT ![c] = NoCall]
      BY <2>2 DEF Written, WriteFails, Ends, Moves
    <3>2. files[calls[c].name].state = "partial" /\ files[calls[c].name].writer = c
      BY <3>1, WritersApart, FileFields
    <3>3. \E file : files' = [files EXCEPT ![calls[c].name] = file]
      BY <2>2 DEF Written, WriteFails, Puts
    <3>4. n = calls[c].name
      BY <1>1, <3>3
    <3>. QED BY <1>1, <3>1, <3>2, <3>4 DEF FileChange, CallsOK
  <2>. QED BY <1>3, <2>1, <2>2 DEF WritingSteps
<1>4. CASE Crash
  <2>1. files[n].state = "partial" /\ calls' = [c \in Caller |-> NoCall]
    BY <1>4 DEF Crash
  <2>2. files[n].writer \in Caller
    BY <2>1, FileFields DEF FilesInv, FileOK
  <2>. QED BY <2>1, <2>2 DEF FileChange
<1>5. ASSUME NEW m \in Name, OperatorClears(m) PROVE FileChange(n)
  BY <1>1, <1>5 DEF OperatorClears, Puts, FileChange
<1>6. ASSUME NEW c \in Caller, NEW call PROVE ~Quiet(c, call)
  BY <1>2 DEF Quiet, exportVars
<1>. QED BY <1>1, <1>2, <1>3, <1>4, <1>5, <1>6, StepKinds DEF exportVars, RightsChange, vars

-----------------------------------------------------------------------------
\* All three, which hold at first.
ExportInv == SlotInv /\ TokenizerInv /\ FilesInv

LEMMA ExportInvInit == Init => ExportInv
<1>. SUFFICES ASSUME Init PROVE ExportInv
  OBVIOUS
<1>1. SlotInv
  <2>1. Idle \in Get /\ Idle # Resolving("none")
    BY DEF Get, Idle, Resolving
  <2>2. Waiting = {}
    BY <2>1 DEF Init, ClientInit, TransportInit, Waiting
  <2>. QED BY <2>1, <2>2, FS_EmptySet, TransportAssumption
           DEF Init, ClientInit, TransportInit, SlotInv, TransportTypeOK, SlotsAccounted
<1>2. TokenizerInv
  BY DEF Init, ClientInit, TokenizerInv, TokenizerFetchedOnce, NoCall
<1>. QED BY <1>1, <1>2, FilesInvInit DEF ExportInv

LEMMA ExportInvStep == ExportInv /\ [Next]_vars => ExportInv'
BY SlotInvStep, TokenizerInvStep, FilesInvStep DEF ExportInv, FilesInv

(* For any number of slots and callers, a slot is in one place at a time:  *)
(* free, under a lookup, about to be released, or lost with its thread.    *)
THEOREM SlotsAlwaysAccounted == Spec => []SlotsAccounted
<1>1. ExportInv => SlotsAccounted
  BY DEF ExportInv, SlotInv
<1>. QED BY <1>1, ExportInvInit, ExportInvStep, PTL DEF Spec

(* However many searches find the cache empty, one download is accepted    *)
(* and one caller at a time is at it.                                      *)
THEOREM TokenizerAlwaysFetchedOnce == Spec => []TokenizerFetchedOnce
<1>1. ExportInv => TokenizerFetchedOnce
  BY DEF ExportInv, TokenizerInv
<1>. QED BY <1>1, ExportInvInit, ExportInvStep, PTL DEF Spec

(* Whatever is at a destination is explained by one export, which had the  *)
(* rights and the digest for it, or by a fault.                            *)
THEOREM FilesAlwaysExplained == Spec => []FilesExplained
<1>1. ASSUME FilesInv PROVE FilesExplained
  <2>1. \A n \in Name :
           /\ files[n].state = "partial" => calls[files[n].writer].at = "writing"
           /\ files[n].state = "left" => faults.crashes + faults.stuck > 0
           /\ files[n].state = "whole" => \E a \in artifacts : a.name = n /\ a.digest = files[n].digest
    BY <1>1, FileFields DEF FilesInv, FileOK
  <2>. QED BY <1>1, <2>1, WritersApart DEF FilesExplained
<1>2. ExportInv => FilesExplained
  BY <1>1 DEF ExportInv
<1>. QED BY <1>2, ExportInvInit, ExportInvStep, PTL DEF Spec

(* An answered export's file stays, whole and with the digest answered.    *)
THEOREM ArtifactsStayOnDisk == Spec => []ArtifactOnDisk
<1>1. ExportInv => ArtifactOnDisk
  BY DEF ExportInv, FilesInv
<1>. QED BY <1>1, ExportInvInit, ExportInvStep, PTL DEF Spec

(* No step of any export, crash or clean-up touches a file that is whole,  *)
(* or one that another export is writing.                                  *)
THEOREM FilesNeverOverwritten == Spec => NeverOverwritten
<1>1. ExportInv /\ [Next]_vars =>
         [\A n \in Name : files'[n] # files[n] =>
             \/ files[n] = Absent /\ files'[n].state = "partial"
             \/ files[n].state = "partial" /\ calls'[files[n].writer] = NoCall
             \/ files[n].state = "left" /\ files'[n] = Absent]_vars
  BY FileChangeStep DEF ExportInv, FileChange
<1>. QED BY <1>1, ExportInvInit, ExportInvStep, PTL DEF Spec, NeverOverwritten

-----------------------------------------------------------------------------
(* What can be proved of EveryCallEnds: a call that has not ended can go   *)
(* on, or waits for the lock while its holder can; and whatever a call     *)
(* does brings it nearer to its end, which nobody else takes it away from. *)

\* The gets that may still follow the one a call is at.
GetsLeft(call) ==
  CASE call.at = "registry" -> MaxEntries
    [] call.at = "resolve" -> call.left + 2
    [] call.at = "info" -> call.left + 1
    [] call.at \in {"index", "versions", "entry"} -> call.left
    [] call.at \in {"lock", "fetch"} -> 1
    [] OTHER -> 0

\* The steps left of a get, at most, and of an export after its get.
GetRank(get) ==
  CASE get.phase = "acquiring" -> MaxAttempts + 4
    [] get.phase = "resolving" -> IF get.answer = "none" THEN MaxAttempts + 3 ELSE MaxAttempts + 2
    [] get.phase = "requesting" -> MaxAttempts + 2 - get.attempt
    [] OTHER -> 0

StepsLeft(call, get) ==
  CASE call.at = "fetched" -> 3
    [] call.at = "opening" -> 2
    [] call.at = "writing" -> 1
    [] OTHER -> GetRank(get)

Nearer(call, get, call2, get2) ==
  \/ GetsLeft(call2) < GetsLeft(call)
  \/ GetsLeft(call2) = GetsLeft(call) /\ StepsLeft(call2, get2) < StepsLeft(call, get)

\* A call is in a get exactly when it is at one.
AtAGet == Plain \cup {"tokenizer", "fetch"}
Offline == {"lock", "fetched", "opening", "writing"}

CallAndGet(call, get) ==
  \/ call = NoCall /\ get = Idle
  \/ /\ call.at \in AtAGet /\ get \in Get \ {Idle}
     /\ call.at \in Plain => call = At(call.at, call.left) /\ call.left \in Nat
  \/ call.at \in Offline /\ get = Idle

MatchInv == ExportInv /\ \A c \in Caller : CallAndGet(calls[c], gets[c])

\* One call and its get move, and nearer to the end if the call goes on.
Advances(c, call, get) ==
  /\ calls' = [calls EXCEPT ![c] = call] /\ gets' = [gets EXCEPT ![c] = get]
  /\ CallAndGet(call, get)
  /\ call = NoCall \/ Nearer(calls[c], gets[c], call, get)

\* The measure of each place and of each phase.
LEMMA Measures ==
  /\ GetRank(Idle) = 0 /\ \A o : GetRank(Done(o)) = 0
  /\ GetRank(Acquiring) = MaxAttempts + 4
  /\ GetRank(Resolving("none")) = MaxAttempts + 3
  /\ \A a \in Resolution : GetRank(Resolving(a)) = MaxAttempts + 2
  /\ \A n : GetRank(Requesting(n)) = MaxAttempts + 2 - n
  /\ \A call : call.at \in AtAGet => \A get : StepsLeft(call, get) = GetRank(get)
BY TransportAssumption
   DEF GetRank, Idle, Done, Acquiring, Resolving, Requesting, Resolution, StepsLeft, AtAGet, Plain

\* A step of a get alone.
LEMMA GetAdvances ==
  ASSUME MatchInv, NEW c \in Caller, GetStep(c) \/ TargetRefused(c) \/ LookupAnswers(c), UNCHANGED callVars
  PROVE  \E get : Advances(c, calls[c], get) /\ Nearer(calls[c], gets[c], calls[c], get)
<1>. DEFINE old == gets[c]
<1>1. /\ calls' = [calls EXCEPT ![c] = calls[c]]
      /\ old \in Get /\ CallAndGet(calls[c], old)
  BY DEF callVars, MatchInv, ExportInv, FilesInv, CallsOK, SlotInv, TransportTypeOK
<1>2. PICK get : Becomes(c, get)
  BY DEF GetStep, LookupAnswers, AcquireSlot, ThreadDoesNotStart, SlotTimesOut,
         LookupTimesOut, AnswerTaken, RequestAnswered, AttemptFails, TargetRefused
<1>3. /\ get \in Get \ {Idle} /\ old # Idle
      /\ GetRank(get) < GetRank(old)
  <2>1. gets' = [gets EXCEPT ![c] = get] /\ gets'[c] = get
    BY <1>2 DEF Becomes, MatchInv, ExportInv, SlotInv, TransportTypeOK
  <2>2. \A x : Becomes(c, x) => x = get
    BY <2>1 DEF Becomes, MatchInv, ExportInv, SlotInv, TransportTypeOK
  <2>3. CASE TargetRefused(c) \/ AcquireSlot(c) \/ ThreadDoesNotStart(c) \/ SlotTimesOut(c)
    <3>1. old = Acquiring /\ get \in {Resolving("none"), Done("raised"), Done("failure")}
      BY <2>2, <2>3 DEF TargetRefused, AcquireSlot, ThreadDoesNotStart, SlotTimesOut
    <3>. QED BY <3>1, Measures, TransportAssumption
             DEF Get, Outcome, Acquiring, Resolving, Done, Idle
  <2>4. CASE LookupAnswers(c) \/ LookupTimesOut(c)
    <3>1. old = Resolving("none") /\ get \in {Resolving(a) : a \in Resolution} \cup {Done("failure")}
      BY <2>2, <2>4 DEF LookupAnswers, LookupTimesOut
    <3>. QED BY <3>1, Measures, TransportAssumption
             DEF Get, Outcome, Resolving, Done, Idle
  <2>5. CASE AnswerTaken(c)
    <3>1. /\ old.phase = "resolving" /\ old.answer # "none"
          /\ get \in {Requesting(1), Done("failure")}
      BY <2>2, <2>5 DEF AnswerTaken
    <3>2. PICK a \in Resolution : old = Resolving(a)
      BY <1>1, <3>1 DEF Get, Idle, Acquiring, Requesting, Done, Resolving
    <3>. QED BY <3>1, <3>2, Measures, TransportAssumption
             DEF Get, Outcome, Resolving, Requesting, Done, Idle
  <2>6. ASSUME RequestAnswered(c) \/ \E failure \in Retryable \cup Final : AttemptFails(c, failure)
        PROVE  get \in Get \ {Idle} /\ old # Idle /\ GetRank(get) < GetRank(old)
    <3>1. /\ old.phase = "requesting"
          /\ \/ get \in {Done("response"), Done("failure")}
             \/ old.attempt < MaxAttempts /\ get = Requesting(old.attempt + 1)
      BY <2>2, <2>6 DEF RequestAnswered, AttemptFails
    <3>2. PICK n \in 1 .. MaxAttempts : old = Requesting(n)
      BY <1>1, <3>1 DEF Get, Idle, Acquiring, Requesting, Done, Resolving
    <3>3. old.attempt = n
      BY <3>2 DEF Requesting
    <3>. QED BY <3>1, <3>2, <3>3, Measures, TransportAssumption
             DEF Get, Outcome, Requesting, Done, Idle
  <2>. QED BY <2>3, <2>4, <2>5, <2>6 DEF GetStep
<1>4. calls[c].at \in AtAGet
  BY <1>1, <1>3 DEF CallAndGet
<1>5. CallAndGet(calls[c], get)
  BY <1>1, <1>3, <1>4 DEF CallAndGet, NoCall, AtAGet, Plain, Offline
<1>6. Nearer(calls[c], old, calls[c], get)
  BY <1>3, <1>4, Measures DEF Nearer
<1>. QED BY <1>1, <1>2, <1>5, <1>6 DEF Advances, Becomes

\* Places outside a get and at one, with what they count.
LEMMA Places ==
  /\ CallAndGet(NoCall, Idle)
  /\ \A place \in Plain : \A left \in Nat : CallAndGet(At(place, left), Acquiring)
  /\ CallAndGet(At("tokenizer", 0), Acquiring) /\ GetsLeft(At("tokenizer", 0)) = 0
  /\ CallAndGet([at |-> "lock"], Idle)
  /\ \A call : call.at \in Offline => CallAndGet(call, Idle)
<1>1. Acquiring \in Get \ {Idle}
  BY DEF Get, Acquiring, Idle
<1>2. \A place, left : At(place, left) = [at |-> place, left |-> left]
  BY DEF At
<1>. QED BY <1>1, <1>2 DEF CallAndGet, AtAGet, Plain, Offline, GetsLeft

\* Every get that may follow leaves fewer to come.
LEMMA FewerFollow ==
  ASSUME NEW call, call.at \in Plain, call = At(call.at, call.left), call.left \in Nat,
         NEW next \in Following(call), next # NoCall
  PROVE  /\ \E place \in Plain, left \in Nat : next = At(place, left)
         /\ GetsLeft(next) < GetsLeft(call)
<1>1. \A place, left : At(place, left).at = place /\ At(place, left).left = left
  BY DEF At
<1>2. CASE call.at = "registry"
  <2>1. PICK n \in 1 .. MaxEntries : next = At("index", n - 1)
    BY <1>2 DEF Following
  <2>2. n - 1 \in Nat /\ n - 1 < MaxEntries
    BY CallsAssumption
  <2>3. GetsLeft(next) = n - 1 /\ GetsLeft(call) = MaxEntries
    BY <1>1, <1>2, <2>1 DEF GetsLeft
  <2>. QED BY <2>1, <2>2, <2>3 DEF Plain
<1>3. CASE call.at = "resolve"
  <2>1. next = At("info", call.left)
    BY <1>3 DEF Following
  <2>2. GetsLeft(next) = call.left + 1 /\ GetsLeft(call) = call.left + 2
    BY <1>1, <1>3, <2>1 DEF GetsLeft
  <2>. QED BY <2>1, <2>2 DEF Plain
<1>4. CASE call.at = "info"
  <2>1. next = At("versions", call.left)
    BY <1>4 DEF Following
  <2>2. GetsLeft(next) = call.left /\ GetsLeft(call) = call.left + 1
    BY <1>1, <1>4, <2>1 DEF GetsLeft
  <2>. QED BY <2>1, <2>2 DEF Plain
<1>5. CASE call.at \in {"index", "versions", "entry"}
  <2>1. call.left > 0 /\ \E place \in {"index", "entry"} : next = At(place, call.left - 1)
    BY <1>5 DEF Following
  <2>2. GetsLeft(next) = call.left - 1 /\ GetsLeft(call) = call.left /\ call.left - 1 \in Nat
    BY <1>1, <1>5, <2>1 DEF GetsLeft
  <2>. QED BY <2>1, <2>2 DEF Plain
<1>6. CASE call.at = "record"
  BY <1>6 DEF Following
<1>. QED BY <1>2, <1>3, <1>4, <1>5, <1>6 DEF Plain

\* A call that begins, in a caller that had none.
LEMMA ArrivalMatches ==
  ASSUME MatchInv, NEW c \in Caller, Arrives(c)
  PROVE  /\ calls[c] = NoCall
         /\ \E call, get : /\ calls' = [calls EXCEPT ![c] = call]
                           /\ gets' = [gets EXCEPT ![c] = get] /\ CallAndGet(call, get)
<1>1. calls[c] = NoCall
  BY DEF Arrives, Requests, ListProviders, GetRecord, CountTokens, InspectProvider,
         ExportBegins, Begins, CanBegin
<1>2. ASSUME NEW call, Begins(c, call), CallAndGet(call, Acquiring)
      PROVE  \E x, get : /\ calls' = [calls EXCEPT ![c] = x]
                         /\ gets' = [gets EXCEPT ![c] = get] /\ CallAndGet(x, get)
  BY <1>2 DEF Begins, Moves, Becomes
<1>3. CASE ListProviders(c) \/ GetRecord(c) \/ \E n \in 1 .. 2 : InspectProvider(c, n)
  <2>1. PICK place \in Plain, left \in Nat : Begins(c, At(place, left))
    BY <1>3 DEF ListProviders, GetRecord, InspectProvider, Plain
  <2>. QED BY <1>1, <1>2, <2>1, Places
<1>4. CASE CountTokens(c)
  <2>1. PICK call \in {NoCall, [at |-> "lock"]} : calls' = [calls EXCEPT ![c] = call]
    BY <1>4 DEF CountTokens
  <2>2. gets[c] = Idle
    BY <1>1 DEF MatchInv, CallAndGet, NoCall, AtAGet, Plain, Offline
  <2>3. gets' = [gets EXCEPT ![c] = Idle]
    BY <1>4, <2>2 DEF CountTokens, transportVars, MatchInv, ExportInv, SlotInv, TransportTypeOK
  <2>. QED BY <1>1, <2>1, <2>3, Places
<1>5. ASSUME NEW n \in Name, NEW expected, ExportBegins(c, n, expected)
      PROVE  CallAndGet(Export(n, expected), Acquiring) /\ Begins(c, Export(n, expected))
  <2>1. Export(n, expected).at = "fetch" /\ Acquiring \in Get \ {Idle}
    BY DEF Export, Get, Acquiring, Idle
  <2>. QED BY <1>5, <2>1 DEF CallAndGet, AtAGet, Plain, ExportBegins
<1>. QED BY <1>1, <1>2, <1>3, <1>4, <1>5 DEF Arrives, Requests

\* A step of a call at its gets' ends.
LEMMA PlainAdvances ==
  ASSUME MatchInv, NEW c \in Caller, Proceeds(c) \/ CallFails(c)
  PROVE  \E call, get : Advances(c, call, get)
<1>1. calls[c].at \in Plain /\ CallAndGet(calls[c], gets[c])
  BY DEF Proceeds, CallFails, MatchInv
<1>2. calls[c] = At(calls[c].at, calls[c].left) /\ calls[c].left \in Nat
  BY <1>1 DEF CallAndGet, NoCall, Plain, Offline
<1>3. CASE Ends(c)
  BY <1>3, Places DEF Ends, Moves, Becomes, Advances
<1>4. ASSUME NEW call \in Following(calls[c]), call # NoCall, Moves(c, call, Acquiring)
      PROVE  Advances(c, call, Acquiring)
  BY <1>1, <1>2, <1>4, FewerFollow, Places DEF Moves, Becomes, Advances, Nearer
<1>. QED BY <1>3, <1>4 DEF Proceeds, CallFails

\* A step at the tokenizer.
LEMMA TokenizerAdvances ==
  ASSUME MatchInv, NEW c \in Caller, TokenizerSteps(c)
  PROVE  \E call, get : Advances(c, call, get)
<1>1. CASE Ends(c)
  BY <1>1, Places DEF Ends, Moves, Becomes, Advances
<1>2. CASE calls[c].at = "lock" /\ Moves(c, At("tokenizer", 0), Acquiring)
  <2>1. GetsLeft(calls[c]) = 1
    BY <1>2 DEF GetsLeft
  <2>2. Nearer(calls[c], gets[c], At("tokenizer", 0), Acquiring)
    BY <2>1, Places DEF Nearer
  <2>3. Advances(c, At("tokenizer", 0), Acquiring)
    BY <1>2, <2>2, Places DEF Moves, Becomes, Advances
  <2>. QED BY <2>3
<1>. QED BY <1>1, <1>2 DEF TokenizerSteps, LockTaken, TokenizerRead, TokenizerFails

\* A step of an export outside its get, or at its end.
LEMMA ExportAdvances ==
  ASSUME MatchInv, NEW c \in Caller,
         \/ FetchFails(c) \/ (\E digest \in Digest : RecordFetched(c, digest))
         \/ FetchAccepted(c) \/ FetchRejected(c)
         \/ Opens(c) \/ OpenFails(c) \/ Written(c) \/ WriteFails(c)
  PROVE  \E call, get : Advances(c, call, get)
<1>1. CASE Ends(c)
  BY <1>1, Places DEF Ends, Moves, Becomes, Advances
<1>2. ASSUME NEW digest, RecordFetched(c, digest)
      PROVE  \E call : Advances(c, call, Idle)
  <2>. DEFINE call == Fetched(calls[c], digest, ~rightsCurrent)
  <2>1. call.at = "fetched"
    BY DEF Fetched
  <2>2. GetsLeft(call) = 0 /\ GetsLeft(calls[c]) = 1 /\ CallAndGet(call, Idle)
    BY <1>2, <2>1, Places DEF RecordFetched, GetsLeft, Offline
  <2>3. Moves(c, call, Idle)
    BY <1>2 DEF RecordFetched
  <2>. HIDE DEF call
  <2>4. Nearer(calls[c], gets[c], call, Idle)
    BY <2>2 DEF Nearer
  <2>5. Advances(c, call, Idle)
    BY <2>2, <2>3, <2>4 DEF Moves, Becomes, Advances
  <2>. QED BY <2>5
<1>3. ASSUME FetchAccepted(c) \/ Opens(c)
      PROVE  \E call : Advances(c, call, Idle)
  <2>1. PICK place \in {"opening", "writing"} :
           /\ calls' = [calls EXCEPT ![c] = [calls[c] EXCEPT !.at = place]] /\ UNCHANGED gets
           /\ calls[c].at = IF place = "opening" THEN "fetched" ELSE "opening"
    BY <1>3 DEF FetchAccepted, Opens
  <2>. DEFINE call == [calls[c] EXCEPT !.at = place]
  <2>2. call.at = place
    BY <2>1 DEF MatchInv, ExportInv, FilesInv, CallsOK, CallOK
  <2>3. gets[c] = Idle
    BY <2>1 DEF MatchInv, CallAndGet, NoCall, AtAGet, Plain
  <2>4. gets' = [gets EXCEPT ![c] = Idle]
    BY <2>1, <2>3 DEF MatchInv, ExportInv, SlotInv, TransportTypeOK
  <2>5. /\ GetsLeft(call) = 0 /\ GetsLeft(calls[c]) = 0
        /\ StepsLeft(call, Idle) < StepsLeft(calls[c], gets[c])
    BY <2>1, <2>2 DEF GetsLeft, StepsLeft
  <2>6. CallAndGet(call, Idle)
    <3>1. call.at \in Offline
      BY <2>2 DEF Offline
    <3>. HIDE DEF call
    <3>. QED BY <3>1, Places
  <2>. HIDE DEF call
  <2>7. calls' = [calls EXCEPT ![c] = call]
    BY <2>1 DEF call
  <2>. QED BY <2>4, <2>5, <2>6, <2>7 DEF Advances, Nearer
<1>. QED BY <1>1, <1>2, <1>3 DEF FetchFails, FetchRejected, OpenFails, Written, WriteFails

\* Whatever a call does, it ends or is nearer to its end.
LEMMA StepAdvances ==
  ASSUME MatchInv, NEW c \in Caller, Step(c)
  PROVE  \E call, get : Advances(c, call, get)
<1>1. CASE GetStep(c) /\ UNCHANGED <<callVars, tokenizerVars>>
  BY <1>1, GetAdvances
<1>. QED BY <1>1, PlainAdvances, TokenizerAdvances, ExportAdvances DEF Step, ClientStep, TokenizerSteps

\* All that a step does to calls and gets.
LEMMA CallKinds ==
  ASSUME MatchInv, [Next]_vars
  PROVE  \/ \E c \in Caller : \E call, get : Advances(c, call, get)
         \/ \E c \in Caller : Arrives(c)
         \/ calls' = [c \in Caller |-> NoCall] /\ gets' = [c \in Caller |-> Idle]
         \/ RightsChange
         \/ UNCHANGED <<calls, gets>>
<1>1. ASSUME NEW c \in Caller, LookupAnswers(c) \/ TargetRefused(c),
             UNCHANGED <<callVars, tokenizerVars>>
      PROVE  \E call, get : Advances(c, call, get)
  BY <1>1, GetAdvances
<1>2. CASE Resolvers \/ RefusedTargets
  BY <1>1, <1>2 DEF RefusedTargets, Resolvers, ResolverStep, AbandonedLookupEnds, SlotReleased, callVars
<1>3. CASE Crash \/ (\E n \in Name : OperatorClears(n)) \/ UNCHANGED vars
  BY <1>3 DEF Crash, OperatorClears, vars, clientVars, callVars, transportVars
<1>. QED BY <1>2, <1>3, StepAdvances DEF Next

LEMMA MatchInvInit == Init => MatchInv
<1>. SUFFICES ASSUME Init PROVE MatchInv
  OBVIOUS
<1>1. \A c \in Caller : calls[c] = NoCall /\ gets[c] = Idle
  BY DEF Init, ClientInit, TransportInit
<1>. QED BY <1>1, Places, ExportInvInit DEF MatchInv

LEMMA MatchInvStep == MatchInv /\ [Next]_vars => MatchInv'
<1>. SUFFICES ASSUME MatchInv, [Next]_vars PROVE MatchInv'
  OBVIOUS
<1>1. ExportInv'
  BY ExportInvStep DEF MatchInv
<1>2. ASSUME NEW c \in Caller, NEW call, NEW get, CallAndGet(call, get),
             calls' = [calls EXCEPT ![c] = call], gets' = [gets EXCEPT ![c] = get]
      PROVE  \A d \in Caller : CallAndGet(calls'[d], gets'[d])
  <2>1. \A d \in Caller : /\ calls'[d] = IF d = c THEN call ELSE calls[d]
                          /\ gets'[d] = IF d = c THEN get ELSE gets[d]
    BY <1>2 DEF MatchInv, ExportInv, FilesInv, CallsOK, SlotInv, TransportTypeOK
  <2>. QED BY <1>2, <2>1 DEF MatchInv
<1>3. \A d \in Caller : CallAndGet(calls'[d], gets'[d])
  <2>1. ASSUME NEW c \in Caller, NEW call, NEW get, Advances(c, call, get)
        PROVE  \A d \in Caller : CallAndGet(calls'[d], gets'[d])
    BY <1>2, <2>1 DEF Advances
  <2>2. ASSUME NEW c \in Caller, Arrives(c)
        PROVE  \A d \in Caller : CallAndGet(calls'[d], gets'[d])
    BY <1>2, <2>2, ArrivalMatches
  <2>3. CASE calls' = [c \in Caller |-> NoCall] /\ gets' = [c \in Caller |-> Idle]
    BY <2>3, Places
  <2>4. CASE UNCHANGED <<calls, gets>>
    BY <2>4 DEF MatchInv
  <2>5. ASSUME RightsChange, NEW d \in Caller
        PROVE  CallAndGet(calls'[d], gets'[d])
    <3>1. /\ calls'[d].at = calls[d].at /\ gets' = gets
          /\ calls'[d] = calls[d] \/ calls[d].at = "fetched"
      BY <2>5, RightsMove DEF RightsChange, transportVars, MatchInv, ExportInv, FilesInv
    <3>. QED BY <3>1, Places DEF MatchInv, CallAndGet, AtAGet, Plain, Offline, NoCall
  <2>. QED BY <2>1, <2>2, <2>3, <2>4, <2>5, CallKinds
<1>. QED BY <1>1, <1>3 DEF MatchInv, CallAndGet

-----------------------------------------------------------------------------
\* The guard of some step of the call.
CanGo(c) ==
  \/ gets[c] = Acquiring /\ (freeSlots > 0 \/ freeSlots = 0)
  \/ gets[c].phase = "resolving" \/ gets[c].phase = "requesting"
  \/ calls[c].at \in Plain /\ ((Answered(c) /\ Following(calls[c]) # {}) \/ Fails(c))
  \/ calls[c].at \in {"tokenizer", "fetch"} /\ Fails(c)
  \/ calls[c].at = "lock" /\ tokenizerLock = None
  \/ calls[c].at \in {"fetched", "opening", "writing"}

\* Nobody waits for somebody who waits.
NobodyStuck ==
  \A c \in Caller : Busy(c) =>
    \/ CanGo(c)
    \/ /\ calls[c].at = "lock" /\ tokenizerLock \in Caller \ {c}
       /\ Busy(tokenizerLock) /\ CanGo(tokenizerLock)

\* A step of a call ends it or brings it nearer to its end; a step of another
\* leaves it as near, unless it ends it.
AsNear(c) ==
  /\ GetsLeft(calls'[c]) = GetsLeft(calls[c])
  /\ StepsLeft(calls'[c], gets'[c]) = StepsLeft(calls[c], gets[c])

CallsRunDown ==
  [][\A c \in Caller : Busy(c) =>
       \/ calls'[c] = NoCall
       \/ Nearer(calls[c], gets[c], calls'[c], gets'[c])
       \/ ~Step(c) /\ AsNear(c)]_vars

LEMMA AtAGetGoes ==
  ASSUME MatchInv, NEW c \in Caller, calls[c].at \in AtAGet
  PROVE  CanGo(c)
<1>1. gets[c] \in Get \ {Idle} /\ (calls[c].at \in Plain => calls[c].left \in Nat)
  BY DEF MatchInv, CallAndGet, NoCall, AtAGet, Plain, Offline
<1>2. CASE gets[c] = Acquiring
  <2>1. freeSlots \in Int /\ freeSlots >= 0
    BY DEF MatchInv, ExportInv, SlotInv, TransportTypeOK, SlotsAccounted
  <2>. QED BY <1>2, <2>1 DEF CanGo
<1>3. CASE gets[c].phase \in {"resolving", "requesting"}
  BY <1>3 DEF CanGo
<1>4. ASSUME NEW o \in Outcome, gets[c] = Done(o)
      PROVE  CanGo(c)
  <2>1. gets[c].phase = "done" /\ (gets[c] = Done("response") => o = "response")
    BY <1>4 DEF Done
  <2>2. CASE calls[c].at \in Plain /\ Answered(c)
    <3>1. Following(calls[c]) # {}
      BY <1>1, <2>2 DEF Following, Plain
    <3>. QED BY <2>2, <3>1 DEF CanGo
  <2>3. CASE calls[c].at \in Plain /\ ~Answered(c)
    BY <2>1, <2>3 DEF Fails, CanGo
  <2>4. CASE calls[c].at \in {"tokenizer", "fetch"}
    BY <1>4, <2>1, <2>4 DEF Fails, CanGo
  <2>. QED BY <2>2, <2>3, <2>4 DEF AtAGet
<1>5. CASE \E a \in Resolution \cup {"none"} : gets[c] = Resolving(a)
  BY <1>3, <1>5 DEF Resolving
<1>6. CASE \E n \in 1 .. MaxAttempts : gets[c] = Requesting(n)
  BY <1>3, <1>6 DEF Requesting
<1>. QED BY <1>1, <1>2, <1>4, <1>5, <1>6 DEF Get

(* Whatever lookups, faults and other calls do, a call that has begun can  *)
(* take a step, or waits for the tokenizer lock of another that can.       *)
THEOREM NobodyEverStuck == Spec => []NobodyStuck
<1>1. ASSUME MatchInv, NEW c \in Caller, Busy(c)
      PROVE  \/ CanGo(c)
             \/ /\ calls[c].at = "lock" /\ tokenizerLock \in Caller \ {c}
                /\ Busy(tokenizerLock) /\ CanGo(tokenizerLock)
  <2>1. calls[c].at \in AtAGet \cup Offline
    BY <1>1 DEF MatchInv, CallAndGet, Busy
  <2>2. CASE calls[c].at = "lock" /\ tokenizerLock # None
    <3>1. tokenizerLock \in Caller /\ calls[tokenizerLock].at = "tokenizer"
      BY <1>1, <2>2 DEF MatchInv, ExportInv, TokenizerInv, TokenizerFetchedOnce
    <3>2. tokenizerLock # c /\ Busy(tokenizerLock)
      BY <2>2, <3>1 DEF Busy, NoCall
    <3>. QED BY <1>1, <2>2, <3>1, <3>2, AtAGetGoes DEF AtAGet
  <2>3. CASE calls[c].at \in Offline /\ ~(calls[c].at = "lock" /\ tokenizerLock # None)
    BY <2>3 DEF Offline, CanGo
  <2>. QED BY <1>1, <2>1, <2>2, <2>3, AtAGetGoes
<1>2. MatchInv => NobodyStuck
  BY <1>1 DEF NobodyStuck
<1>. QED BY <1>2, MatchInvInit, MatchInvStep, PTL DEF Spec

(* Every step of a call ends it or lowers the pair of the gets it may      *)
(* still need and the steps left of this one, and no other step raises it: *)
(* with the theorem above, all of EveryCallEnds but the fairness.          *)
THEOREM CallsAlwaysRunDown == Spec => CallsRunDown
<1>1. ASSUME MatchInv, [Next]_vars, NEW c \in Caller, Busy(c), calls'[c] # NoCall,
             ~Nearer(calls[c], gets[c], calls'[c], gets'[c])
      PROVE  ~Step(c) /\ AsNear(c)
  <2>1. ASSUME NEW d \in Caller, NEW call, NEW get,
               calls' = [calls EXCEPT ![d] = call], gets' = [gets EXCEPT ![d] = get]
        PROVE  /\ calls'[c] = IF c = d THEN call ELSE calls[c]
               /\ gets'[c] = IF c = d THEN get ELSE gets[c]
    BY <1>1, <2>1 DEF MatchInv, ExportInv, FilesInv, CallsOK, SlotInv, TransportTypeOK
  <2>2. ASSUME NEW d \in Caller, NEW call, NEW get, Advances(d, call, get)
        PROVE  c # d /\ UNCHANGED <<calls[c], gets[c]>>
    BY <1>1, <2>1, <2>2 DEF Advances
  <2>3. ~Step(c)
    BY <1>1, <2>2, StepAdvances
  <2>4. ASSUME NEW d \in Caller, Arrives(d)
        PROVE  UNCHANGED <<calls[c], gets[c]>>
    BY <1>1, <2>1, <2>4, ArrivalMatches DEF Busy
  <2>5. CASE calls' = [x \in Caller |-> NoCall]
    BY <1>1, <2>5
  <2>6. ASSUME RightsChange PROVE AsNear(c)
    <3>1. calls'[c].at = calls[c].at /\ gets' = gets /\ (calls'[c] = calls[c] \/ calls[c].at = "fetched")
      BY <1>1, <2>6, RightsMove DEF RightsChange, transportVars, MatchInv, ExportInv, FilesInv
    <3>. QED BY <3>1 DEF AsNear, GetsLeft, StepsLeft
  <2>7. UNCHANGED <<calls[c], gets[c]>> => AsNear(c)
    BY DEF AsNear
  <2>. QED BY <1>1, <2>2, <2>3, <2>4, <2>5, <2>6, <2>7, CallKinds
<1>2. MatchInv /\ [Next]_vars =>
        [\A c \in Caller : Busy(c) =>
           \/ calls'[c] = NoCall
           \/ Nearer(calls[c], gets[c], calls'[c], gets'[c])
           \/ ~Step(c) /\ AsNear(c)]_vars
  BY <1>1
<1>. QED BY <1>2, MatchInvInit, MatchInvStep, PTL DEF Spec, CallsRunDown
=============================================================================
