--------------------------- MODULE ProviderCalls ---------------------------
(***************************************************************************)
(* OptimadeClient's operations as the sequences of gets they are           *)
(* (client.py): the provider list, the inspection of a provider, an exact  *)
(* record, and the tokenizer data that the first search of a process has   *)
(* to download.  What a search does with its pages is FederatedSearch's.   *)
(***************************************************************************)
EXTENDS Transport

CONSTANTS
    MaxEntries, \* bound: registry entries of reviewed providers, 100 in the code
    MaxCalls,   \* bound: calls begun
    None        \* no caller, no digest

ASSUME CallsAssumption == MaxEntries \in Nat /\ MaxCalls \in Nat /\ None \notin Caller

VARIABLES
    calls,         \* what each caller is doing
    begun,         \* calls begun
    tokenizerLock, \* who holds _SEARCH_ENCODING_LOCK
    encoding,      \* whether _search_encoding_cache is set
    downloads      \* accepted downloads of the tokenizer data

callVars == <<calls, begun>>
tokenizerVars == <<tokenizerLock, encoding, downloads>>
clientVars == <<transportVars, callVars, tokenizerVars>>

NoCall == [at |-> "none"]

\* A call at one of its gets, with so many left to do after it.
At(place, left) == [at |-> place, left |-> left]

\* Where a call may go once the get it is at has been answered.  A list
\* resolves an index for every entry of a reviewed provider that is unchanged,
\* the same index again for an entry listed twice; an inspection resolves one index,
\* then reads the base info, the versions and the info of one or two entry
\* types.
Following(call) ==
    CASE call.at = "registry" -> {NoCall} \cup {At("index", n - 1) : n \in 1 .. MaxEntries}
      [] call.at = "resolve"  -> {At("info", call.left)}
      [] call.at = "info"     -> {At("versions", call.left)}
      [] call.at \in {"index", "versions", "entry"} /\ call.left > 0 ->
             {At(IF call.at = "index" THEN "index" ELSE "entry", call.left - 1)}
      [] OTHER -> {NoCall}

Moves(c, call, get) ==
    /\ calls' = [calls EXCEPT ![c] = call]
    /\ Becomes(c, get)

Ends(c) == Moves(c, NoCall, Idle)

\* Only the versions endpoint may fail without failing its call.
Answered(c) ==
    \/ gets[c] = Done("response")
    \/ gets[c] = Done("failure") /\ calls[c].at = "versions"

-----------------------------------------------------------------------------
CanBegin(c) == calls[c] = NoCall /\ begun < MaxCalls

Begins(c, call) ==
    /\ CanBegin(c)
    /\ Moves(c, call, Acquiring)
    /\ begun' = begun + 1
    /\ UNCHANGED <<slotVars, tokenizerVars>>

ListProviders(c) == Begins(c, At("registry", 0))
InspectProvider(c, entryTypes) == Begins(c, At("resolve", entryTypes))
GetRecord(c) == Begins(c, At("record", 0))

\* The tokenizer data and an export have steps of their own.
Plain == {"registry", "index", "resolve", "info", "versions", "entry", "record"}

Proceeds(c) ==
    /\ calls[c].at \in Plain /\ Answered(c)
    /\ \E call \in Following(calls[c]) :
          IF call = NoCall THEN Ends(c) ELSE Moves(c, call, Acquiring)
    /\ UNCHANGED <<slotVars, begun, tokenizerVars>>

\* A call may fail at the end of each of its gets: for a failure of the
\* transport, or a document that breaks the protocol.  An index that does only
\* rejects its own provider, but its child URL, a later registry entry or the
\* registry's pagination fails the list.  An inspection reads the name of the
\* implementation after the versions, and may fail for it whatever they were.
Fails(c) == gets[c].phase = "done"

CallFails(c) ==
    /\ calls[c].at \in Plain /\ Fails(c)
    /\ Ends(c)
    /\ UNCHANGED <<slotVars, begun, tokenizerVars>>

-----------------------------------------------------------------------------
(* _search_encoding: checked, locked, checked again.                       *)

CountTokens(c) ==
    /\ CanBegin(c)
    /\ calls' = [calls EXCEPT ![c] = IF encoding THEN NoCall ELSE [at |-> "lock"]]
    /\ begun' = begun + 1
    /\ UNCHANGED <<transportVars, tokenizerVars>>

LockTakenUnchecked(c) ==
    /\ calls[c].at = "lock" /\ tokenizerLock = None
    /\ Moves(c, At("tokenizer", 0), Acquiring) /\ tokenizerLock' = c
    /\ UNCHANGED <<slotVars, begun, encoding, downloads>>

LockTaken(c) ==
    /\ calls[c].at = "lock" /\ tokenizerLock = None
    /\ \/ encoding /\ Ends(c) /\ UNCHANGED tokenizerLock
       \/ ~encoding /\ Moves(c, At("tokenizer", 0), Acquiring) /\ tokenizerLock' = c
    /\ UNCHANGED <<slotVars, begun, encoding, downloads>>

\* The data has the pinned digest and well-formed ranks.
TokenizerRead(c) ==
    /\ calls[c].at = "tokenizer" /\ gets[c] = Done("response")
    /\ Ends(c)
    /\ tokenizerLock' = None
    /\ encoding' = TRUE
    /\ downloads' = downloads + 1
    /\ UNCHANGED <<slotVars, begun>>

\* It has not, or the get failed: the search fails and the next one tries again.
TokenizerFails(c) ==
    /\ calls[c].at = "tokenizer" /\ Fails(c)
    /\ Ends(c)
    /\ tokenizerLock' = None
    /\ UNCHANGED <<slotVars, begun, encoding, downloads>>

-----------------------------------------------------------------------------
ClientInit ==
    /\ TransportInit
    /\ calls = [c \in Caller |-> NoCall]
    /\ begun = 0
    /\ tokenizerLock = None
    /\ encoding = FALSE
    /\ downloads = 0

Requests(c) ==
    \/ ListProviders(c) \/ GetRecord(c) \/ CountTokens(c)
    \/ \E entryTypes \in 1 .. 2 : InspectProvider(c, entryTypes)

ClientStep(c) ==
    \/ GetStep(c) /\ UNCHANGED <<callVars, tokenizerVars>>
    \/ Proceeds(c) \/ CallFails(c) \/ LockTaken(c) \/ TokenizerRead(c) \/ TokenizerFails(c)

RefusedTargets == (\E c \in Caller : TargetRefused(c)) /\ UNCHANGED <<callVars, tokenizerVars>>

Resolvers == ResolverStep /\ UNCHANGED <<callVars, tokenizerVars>>

-----------------------------------------------------------------------------
(* Properties.                                                             *)

Busy(c) == calls[c] # NoCall

\* docs/dependencies.md: the tokenizer data is fetched once per process.  Of
\* all the searches that find the cache empty, together or one after the other,
\* one has its download accepted, and the others use it.
TokenizerFetchedOnce ==
    /\ downloads = IF encoding THEN 1 ELSE 0
    /\ tokenizerLock # None => ~encoding /\ calls[tokenizerLock].at = "tokenizer"
=============================================================================
