----------------------------- MODULE Transport -----------------------------
(***************************************************************************)
(* BoundedHttpsTransport.get (transport.py) as the threads of one process  *)
(* call it: a name lookup in a thread of its own that holds one of the     *)
(* process's DNS slots, then one or two attempts at the request.  A caller *)
(* gives a lookup up after its timeout; the lookup goes on, and keeps its  *)
(* slot until the operating system answers.                                *)
(*                                                                         *)
(* Deadlines: the total timeout is looked at between operations, and once  *)
(* it is found to have passed the call ends with a failure.  So each look  *)
(* is a choice between going on and ending, and no clock is kept.          *)
(***************************************************************************)
EXTENDS Integers, FiniteSets

CONSTANTS
    Caller,       \* threads that call get
    DnsSlots,     \* _DNS_SLOTS, 4 in the code
    MaxAttempts,  \* max_attempts, one or two
    MaxLost       \* bound: resolver threads that cannot be started

ASSUME TransportAssumption ==
    /\ IsFiniteSet(Caller)
    /\ DnsSlots \in Nat \ {0}
    /\ MaxAttempts \in 1 .. 2
    /\ MaxLost \in Nat

VARIABLES
    gets,       \* how far each caller's get is
    freeSlots,  \* the semaphore's value
    lookups,    \* resolver threads inside getaddrinfo
    releasing,  \* resolver threads that have answered but not released yet
    lost        \* slots taken for a thread that did not start

transportVars == <<gets, freeSlots, lookups, releasing, lost>>
slotVars == <<freeSlots, lookups, releasing, lost>>

\* An answer of a lookup: addresses that are all acceptable, or an error, a
\* malformed record, a private address, too many or none.
Resolution == {"addresses", "refused"}

Idle == [phase |-> "idle"]
Acquiring == [phase |-> "acquiring"]
Resolving(answer) == [phase |-> "resolving", answer |-> answer]
Requesting(attempt) == [phase |-> "requesting", attempt |-> attempt]

\* What get comes back with: a response, a TransportError, or the error of a
\* thread that could not start.
Outcome == {"response", "failure", "raised"}
Done(outcome) == [phase |-> "done", outcome |-> outcome]

Get ==
    {Idle, Acquiring} \cup {Resolving(a) : a \in Resolution \cup {"none"}}
    \cup {Requesting(n) : n \in 1 .. MaxAttempts} \cup {Done(o) : o \in Outcome}

Becomes(c, get) == gets' = [gets EXCEPT ![c] = get]

-----------------------------------------------------------------------------
(* request_target, then _resolve.                                          *)

\* The path is refused, or the URI is too long, before a slot is asked for.
\* Which it is depends on the call alone, so no progress rests on this step.
TargetRefused(c) ==
    /\ gets[c] = Acquiring
    /\ Becomes(c, Done("failure"))
    /\ UNCHANGED slotVars

AcquireSlot(c) ==
    /\ gets[c] = Acquiring
    /\ freeSlots > 0
    /\ freeSlots' = freeSlots - 1
    /\ lookups' = lookups + 1
    /\ Becomes(c, Resolving("none"))
    /\ UNCHANGED <<releasing, lost>>

\* Thread.start raises, and nobody releases the slot.
ThreadDoesNotStart(c) ==
    /\ gets[c] = Acquiring
    /\ freeSlots > 0 /\ lost < MaxLost
    /\ freeSlots' = freeSlots - 1
    /\ lost' = lost + 1
    /\ Becomes(c, Done("raised"))
    /\ UNCHANGED <<lookups, releasing>>

NeverGivesUp(c) == FALSE /\ UNCHANGED transportVars

\* acquire(timeout) fails only if no slot is free when the timeout is up.
SlotTimesOut(c) ==
    /\ gets[c] = Acquiring
    /\ freeSlots = 0
    /\ Becomes(c, Done("failure"))
    /\ UNCHANGED slotVars

LookupAnswersUnreleased(c) ==
    /\ gets[c] = Resolving("none")
    /\ \E answer \in Resolution : Becomes(c, Resolving(answer))
    /\ lookups' = lookups - 1
    /\ UNCHANGED <<freeSlots, releasing, lost>>

\* The queue is the call's own, so only the call's own lookup fills it.
LookupAnswers(c) ==
    /\ gets[c] = Resolving("none")
    /\ \E answer \in Resolution : Becomes(c, Resolving(answer))
    /\ lookups' = lookups - 1
    /\ releasing' = releasing + 1
    /\ UNCHANGED <<freeSlots, lost>>

ReleasesToo(c) ==
    /\ gets[c] = Resolving("none")
    /\ Becomes(c, Done("failure"))
    /\ freeSlots' = freeSlots + 1
    /\ UNCHANGED <<lookups, releasing, lost>>

\* The caller gives up; the lookup and its slot stay behind.
LookupTimesOut(c) ==
    /\ gets[c] = Resolving("none")
    /\ Becomes(c, Done("failure"))
    /\ UNCHANGED slotVars

\* Callers that still wait for their lookup.
Waiting == {c \in Caller : gets[c] = Resolving("none")}

\* A lookup whose caller has given up ends: its answer goes nowhere.
AbandonedLookupEnds ==
    /\ lookups > Cardinality(Waiting)
    /\ lookups' = lookups - 1
    /\ releasing' = releasing + 1
    /\ UNCHANGED <<gets, freeSlots, lost>>

\* The finally of the resolver thread, after the answer is in the queue.
SlotReleased ==
    /\ releasing > 0
    /\ releasing' = releasing - 1
    /\ freeSlots' = freeSlots + 1
    /\ UNCHANGED <<gets, lookups, lost>>

\* The time may be up before the first attempt.
AnswerTaken(c) ==
    /\ gets[c].phase = "resolving" /\ gets[c].answer # "none"
    /\ \/ gets[c].answer = "addresses" /\ Becomes(c, Requesting(1))
       \/ Becomes(c, Done("failure"))
    /\ UNCHANGED slotVars

-----------------------------------------------------------------------------
(* The attempts: connect, send, status, headers and a bounded body.        *)

RequestAnswered(c) ==
    /\ gets[c].phase = "requesting"
    /\ Becomes(c, Done("response"))
    /\ UNCHANGED slotVars

\* Failures that another attempt may get past; of a body, only a read timeout.
Retryable == {"network-failed", "http-status-busy", "header-timeout", "read-timeout"}

\* Failures that end the call: of the bounded reader and of the status line.
ReadRefused ==
    {"response-rejected", "response-too-large", "content-encoding-rejected", "deadline-passed"}
Final == ReadRefused \cup {"redirect-rejected", "http-status-other", "content-type-rejected"}

\* A failure ends the call, with that failure, if it is final, if the attempt
\* was the last, or if no time is left; otherwise the next of the pinned
\* addresses is tried after a pause.
AttemptFails(c, failure) ==
    /\ gets[c].phase = "requesting"
    /\ \/ Becomes(c, Done("failure"))
       \/ /\ failure \in Retryable /\ gets[c].attempt < MaxAttempts
          /\ Becomes(c, Requesting(gets[c].attempt + 1))
    /\ UNCHANGED slotVars

-----------------------------------------------------------------------------
TransportInit ==
    /\ gets = [c \in Caller |-> Idle]
    /\ freeSlots = DnsSlots
    /\ lookups = 0
    /\ releasing = 0
    /\ lost = 0

\* What happens to a caller inside get, and every wait of it has a timeout.
GetStep(c) ==
    \/ AcquireSlot(c) \/ ThreadDoesNotStart(c) \/ SlotTimesOut(c) \/ LookupTimesOut(c)
    \/ AnswerTaken(c) \/ RequestAnswered(c)
    \/ \E failure \in Retryable \cup Final : AttemptFails(c, failure)

\* The operating system's resolver and the threads around it.
ResolverStep == (\E c \in Caller : LookupAnswers(c)) \/ AbandonedLookupEnds \/ SlotReleased

-----------------------------------------------------------------------------
\* Shapes of the transport's state.
TransportTypeOK ==
    /\ gets \in [Caller -> Get]
    /\ freeSlots \in Int /\ lookups \in Nat /\ releasing \in Nat /\ lost \in Nat

\* No slot is released twice, which the bounded semaphore would answer with an
\* error, and none is taken but by a lookup that is still under way, even if its
\* caller has gone, or by a thread that never started.  A caller that waits has
\* a lookup under way.
SlotsAccounted ==
    /\ freeSlots >= 0
    /\ freeSlots + lookups + releasing + lost = DnsSlots
    /\ Cardinality(Waiting) <= lookups
=============================================================================
