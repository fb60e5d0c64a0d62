------------------------------ MODULE MCPHost ------------------------------
(***************************************************************************)
(* EngineMCPHost (mcp_host.py): activate and execute requests as tasks of  *)
(* one event loop.  A request holds the turn lock, an asyncio.Lock, from   *)
(* the turn it takes until its handler has answered, across the awaits.    *)
(* The embedding application's other threads may register, unregister,     *)
(* bind and unbind meanwhile.  A task of this module is a Thread of        *)
(* Dispatcher, and makes at most one request.                              *)
(***************************************************************************)
EXTENDS Dispatcher, Sequences

CONSTANTS
    LeaseTurns,  \* lease_turns that clients ask for
    QuotaLimit,  \* the resolver's policy limit on effectful calls
    HasResolver  \* whether the host was given an authorization resolver

ASSUME HostAssumption ==
    /\ LeaseTurns \subseteq Nat \ {0}
    /\ QuotaLimit \in Nat /\ HasResolver \in BOOLEAN
    /\ IsFiniteSet(Thread) /\ MaxTurn >= Cardinality(Thread)
    /\ Receipt = [id : Thread, capability : Capability, registration : Manifest]

VARIABLES
    hostTurn,  \* self._turn
    turnQueue, \* tasks that hold (the first) or wait for self._turn_lock
    requests,  \* what each task asks of the host and how far it is
    issued,    \* grants the resolver has issued, each by the receipt it is for
    minted,    \* those of them it has consumed, at one charge each
    metrics    \* the observer's counts of finished operations, by outcome

hostOnlyVars == <<hostTurn, turnQueue, requests, issued, minted, metrics>>
hostVars == <<allVars, hostOnlyVars>>

NoRequest == [phase |-> "none"]
ActivateRequest(c, lease) == [phase |-> "waiting", op |-> "activate", capability |-> c, lease |-> lease]
ExecuteRequest(target) == [phase |-> "waiting", op |-> "execute", target |-> target]
HostCode == (Code \ {"RAISED"})
              \cup {"OK", "ACTIVATION_FAILED", "EXECUTION_FAILED", "AUTHORIZATION_RESOLVER_FAILED"}
\* An exception that dispatch lets through is contained here.
CodeOf(outcome) == IF outcome = "RAISED" THEN "EXECUTION_FAILED" ELSE outcome
Answer(code, charged) == [phase |-> "answered", code |-> code, charged |-> charged]
Charged(t) == \E r \in minted : r.id = t

-----------------------------------------------------------------------------
(* The turn lock: first come, first served.                                *)

HoldsUnfairly(t) == \E i \in 1 .. Len(turnQueue) : turnQueue[i] = t
Holds(t) == turnQueue # <<>> /\ Head(turnQueue) = t

Without(s, i) == SubSeq(s, 1, i - 1) \o SubSeq(s, i + 1, Len(s))

LeaveQueue(t) ==
    \E i \in 1 .. Len(turnQueue) : turnQueue[i] = t /\ turnQueue' = Without(turnQueue, i)

Outcome(code) == IF code \in {"OK", "SUCCESS"} THEN "success" ELSE "failure"

\* OperationObserver.finish: one more event of the outcome.
Observe(outcome) == metrics' = [metrics EXCEPT ![outcome] = @ + 1]

\* The task answers: it has released the lock and is observed, with no await
\* in between.
AnswersWith(t, code) ==
    /\ requests' = [requests EXCEPT ![t] = Answer(code, Charged(t))]
    /\ Observe(Outcome(code))
    /\ LeaveQueue(t)

Submit(t, request) ==
    /\ requests[t] = NoRequest
    /\ requests' = [requests EXCEPT ![t] = request]
    /\ turnQueue' = Append(turnQueue, t)
    /\ UNCHANGED <<allVars, hostTurn, issued, minted, metrics>>

-----------------------------------------------------------------------------
(* activate: the turn is taken whether or not the registry accepts.        *)

Waiting(t, op) == Holds(t) /\ requests[t].phase = "waiting" /\ requests[t].op = op

HostActivate(t) ==
    /\ Waiting(t, "activate")
    /\ hostTurn' = hostTurn + 1
    /\ Activate(requests[t].capability, hostTurn + 1, requests[t].lease)
    /\ AnswersWith(t, "OK")
    /\ UNCHANGED <<dispatchVars, issued, minted>>

\* A lease beyond the policy is refused before the registry is touched, a
\* capability that is not registered after its turn has advanced.
HostActivateFailed(t) ==
    /\ Waiting(t, "activate")
    /\ hostTurn' = hostTurn + 1
    /\ \/ requests[t].lease > MaxLease /\ UNCHANGED lifecycleVars
       \/ /\ requests[t].lease <= MaxLease
          /\ requests[t].capability \notin DOMAIN capabilities
          /\ Advance(hostTurn + 1)
    /\ AnswersWith(t, "ACTIVATION_FAILED")
    /\ UNCHANGED <<dispatchVars, issued, minted>>

-----------------------------------------------------------------------------
(* execute.                                                                *)

Registered(target) ==
    target[2] \in DOMAIN capabilities /\ capabilities[target[2]] = target[1]

\* The first resolve fails before a turn is taken.
ExecuteUnknown(t) ==
    /\ Waiting(t, "execute")
    /\ ~Registered(requests[t].target)
    /\ AnswersWith(t, "EXECUTION_FAILED")
    /\ UNCHANGED <<allVars, hostTurn, issued, minted>>

ExecuteTakesTurn(t) ==
    /\ Waiting(t, "execute")
    /\ Registered(requests[t].target)
    /\ hostTurn' = hostTurn + 1
    /\ requests' = [requests EXCEPT ![t] =
           [phase |-> "checking", target |-> @.target, turn |-> hostTurn + 1]]
    /\ UNCHANGED <<allVars, turnQueue, issued, minted, metrics>>

\* _next_request fails, in the clock or the factory it was given, after it has
\* taken the turn.
ExecuteLosesTurn(t) ==
    /\ Waiting(t, "execute")
    /\ Registered(requests[t].target)
    /\ hostTurn' = hostTurn + 1
    /\ AnswersWith(t, "EXECUTION_FAILED")
    /\ UNCHANGED <<allVars, issued, minted>>

Effects(t) == requests[t].target[2] \in Effectful
ResolvesUnchecked(t) == TRUE
Resolves(t) == ResolvesActive(requests[t].target[2], requests[t].target[1], requests[t].turn)

\* resolve_active before the resolver: only a live target may be charged for.
CheckedFor(t, phase) ==
    /\ Holds(t) /\ requests[t].phase = "checking"
    /\ IF requests[t].turn >= lastTurn THEN Advance(requests[t].turn) ELSE UNCHANGED lifecycleVars
    /\ requests' = [requests EXCEPT ![t].phase = phase]
    /\ UNCHANGED <<dispatchVars, hostTurn, turnQueue, issued, minted, metrics>>

CheckedForResolver(t) ==
    CheckedFor(t, "authorizing") /\ Resolves(t) /\ Effects(t) /\ HasResolver
CheckedForDispatch(t) ==
    CheckedFor(t, "calling") /\ ~(Resolves(t) /\ Effects(t) /\ HasResolver)

QuotaRemainsAlways == TRUE
QuotaRemainsLate == Cardinality(minted) <= QuotaLimit
QuotaRemains == Cardinality(minted) < QuotaLimit

ReceiptFor(t) == [id |-> t, capability |-> requests[t].target[2], registration |-> requests[t].target[1]]

\* The resolver plans and issues a grant for exactly this request, whose charge
\* the policy allows, ...
IssueGrant(t) ==
    /\ Holds(t) /\ requests[t].phase = "authorizing"
    /\ QuotaLimit >= 1
    /\ issued' = issued \cup {ReceiptFor(t)}
    /\ requests' = [requests EXCEPT ![t].phase = "charging"]
    /\ UNCHANGED <<allVars, hostTurn, turnQueue, minted, metrics>>

\* ... and consumes it, in a transaction of its own.
Consume(t) ==
    /\ Holds(t) /\ requests[t].phase = "charging"
    /\ QuotaRemains
    /\ minted' = minted \cup {ReceiptFor(t)}
    /\ requests' = [requests EXCEPT ![t].phase = "charged"]
    /\ UNCHANGED <<allVars, hostTurn, turnQueue, issued, metrics>>

\* It refuses, for the quota or another reason of its own, raises, or returns what
\* is no policy and receipt: before, between or after its transactions, which stay.
AuthorizeRefused(t, code) ==
    /\ Holds(t) /\ requests[t].phase \in {"authorizing", "charging", "charged"}
    /\ code \in {"AUTHORIZATION_DENIED", "AUTHORIZATION_RESOLVER_FAILED"}
    /\ AnswersWith(t, code)
    /\ UNCHANGED <<allVars, hostTurn, issued, minted>>

ReceiptOf(t) ==
    IF Charged(t) THEN CHOOSE r \in minted : r.id = t ELSE None

CallDispatcher(t) ==
    /\ Holds(t) /\ requests[t].phase \in {"calling", "charged"}
    /\ BeginDispatch(t, requests[t].target, requests[t].turn, ReceiptOf(t), TRUE)
    /\ requests' = [requests EXCEPT ![t].phase = "dispatching"]
    /\ UNCHANGED <<hostTurn, turnQueue, issued, minted, metrics>>

DispatchStep(t) ==
    /\ requests[t].phase = "dispatching"
    /\ \/ Resolve(t) \/ Lookup(t) \/ LookupFailed(t)
       \/ Redeem(t) \/ RedeemDenied(t) \/ Invoke(t)
       \/ \E code \in Code : Return(t, code)
    /\ UNCHANGED hostOnlyVars

\* The outcome, or the exception, leaves the lock; a success whose value is not
\* JSON is turned into a failure after that.
ExecuteAnswers(t, code) ==
    /\ requests[t].phase = "dispatching" /\ calls[t].phase = "done"
    /\ \/ code = CodeOf(calls[t].code)
       \/ code = "RESULT_SCHEMA_REJECTED" /\ calls[t].code = "SUCCESS"
    /\ AnswersWith(t, code)
    /\ UNCHANGED <<allVars, hostTurn, issued, minted>>

-----------------------------------------------------------------------------
(* Cancellation, which asyncio delivers only where a task is suspended:    *)
(* waiting for the lock, or awaiting the handler.  CancelledError is no     *)
(* Exception, so nothing is answered or observed.                          *)

AbandonHolding(t) ==
    /\ requests' = [requests EXCEPT ![t] = [phase |-> "cancelled"]]
    /\ UNCHANGED <<turnQueue, metrics>>

AbandonObserved(t) ==
    /\ requests' = [requests EXCEPT ![t] = [phase |-> "cancelled"]]
    /\ Observe("failure")
    /\ LeaveQueue(t)

Abandon(t) ==
    /\ requests' = [requests EXCEPT ![t] = [phase |-> "cancelled"]]
    /\ LeaveQueue(t)
    /\ UNCHANGED metrics

CancelWaiting(t) ==
    /\ requests[t].phase = "waiting"
    /\ Abandon(t)
    /\ UNCHANGED <<allVars, hostTurn, issued, minted>>

CancelAwaiting(t) ==
    /\ requests[t].phase = "dispatching"
    /\ Cancel(t)
    /\ Abandon(t)
    /\ UNCHANGED <<hostTurn, issued, minted>>

\* The embedding application, from other threads.
Embedder ==
    /\ \/ /\ \E m \in Manifest : Register(m) \/ Unregister(m)
          /\ UNCHANGED dispatchVars
       \/ \E target \in Target : Unbind(target) \/ \E h \in Handler : Bind(target, h)
    /\ UNCHANGED hostOnlyVars

-----------------------------------------------------------------------------
HostInit ==
    /\ Init
    /\ hostTurn = 0
    /\ turnQueue = <<>>
    /\ requests = [t \in Thread |-> NoRequest]
    /\ issued = {}
    /\ minted = {}
    /\ metrics = [outcome \in {"success", "failure"} |-> 0]

HostStep(t) ==
    \/ HostActivate(t) \/ HostActivateFailed(t)
    \/ ExecuteUnknown(t) \/ ExecuteTakesTurn(t) \/ ExecuteLosesTurn(t)
    \/ CheckedForResolver(t) \/ CheckedForDispatch(t)
    \/ IssueGrant(t) \/ Consume(t) \/ (\E code \in HostCode : AuthorizeRefused(t, code))
    \/ CallDispatcher(t) \/ DispatchStep(t) \/ (\E code \in HostCode : ExecuteAnswers(t, code))

Arrives(t) ==
    \/ \E c \in Capability, lease \in LeaseTurns : Submit(t, ActivateRequest(c, lease))
    \/ \E target \in Target : Submit(t, ExecuteRequest(target))

HostNext ==
    \/ \E t \in Thread : Arrives(t) \/ HostStep(t) \/ CancelWaiting(t) \/ CancelAwaiting(t)
    \/ Embedder

HostSpec == HostInit /\ [][HostNext]_hostVars

\* The event loop runs every task that is not suspended, and every handler
\* returns.
FairHostSpec == HostSpec /\ \A t \in Thread : WF_hostVars(HostStep(t))

-----------------------------------------------------------------------------
(* Properties.                                                             *)

InProgress == {"checking", "authorizing", "charging", "charged", "calling", "dispatching"}

\* docs/mcp-host.md: concurrent requests cannot present decreasing turns.  What
\* a request in progress will present is never behind the registry, and no two
\* requests present the same turn.
TurnsNeverRegress ==
    /\ lastTurn <= hostTurn
    /\ \A t \in Thread : requests[t].phase \in InProgress =>
          /\ requests[t].turn = hostTurn
          /\ \A u \in Thread \ {t} : requests[u].phase \notin InProgress

\* The window between the check of a target and the end of its handler is
\* closed although other threads change the registry: the target that a charge
\* is about to be, or has been, taken for stays registered and leased.
ChargedTargetStaysLive ==
    \A t \in Thread :
        \/ requests[t].phase \in {"authorizing", "charging"}
        \/ requests[t].phase \in InProgress /\ Charged(t)
        => /\ Registered(requests[t].target)
           /\ requests[t].target[2] \in DOMAIN active
           /\ active[requests[t].target[2]].registration = requests[t].target[1]

\* Charges and effects stay in step: no more handlers run than the quota
\* allows, each on the receipt minted for its own request.
EffectsWithinQuota ==
    /\ Cardinality({r \in Receipt : invoked[r] > 0}) <= QuotaLimit
    /\ \A r \in Receipt : invoked[r] > 0 => r \in minted

\* What a caller who was charged is told.  If the receipt was redeemed, it is what
\* became of the handler.  If not, the request was refused or failed between the
\* charge and the redemption; by the profile only when the registration charged for
\* is of another one, and for want of a policy engine only when there is none.  So
\* an unavailable target is never charged for, and no refusal hides an effect.
ChargesExplained ==
    \A t \in Thread : requests[t].phase = "answered" /\ requests[t].charged =>
        LET code == requests[t].code
            otherProfile == \E r \in minted : r.id = t /\ r.registration \notin Compatible
        IN  IF \E r \in redeemed : r.id = t
              THEN code \in {"HANDLER_REJECTED", "HANDLER_FAILED", "HANDLER_MODE_MISMATCH",
                             "RESULT_SCHEMA_REJECTED", "SUCCESS", "EXECUTION_FAILED"}
              ELSE \/ code \in {"AUTHORIZATION_DENIED", "AUTHORIZATION_RESOLVER_FAILED",
                                "HANDLER_NOT_BOUND", "INPUT_SCHEMA_REJECTED", "EXECUTION_FAILED"}
                   \/ code = "PROFILE_INCOMPATIBLE" /\ otherProfile
                   \/ code = "EFFECT_POLICY_REQUIRED" /\ ~HasEngine

\* docs/mcp-host.md: success and failure counters.  The counts are the requests that were
\* answered, each once and with the outcome its caller was told; so an effect
\* without an event is one whose request is still in progress or was cancelled.
EventsMatchAnswers ==
    LET Told(outcome) == {t \in Thread : /\ requests[t].phase = "answered"
                                         /\ Outcome(requests[t].code) = outcome}
    IN  /\ \A outcome \in {"success", "failure"} : metrics[outcome] = Cardinality(Told(outcome))
        /\ \A r \in Receipt :
              invoked[r] > 0 => requests[r.id].phase \in {"dispatching", "answered", "cancelled"}

\* The effects of the host, as the authority grants them: none needs an
\* approval, and each costs one unit of the one policy the resolver has.
EffectOf(r) ==
    [receipt |-> r, approval |-> "none", policy |-> "host",
     charges |-> [kind \in {"calls"} |-> [total |-> 1]]]
EffectsOf(receipts) == {EffectOf(r) : r \in receipts}
HostAuthority == INSTANCE EffectAuthority WITH
    Grant <- EffectsOf(Receipt), Policy <- {"host"}, Kind <- {"calls"}, NoApproval <- "none",
    granted <- EffectsOf(issued), paid <- EffectsOf(minted), released <- EffectsOf(redeemed),
    left <- [policy \in {"host"} |-> [kind \in {"calls"} |-> QuotaLimit - Cardinality(minted)]]

\* The host, its resolver and its dispatcher together keep what the authority
\* promises: an effect is granted before it is paid for, paid for out of what is
\* left before it is released to a handler, and released once, whatever is
\* refused, cancelled or unregistered between these transactions.
HostImplementsAuthority == HostAuthority!Spec

\* Every request that reaches the host is answered, unless it is cancelled:
\* neither a failure, a refusal nor a cancelled holder leaves the lock taken.
\* Stated of all at once: a waiting request leads to a moment at which none of
\* those that have arrived is waiting or in progress.
EveryRequestEnds ==
    (\E t \in Thread : requests[t].phase = "waiting")
        ~> \A t \in Thread : requests[t].phase \in {"none", "answered", "cancelled"}
=============================================================================
