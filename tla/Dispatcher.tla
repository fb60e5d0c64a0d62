----------------------------- MODULE Dispatcher -----------------------------
(***************************************************************************)
(* Dispatch of requests to bound handlers (dispatch.py), by several        *)
(* threads, over the lifecycle registry of LifecycleRegistry.  A dispatch  *)
(* takes the registry's lock to resolve its target, then the dispatcher's  *)
(* lock to look up the handler, then commits the redemption of its receipt *)
(* in the policy engine's database, then calls the handler with no lock    *)
(* held: other threads, and crashes, come in between.  The policy engine   *)
(* is seen here as EffectAuthority sees it: a durable receipt is available *)
(* until one transaction redeems it.                                       *)
(***************************************************************************)
EXTENDS LifecycleRegistry

CONSTANTS
    Thread,      \* threads that call dispatch or dispatch_async
    Handler,     \* handler callables
    Compatible,  \* manifests of the dispatcher's profile version
    HasEngine,   \* whether the dispatcher was given a policy engine
    Effectful,   \* capabilities whose tier is not R0
    Async,       \* capabilities whose manifest declares supports_async
    Receipt,     \* consumed receipts: [id, capability, registration]
    None         \* Python's None

ASSUME DispatchAssumption ==
    /\ Compatible \subseteq Manifest /\ HasEngine \in BOOLEAN
    /\ Effectful \subseteq Capability /\ Async \subseteq Capability
    /\ \A r \in Receipt : r.capability \in Capability /\ r.registration \in Manifest
    /\ None \notin Receipt \cup Handler

VARIABLES
    bindings,  \* <<registration, capability>> -> handler
    redeemed,  \* receipts the policy database holds as redeemed
    calls,     \* what each thread is doing
    invoked,   \* history: receipt -> how often a handler ran on it
    lost       \* history: receipts redeemed by a call that a crash cut off

dispatchVars == <<bindings, redeemed, calls, invoked, lost>>
allVars == <<lifecycleVars, dispatchVars>>

Target == Registration \X Capability
Idle == [phase |-> "idle"]
Phase == {"resolve", "lookup", "redeem", "invoke", "running"}

\* asynchronous says which of the two methods was called; handler is the binding
\* it captured.
Call == [phase : Phase, target : Target, turn : Turn, receipt : Receipt \cup {None},
         asynchronous : BOOLEAN, handler : Handler \cup {None}]

\* How a dispatch ends: one of its error codes, a result, or an exception that
\* it lets through.
HandlerCode == {"HANDLER_REJECTED", "HANDLER_FAILED", "HANDLER_MODE_MISMATCH",
                "RESULT_SCHEMA_REJECTED", "SUCCESS", "RAISED"}
Code == {"TARGET_UNAVAILABLE", "PROFILE_INCOMPATIBLE", "EFFECT_POLICY_REQUIRED",
         "ASYNC_DISPATCH_REQUIRED", "HANDLER_NOT_BOUND", "INPUT_SCHEMA_REJECTED",
         "AUTHORIZATION_DENIED"} \cup HandlerCode
Done(code, receipt) == [phase |-> "done", code |-> code, receipt |-> receipt]

-----------------------------------------------------------------------------
(* Bindings.                                                               *)

\* A target of another profile, or with an error contract of its own, is refused.
Bind(target, handler) ==
    /\ target[1] \in Compatible
    /\ target[2] \in DOMAIN capabilities /\ capabilities[target[2]] = target[1]
    /\ target \notin DOMAIN bindings
    /\ bindings' = [x \in DOMAIN bindings \cup {target} |->
                       IF x = target THEN handler ELSE bindings[x]]
    /\ UNCHANGED <<lifecycleVars, redeemed, calls, invoked, lost>>

\* Bindings do not follow the registry: one may outlive its registration.
Unbind(target) ==
    /\ target \in DOMAIN bindings
    /\ bindings' = Restricted(bindings, DOMAIN bindings \ {target})
    /\ UNCHANGED <<lifecycleVars, redeemed, calls, invoked, lost>>

-----------------------------------------------------------------------------
(* A dispatch, phase by phase.                                             *)

IsEffectful(call) == call.target[2] \in Effectful

\* Redemption is the last thing before the handler.
RedeemFirst(phase, call) ==
    CASE phase = "resolve" /\ IsEffectful(call) -> "redeem"
      [] phase = "resolve" /\ ~IsEffectful(call) -> "lookup"
      [] phase = "redeem" -> "lookup"
      [] OTHER -> "invoke"
PhaseAfter(phase, call) ==
    CASE phase = "resolve" -> "lookup"
      [] phase = "lookup" /\ IsEffectful(call) -> "redeem"
      [] OTHER -> "invoke"

Proceed(t) ==
    calls' = [calls EXCEPT ![t].phase = PhaseAfter(@, calls[t])]

Fail(t, code) ==
    calls' = [calls EXCEPT ![t] = Done(code, calls[t].receipt)]

BeginDispatch(t, target, turn, receipt, asynchronous) ==
    /\ calls[t].phase \in {"idle", "done"}
    /\ calls' = [calls EXCEPT ![t] =
           [phase |-> "resolve", target |-> target, turn |-> turn, receipt |-> receipt,
            asynchronous |-> asynchronous, handler |-> None]]
    /\ UNCHANGED <<lifecycleVars, bindings, redeemed, invoked, lost>>

\* _prepare's checks, in their order.
Available(call) == ResolvesActive(call.target[2], call.target[1], call.turn)
Fits(call) == Available(call) /\ call.target[1] \in Compatible
Permitted(call) == Fits(call) /\ (IsEffectful(call) => HasEngine /\ call.receipt # None)
Suited(call) == Permitted(call) /\ (call.target[2] \in Async => call.asynchronous)

\* resolve_active advances the registry even when it then refuses.
Resolve(t) ==
    LET call == calls[t] IN
    /\ call.phase = "resolve"
    /\ IF call.turn >= lastTurn THEN Advance(call.turn) ELSE UNCHANGED lifecycleVars
    /\ \/ ~Available(call) /\ Fail(t, "TARGET_UNAVAILABLE")
       \/ Available(call) /\ ~Fits(call) /\ Fail(t, "PROFILE_INCOMPATIBLE")
       \/ Fits(call) /\ ~Permitted(call) /\ Fail(t, "EFFECT_POLICY_REQUIRED")
       \/ Permitted(call) /\ ~Suited(call) /\ Fail(t, "ASYNC_DISPATCH_REQUIRED")
       \/ Suited(call) /\ Proceed(t)
    /\ UNCHANGED <<bindings, redeemed, invoked, lost>>

Lookup(t) ==
    LET call == calls[t] IN
    /\ call.phase = "lookup"
    /\ call.target \in DOMAIN bindings
    /\ calls' = [calls EXCEPT ![t].handler = bindings[call.target],
                              ![t].phase = PhaseAfter(@, call)]
    /\ UNCHANGED <<lifecycleVars, bindings, redeemed, invoked, lost>>

\* No binding, or arguments, which are not modelled, that the input schema does
\* not accept or that its validator fails on.
LookupFailed(t) ==
    /\ calls[t].phase = "lookup"
    /\ IF calls[t].target \in DOMAIN bindings
         THEN Fail(t, "INPUT_SCHEMA_REJECTED") \/ Fail(t, "RAISED")
         ELSE Fail(t, "HANDLER_NOT_BOUND")
    /\ UNCHANGED <<lifecycleVars, bindings, redeemed, invoked, lost>>

\* redeem_receipt: the receipt must bind the exact target and be available.
AcceptsReplay(call) == <<call.receipt.registration, call.receipt.capability>> = call.target
Accepts(call) ==
    /\ <<call.receipt.registration, call.receipt.capability>> = call.target
    /\ call.receipt \notin redeemed

Redeem(t) ==
    /\ calls[t].phase = "redeem"
    /\ Accepts(calls[t])
    /\ redeemed' = redeemed \cup {calls[t].receipt}
    /\ Proceed(t)
    /\ UNCHANGED <<lifecycleVars, bindings, invoked, lost>>

\* Also an approval that has expired, and a store that stays busy.
RedeemDenied(t) ==
    /\ calls[t].phase = "redeem"
    /\ Fail(t, "AUTHORIZATION_DENIED")
    /\ UNCHANGED <<lifecycleVars, bindings, redeemed, invoked, lost>>

Invoke(t) ==
    /\ calls[t].phase = "invoke"
    /\ calls' = [calls EXCEPT ![t].phase = "running"]
    /\ invoked' = IF calls[t].receipt = None \/ ~IsEffectful(calls[t]) THEN invoked
                    ELSE [invoked EXCEPT ![calls[t].receipt] = @ + 1]
    /\ UNCHANGED <<lifecycleVars, bindings, redeemed, lost>>

\* The handler raises, returns in the wrong mode, or returns a value that its
\* result schema accepts or not, or that cannot even be encoded: what that raises
\* is no ContractError and no DispatchError.
Return(t, code) ==
    /\ calls[t].phase = "running"
    /\ code \in HandlerCode
    /\ Fail(t, code)
    /\ UNCHANGED <<lifecycleVars, bindings, redeemed, invoked, lost>>

\* CancelledError passes through dispatch_async while it awaits the handler of
\* an asynchronous capability, the only place where it gives up control.
Cancel(t) ==
    /\ calls[t].phase = "running" /\ calls[t].asynchronous /\ calls[t].target[2] \in Async
    /\ calls' = [calls EXCEPT ![t] = Idle]
    /\ UNCHANGED <<lifecycleVars, bindings, redeemed, invoked, lost>>

\* The process dies: the registry, the bindings and the calls were in memory,
\* the redemptions are in the database.
Crash ==
    /\ registrations' = {} /\ capabilities' = <<>> /\ active' = <<>> /\ lastTurn' = 0
    /\ bindings' = <<>>
    /\ calls' = [t \in Thread |-> Idle]
    /\ lost' = lost \cup {calls[t].receipt : t \in
                 {u \in Thread : calls[u].phase = "invoke" /\ IsEffectful(calls[u])}}
    /\ UNCHANGED <<redeemed, invoked>>

-----------------------------------------------------------------------------
Init ==
    /\ LifecycleInit
    /\ bindings = <<>>
    /\ redeemed = {}
    /\ calls = [t \in Thread |-> Idle]
    /\ invoked = [r \in Receipt |-> 0]
    /\ lost = {}

Next ==
    \/ LifecycleNext /\ UNCHANGED dispatchVars
    \/ \E target \in Target : Unbind(target) \/ \E h \in Handler : Bind(target, h)
    \/ \E t \in Thread :
          \/ \E target \in Target, turn \in Turn, r \in Receipt \cup {None}, a \in BOOLEAN :
                BeginDispatch(t, target, turn, r, a)
          \/ Resolve(t) \/ Lookup(t) \/ LookupFailed(t)
          \/ Redeem(t) \/ RedeemDenied(t) \/ Invoke(t) \/ Cancel(t)
          \/ \E code \in Code : Return(t, code)
    \/ Crash

Spec == Init /\ [][Next]_allVars

-----------------------------------------------------------------------------
(* Properties.                                                             *)

\* Shapes of the dispatcher's state.
DispatchTypeOK ==
    /\ LifecycleTypeOK
    /\ DOMAIN bindings \subseteq Target
    /\ bindings \in [DOMAIN bindings -> Handler]
    /\ redeemed \subseteq Receipt
    /\ calls \in [Thread -> {Idle} \cup Call
                     \cup [phase : {"done"}, code : Code, receipt : Receipt \cup {None}]]
    /\ invoked \in [Receipt -> Nat]
    /\ lost \subseteq Receipt

\* At most once: however many threads present a receipt, before and after how
\* many crashes, one handler invocation runs on it and its redemption came
\* first.  An effectful handler runs, or is about to, only in the one call that
\* redeemed its receipt, and the receipt is for the very target it runs.
AtMostOncePerReceipt ==
    /\ \A r \in Receipt : invoked[r] <= 1 /\ (invoked[r] = 1 => r \in redeemed)
    /\ \A t \in Thread :
          calls[t].phase \in {"invoke", "running"} /\ IsEffectful(calls[t]) =>
              /\ calls[t].receipt \in redeemed
              /\ calls[t].target = <<calls[t].receipt.registration, calls[t].receipt.capability>>
              /\ \A u \in Thread \ {t} :
                    calls[u].phase \in {"invoke", "running"} /\ IsEffectful(calls[u]) =>
                        calls[u].receipt # calls[t].receipt

\* A receipt is burnt only for a handler: if it is redeemed, a handler ran on
\* it, or is about to, or a crash fell between the two.  No refusal burns one.
RedeemedOnlyToRun ==
    \A r \in redeemed :
        \/ invoked[r] = 1
        \/ r \in lost
        \/ \E t \in Thread : calls[t].phase = "invoke" /\ calls[t].receipt = r

=============================================================================
