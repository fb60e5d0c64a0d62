-------------------------- MODULE DispatcherProofs --------------------------
(***************************************************************************)
(* For any number of threads, receipts and crashes, one handler runs on a  *)
(* receipt at most, and a receipt is redeemed only for a handler to run.   *)
(* Registry, bindings and turns play no part in the argument: it is the    *)
(* redemption, one transaction, that tells apart the calls which present   *)
(* the same receipt.                                                       *)
(***************************************************************************)
EXTENDS Dispatcher, LifecycleProofs

AnyCall == {Idle} \cup Call \cup [phase : {"done"}, code : Code, receipt : Receipt \cup {None}]

\* A call that redeems is effectful, and an effectful call that has been resolved
\* carries a receipt: _resolve_target refused it otherwise.
CarriesReceipt(c) ==
  /\ c.phase = "redeem" => IsEffectful(c)
  /\ c.phase \in {"lookup", "redeem", "invoke", "running"} /\ IsEffectful(c) => c.receipt \in Receipt

\* The calls between redemption and handler, and those that have reached it.
Ready(c) == c.phase = "invoke" /\ IsEffectful(c)
Armed(c) == c.phase \in {"invoke", "running"} /\ IsEffectful(c)

\* What the two properties need beside themselves: no handler has yet run on the
\* receipt of a ready call, and RedeemedOnlyToRun speaks of effectful calls.
ReadyIsFresh == \A t \in Thread : Ready(calls[t]) => invoked[calls[t].receipt] = 0
RedeemedIsPending ==
  \A r \in redeemed : \/ invoked[r] = 1
                      \/ r \in lost
                      \/ \E t \in Thread : Ready(calls[t]) /\ calls[t].receipt = r

ReceiptInv == AtMostOncePerReceipt /\ ReadyIsFresh /\ RedeemedIsPending

DispatchInv ==
  /\ LifecycleInv /\ DispatchTypeOK
  /\ \A t \in Thread : CarriesReceipt(calls[t])
  /\ ReceiptInv

-----------------------------------------------------------------------------
(* Steps of one call.                                                      *)

\* A call past its beginning has the fields of a call.
LEMMA CallFields ==
  ASSUME DispatchTypeOK, NEW t \in Thread, calls[t].phase \in Phase
  PROVE  calls[t] \in Call
BY DEF DispatchTypeOK, Phase, Idle

\* The tables and types when one call moves and the database does not.
LEMMA MovesWellTyped ==
  ASSUME DispatchInv, NEW t \in Thread, NEW x \in AnyCall, CarriesReceipt(x),
         calls' = [calls EXCEPT ![t] = x], LifecycleInv',
         UNCHANGED <<bindings, redeemed, invoked, lost>>
  PROVE  /\ LifecycleInv' /\ DispatchTypeOK'
         /\ \A u \in Thread : CarriesReceipt(calls'[u])
<1>1. calls \in [Thread -> AnyCall]
  BY DEF DispatchInv, DispatchTypeOK, AnyCall
<1>2. calls' \in [Thread -> AnyCall]
  BY <1>1
<1>3. DispatchTypeOK'
  BY <1>2 DEF DispatchInv, LifecycleInv, DispatchTypeOK, AnyCall
<1>4. \A u \in Thread : calls'[u] = IF u = t THEN x ELSE calls[u]
  BY <1>1
<1>. QED BY <1>3, <1>4 DEF DispatchInv

\* A call that is not ready moves to where it is not armed: neither a handler
\* nor a receipt is concerned.
LEMMA QuietStep ==
  ASSUME DispatchInv, NEW t \in Thread, NEW x \in AnyCall, CarriesReceipt(x),
         calls' = [calls EXCEPT ![t] = x], LifecycleInv',
         UNCHANGED <<bindings, redeemed, invoked, lost>>,
         ~Ready(calls[t]), ~Armed(x)
  PROVE  DispatchInv'
<1>1. calls \in [Thread -> AnyCall]
  BY DEF DispatchInv, DispatchTypeOK, AnyCall
<1>2. \A u \in Thread : calls'[u] = IF u = t THEN x ELSE calls[u]
  BY <1>1
<1>3. AtMostOncePerReceipt'
  BY <1>2 DEF DispatchInv, ReceiptInv, AtMostOncePerReceipt, Armed, IsEffectful
<1>4. ~Ready(x)
  BY DEF Ready, Armed
<1>5. ReadyIsFresh'
  BY <1>2, <1>4 DEF DispatchInv, ReceiptInv, ReadyIsFresh
<1>6. RedeemedIsPending'
  <2>. SUFFICES ASSUME NEW r \in redeemed, invoked[r] # 1, r \notin lost
                PROVE  \E u \in Thread : Ready(calls'[u]) /\ calls'[u].receipt = r
    BY DEF RedeemedIsPending
  <2>1. PICK u \in Thread : Ready(calls[u]) /\ calls[u].receipt = r
    BY DEF DispatchInv, ReceiptInv, RedeemedIsPending
  <2>. QED BY <2>1, <1>2
<1>. QED BY <1>3, <1>5, <1>6, MovesWellTyped DEF DispatchInv, ReceiptInv

\* The registry moves and no call does.
LEMMA RegistryStep ==
  ASSUME DispatchInv, LifecycleInv', UNCHANGED dispatchVars
  PROVE  DispatchInv'
BY DEF DispatchInv, LifecycleInv, dispatchVars, DispatchTypeOK, ReceiptInv,
       AtMostOncePerReceipt, ReadyIsFresh, RedeemedIsPending

LEMMA LifecycleStep ==
  ASSUME DispatchInv, LifecycleNext \/ UNCHANGED lifecycleVars
  PROVE  LifecycleInv'
BY LifecycleInvStep DEF DispatchInv

\* bind and unbind.
LEMMA BindingStep ==
  ASSUME DispatchInv, NEW target \in Target,
         Unbind(target) \/ \E h \in Handler : Bind(target, h)
  PROVE  DispatchInv'
<1>1. UNCHANGED <<lifecycleVars, redeemed, calls, invoked, lost>>
  BY DEF Unbind, Bind
<1>2. DOMAIN bindings' \subseteq Target /\ bindings' \in [DOMAIN bindings' -> Handler]
  BY DEF Unbind, Bind, Restricted, DispatchInv, DispatchTypeOK
<1>3. LifecycleInv'
  BY <1>1, LifecycleStep
<1>. QED BY <1>1, <1>2, <1>3
         DEF DispatchInv, LifecycleInv, DispatchTypeOK, ReceiptInv,
             AtMostOncePerReceipt, ReadyIsFresh, RedeemedIsPending

\* What a refusal or a return leaves of a call.
LEMMA DoneIsQuiet ==
  ASSUME NEW code \in Code, NEW r \in Receipt \cup {None}
  PROVE  Done(code, r) \in AnyCall /\ CarriesReceipt(Done(code, r)) /\ ~Armed(Done(code, r))
BY DEF Done, AnyCall, CarriesReceipt, Armed

LEMMA FailStep ==
  ASSUME DispatchInv, NEW t \in Thread, NEW code \in Code, Fail(t, code), LifecycleInv',
         calls[t].phase \in Phase, ~Ready(calls[t]),
         UNCHANGED <<bindings, redeemed, invoked, lost>>
  PROVE  DispatchInv'
<1>1. calls[t].receipt \in Receipt \cup {None}
  BY CallFields DEF DispatchInv, Call
<1>. QED BY <1>1, DoneIsQuiet, QuietStep DEF Fail

\* The next phase of an effectful call comes before the handler until it has
\* redeemed its receipt.
LEMMA BeginStep ==
  ASSUME DispatchInv, NEW t \in Thread, NEW target \in Target, NEW turn \in Turn,
         NEW r \in Receipt \cup {None}, NEW a \in BOOLEAN, BeginDispatch(t, target, turn, r, a)
  PROVE  DispatchInv'
<1>. DEFINE x == [phase |-> "resolve", target |-> target, turn |-> turn, receipt |-> r,
                  asynchronous |-> a, handler |-> None]
<1>1. x \in AnyCall
  BY DEF AnyCall, Call, Phase
<1>2. CarriesReceipt(x) /\ ~Armed(x)
  BY DEF CarriesReceipt, Armed
<1>3. ~Ready(calls[t])
  BY DEF BeginDispatch, Ready
<1>4. LifecycleInv'
  BY LifecycleStep DEF BeginDispatch
<1>. QED BY <1>1, <1>2, <1>3, <1>4, QuietStep DEF BeginDispatch

LEMMA ResolveStep ==
  ASSUME DispatchInv, NEW t \in Thread, Resolve(t)
  PROVE  DispatchInv'
<1>. DEFINE x == [calls[t] EXCEPT !.phase = "lookup"]
<1>1. calls[t] \in Call /\ calls[t].phase = "resolve" /\ ~Ready(calls[t])
  BY CallFields DEF Resolve, DispatchInv, Phase, Ready
<1>2. LifecycleInv'
  <2>1. CASE calls[t].turn >= lastTurn
    <3>1. calls[t].turn \in Turn
      BY <1>1 DEF Call
    <3>2. Advance(calls[t].turn)
      BY <2>1 DEF Resolve
    <3>3. LifecycleNext
      BY <3>1, <3>2 DEF LifecycleNext
    <3>. QED BY <3>3, LifecycleStep
  <2>2. CASE ~(calls[t].turn >= lastTurn)
    BY <2>2, LifecycleStep DEF Resolve
  <2>. QED BY <2>1, <2>2
<1>3. UNCHANGED <<bindings, redeemed, invoked, lost>>
  BY DEF Resolve
<1>4. \/ \E code \in Code : Fail(t, code)
      \/ Proceed(t) /\ ~(IsEffectful(calls[t]) /\ calls[t].receipt = None)
  BY DEF Resolve, Code, Suited, Permitted
<1>5. CASE Proceed(t) /\ ~(IsEffectful(calls[t]) /\ calls[t].receipt = None)
  <2>1. x \in AnyCall
    BY <1>1 DEF AnyCall, Call, Phase
  <2>2. x.phase = "lookup" /\ x.target = calls[t].target /\ x.receipt = calls[t].receipt
    BY <1>1 DEF Call
  <2>3. CarriesReceipt(x)
    BY <1>1, <1>5, <2>2 DEF CarriesReceipt, IsEffectful, Call
  <2>4. ~Armed(x)
    BY <2>2 DEF Armed
  <2>5. calls' = [calls EXCEPT ![t] = x]
    BY <1>1, <1>5 DEF Proceed, PhaseAfter
  <2>. HIDE DEF x
  <2>. QED BY <1>1, <1>2, <1>3, <2>1, <2>3, <2>4, <2>5, QuietStep
<1>6. CASE \E code \in Code : Fail(t, code)
  BY <1>1, <1>2, <1>3, <1>6, FailStep DEF Phase
<1>. QED BY <1>4, <1>5, <1>6

LEMMA LookupStep ==
  ASSUME DispatchInv, NEW t \in Thread, Lookup(t)
  PROVE  DispatchInv'
<1>. DEFINE x == [calls[t] EXCEPT !.handler = bindings[calls[t].target],
                                  !.phase = PhaseAfter("lookup", calls[t])]
<1>1. calls[t] \in Call /\ calls[t].phase = "lookup" /\ ~Ready(calls[t])
  BY CallFields DEF Lookup, DispatchInv, Phase, Ready
<1>2. LifecycleInv'
  BY LifecycleStep DEF Lookup
<1>3. bindings[calls[t].target] \in Handler
  BY DEF Lookup, DispatchInv, DispatchTypeOK
<1>4. PhaseAfter("lookup", calls[t]) = IF IsEffectful(calls[t]) THEN "redeem" ELSE "invoke"
  BY DEF PhaseAfter
<1>5. x \in AnyCall
  BY <1>1, <1>3, <1>4 DEF AnyCall, Call, Phase
<1>6. /\ x.phase = IF IsEffectful(calls[t]) THEN "redeem" ELSE "invoke"
      /\ x.target = calls[t].target /\ x.receipt = calls[t].receipt
  BY <1>1, <1>4 DEF Call
<1>7. CarriesReceipt(calls[t])
  BY DEF DispatchInv
<1>8. CarriesReceipt(x) /\ ~Armed(x)
  BY <1>1, <1>6, <1>7 DEF CarriesReceipt, IsEffectful, Armed
<1>9. calls' = [calls EXCEPT ![t] = x] /\ UNCHANGED <<bindings, redeemed, invoked, lost>>
  BY <1>1 DEF Lookup, DispatchInv, DispatchTypeOK
<1>. HIDE DEF x
<1>. QED BY <1>1, <1>2, <1>5, <1>8, <1>9, QuietStep

\* The refusals, and a handler that comes back.
LEMMA RefusalStep ==
  ASSUME DispatchInv, NEW t \in Thread,
         LookupFailed(t) \/ RedeemDenied(t) \/ \E code \in Code : Return(t, code)
  PROVE  DispatchInv'
<1>1. /\ calls[t].phase \in Phase /\ ~Ready(calls[t])
      /\ \E code \in Code : Fail(t, code)
      /\ UNCHANGED <<lifecycleVars, bindings, redeemed, invoked, lost>>
  BY DEF LookupFailed, RedeemDenied, Return, Phase, Ready, Code, HandlerCode
<1>. QED BY <1>1, LifecycleStep, FailStep

\* A handler that is cancelled has run.
LEMMA CancelStep ==
  ASSUME DispatchInv, NEW t \in Thread, Cancel(t)
  PROVE  DispatchInv'
<1>1. Idle \in AnyCall /\ CarriesReceipt(Idle) /\ ~Armed(Idle)
  BY DEF AnyCall, CarriesReceipt, Armed, Idle
<1>2. ~Ready(calls[t])
  BY DEF Cancel, Ready
<1>. QED BY <1>1, <1>2, LifecycleStep, QuietStep DEF Cancel

\* redeem_receipt: the receipt was available, so that no handler has run on it
\* and no other call is armed with it.
LEMMA RedeemStep ==
  ASSUME DispatchInv, NEW t \in Thread, Redeem(t)
  PROVE  DispatchInv'
<1>. DEFINE x == [calls[t] EXCEPT !.phase = "invoke"]
            r == calls[t].receipt
<1>1. calls[t] \in Call /\ calls[t].phase = "redeem" /\ ~Armed(calls[t]) /\ ~Ready(calls[t])
  BY CallFields DEF Redeem, DispatchInv, Phase, Ready, Armed
<1>2. IsEffectful(calls[t]) /\ r \in Receipt
  BY <1>1 DEF DispatchInv, CarriesReceipt
<1>3. r \notin redeemed /\ <<r.registration, r.capability>> = calls[t].target
  BY DEF Redeem, Accepts
<1>4. calls \in [Thread -> AnyCall]
  BY DEF DispatchInv, DispatchTypeOK, AnyCall
<1>5. calls' = [calls EXCEPT ![t] = x]
  BY <1>1 DEF Redeem, Proceed, PhaseAfter
<1>6. x \in AnyCall
  BY <1>1 DEF AnyCall, Call, Phase
<1>7. x.phase = "invoke" /\ x.target = calls[t].target /\ x.receipt = r
  BY <1>1 DEF Call
<1>8. CarriesReceipt(x) /\ Ready(x) /\ Armed(x)
  BY <1>2, <1>7 DEF CarriesReceipt, IsEffectful, Ready, Armed
<1>. HIDE DEF x
<1>9. \A u \in Thread : calls'[u] = IF u = t THEN x ELSE calls[u]
  BY <1>4, <1>5
<1>10. redeemed' = redeemed \cup {r} /\ UNCHANGED <<lifecycleVars, bindings, invoked, lost>>
  BY DEF Redeem
<1>11. \A u \in Thread : Armed(calls[u]) => calls[u].receipt \in redeemed
  BY DEF DispatchInv, ReceiptInv, AtMostOncePerReceipt, Armed
<1>12. invoked[r] = 0
  <2>1. invoked[r] \in Nat /\ invoked[r] <= 1 /\ (invoked[r] = 1 => r \in redeemed)
    BY <1>2 DEF DispatchInv, ReceiptInv, AtMostOncePerReceipt, DispatchTypeOK
  <2>. QED BY <2>1, <1>3
<1>13. LifecycleInv' /\ DispatchTypeOK' /\ \A u \in Thread : CarriesReceipt(calls'[u])
  <2>1. LifecycleInv'
    BY <1>10, LifecycleStep
  <2>2. calls' \in [Thread -> AnyCall]
    BY <1>4, <1>5, <1>6
  <2>3. DispatchTypeOK'
    BY <2>1, <2>2, <1>2, <1>10 DEF DispatchInv, LifecycleInv, DispatchTypeOK, AnyCall
  <2>. QED BY <2>1, <2>3, <1>8, <1>9 DEF DispatchInv
<1>14. AtMostOncePerReceipt'
  <2>1. \A q \in Receipt : invoked'[q] <= 1 /\ (invoked'[q] = 1 => q \in redeemed')
    BY <1>10 DEF DispatchInv, ReceiptInv, AtMostOncePerReceipt
  <2>2. ASSUME NEW u \in Thread, Armed(calls'[u])
        PROVE  /\ calls'[u].receipt \in redeemed'
               /\ calls'[u].target = <<calls'[u].receipt.registration, calls'[u].receipt.capability>>
               /\ \A v \in Thread \ {u} : Armed(calls'[v]) => calls'[v].receipt # calls'[u].receipt
    <3>1. CASE u = t
      BY <3>1, <1>3, <1>7, <1>9, <1>10, <1>11
    <3>2. CASE u # t
      <4>1. calls'[u] = calls[u] /\ Armed(calls[u])
        BY <2>2, <3>2, <1>9
      <4>2. /\ calls[u].receipt \in redeemed
            /\ calls[u].target = <<calls[u].receipt.registration, calls[u].receipt.capability>>
            /\ \A v \in Thread \ {u} : Armed(calls[v]) => calls[v].receipt # calls[u].receipt
        BY <4>1 DEF DispatchInv, ReceiptInv, AtMostOncePerReceipt, Armed
      <4>. QED BY <4>1, <4>2, <1>3, <1>7, <1>9, <1>10
    <3>. QED BY <3>1, <3>2
  <2>. QED BY <2>1, <2>2 DEF AtMostOncePerReceipt, Armed
<1>15. ReadyIsFresh'
  BY <1>7, <1>9, <1>10, <1>12 DEF DispatchInv, ReceiptInv, ReadyIsFresh
<1>16. RedeemedIsPending'
  <2>. SUFFICES ASSUME NEW q \in redeemed', invoked[q] # 1, q \notin lost
                PROVE  \E u \in Thread : Ready(calls'[u]) /\ calls'[u].receipt = q
    BY <1>10 DEF RedeemedIsPending
  <2>1. CASE q = r
    BY <2>1, <1>7, <1>8, <1>9
  <2>2. CASE q # r
    <3>1. PICK u \in Thread : Ready(calls[u]) /\ calls[u].receipt = q
      BY <2>2, <1>10 DEF DispatchInv, ReceiptInv, RedeemedIsPending
    <3>. QED BY <3>1, <1>1, <1>9
  <2>. QED BY <2>1, <2>2
<1>. QED BY <1>13, <1>14, <1>15, <1>16 DEF DispatchInv, ReceiptInv

\* The handler runs: on a receipt no handler has run on, and no other armed call
\* carries it.
LEMMA InvokeStep ==
  ASSUME DispatchInv, NEW t \in Thread, Invoke(t)
  PROVE  DispatchInv'
<1>. DEFINE x == [calls[t] EXCEPT !.phase = "running"]
            r == calls[t].receipt
<1>1. calls[t] \in Call /\ calls[t].phase = "invoke"
  BY CallFields DEF Invoke, DispatchInv, Phase
<1>2. calls \in [Thread -> AnyCall]
  BY DEF DispatchInv, DispatchTypeOK, AnyCall
<1>3. calls' = [calls EXCEPT ![t] = x] /\ UNCHANGED <<lifecycleVars, bindings, redeemed, lost>>
  BY DEF Invoke
<1>4. x \in AnyCall
  BY <1>1 DEF AnyCall, Call, Phase
<1>5. x.phase = "running" /\ x.target = calls[t].target /\ x.receipt = r
  BY <1>1 DEF Call
<1>6. /\ CarriesReceipt(calls[t]) /\ CarriesReceipt(x) /\ ~Ready(x)
      /\ Armed(x) <=> IsEffectful(calls[t])
  BY <1>1, <1>5 DEF DispatchInv, CarriesReceipt, IsEffectful, Ready, Armed
<1>. HIDE DEF x
<1>7. \A u \in Thread : calls'[u] = IF u = t THEN x ELSE calls[u]
  BY <1>2, <1>3
<1>8. CASE ~IsEffectful(calls[t])
  <2>1. invoked' = invoked /\ ~Ready(calls[t]) /\ ~Armed(x)
    BY <1>6, <1>8 DEF Invoke, Ready
  <2>. QED BY <2>1, <1>3, <1>4, <1>6, LifecycleStep, QuietStep
<1>9. CASE IsEffectful(calls[t])
  <2>1. r \in Receipt /\ Ready(calls[t]) /\ Armed(calls[t])
    BY <1>1, <1>6, <1>9 DEF CarriesReceipt, Ready, Armed
  <2>2. invoked' = [invoked EXCEPT ![r] = @ + 1] /\ invoked \in [Receipt -> Nat] /\ invoked[r] = 0
    BY <2>1, <1>9, DispatchAssumption
       DEF Invoke, DispatchInv, DispatchTypeOK, ReceiptInv, ReadyIsFresh
  <2>3. \A q \in Receipt : invoked'[q] = IF q = r THEN 1 ELSE invoked[q]
    BY <2>2
  <2>4. /\ r \in redeemed
        /\ calls[t].target = <<r.registration, r.capability>>
        /\ \A u \in Thread \ {t} : Armed(calls[u]) => calls[u].receipt # r
    BY <2>1 DEF DispatchInv, ReceiptInv, AtMostOncePerReceipt, Armed
  <2>5. LifecycleInv' /\ DispatchTypeOK' /\ \A u \in Thread : CarriesReceipt(calls'[u])
    <3>1. LifecycleInv'
      BY <1>3, LifecycleStep
    <3>2. calls' \in [Thread -> AnyCall]
      BY <1>2, <1>3, <1>4
    <3>3. invoked' \in [Receipt -> Nat]
      <4>1. \A q \in Receipt : invoked'[q] \in Nat
        BY <2>2, <2>3
      <4>2. invoked' = [q \in Receipt |-> invoked'[q]]
        BY <2>2
      <4>. QED BY <4>1, <4>2
    <3>4. DispatchTypeOK'
      BY <3>1, <3>2, <3>3, <1>3 DEF DispatchInv, LifecycleInv, DispatchTypeOK, AnyCall
    <3>. QED BY <3>1, <3>4, <1>6, <1>7 DEF DispatchInv
  <2>6. AtMostOncePerReceipt'
    <3>1. \A q \in Receipt : invoked'[q] <= 1 /\ (invoked'[q] = 1 => q \in redeemed')
      BY <1>3, <2>3, <2>4 DEF DispatchInv, ReceiptInv, AtMostOncePerReceipt
    <3>2. \A u \in Thread : Armed(calls'[u]) =>
             /\ Armed(calls[u]) /\ calls'[u].receipt = calls[u].receipt
             /\ calls'[u].target = calls[u].target
      BY <1>5, <1>7, <2>1
    <3>. QED BY <3>1, <3>2, <1>3 DEF DispatchInv, ReceiptInv, AtMostOncePerReceipt, Armed
  <2>7. ReadyIsFresh'
    <3>. SUFFICES ASSUME NEW u \in Thread, Ready(calls'[u])
                  PROVE  invoked'[calls'[u].receipt] = 0
      BY DEF ReadyIsFresh
    <3>1. u # t /\ calls'[u] = calls[u] /\ Ready(calls[u])
      BY <1>6, <1>7
    <3>2. invoked[calls[u].receipt] = 0 /\ calls[u].receipt # r /\ calls[u].receipt \in Receipt
      BY <3>1, <2>4 DEF DispatchInv, ReceiptInv, ReadyIsFresh, Ready, Armed, CarriesReceipt
    <3>. QED BY <3>1, <3>2, <2>3
  <2>8. RedeemedIsPending'
    <3>. SUFFICES ASSUME NEW q \in redeemed, invoked'[q] # 1, q \notin lost
                  PROVE  \E u \in Thread : Ready(calls'[u]) /\ calls'[u].receipt = q
      BY <1>3 DEF RedeemedIsPending
    <3>1. q \in Receipt
      BY DEF DispatchInv, DispatchTypeOK
    <3>2. q # r /\ invoked[q] # 1
      BY <3>1, <2>3
    <3>3. PICK u \in Thread : Ready(calls[u]) /\ calls[u].receipt = q
      BY <3>2 DEF DispatchInv, ReceiptInv, RedeemedIsPending
    <3>. QED BY <3>2, <3>3, <1>7
  <2>. QED BY <2>5, <2>6, <2>7, <2>8 DEF DispatchInv, ReceiptInv
<1>. QED BY <1>8, <1>9

\* A crash ends every call; the receipts of those that were ready are lost, and
\* what the database holds stays.
LEMMA CrashStep ==
  ASSUME DispatchInv, Crash
  PROVE  DispatchInv'
<1>1. LifecycleInv'
  <2>1. LifecycleInit'
    BY DEF Crash, LifecycleInit
  <2>2. LifecycleInit' => LifecycleInv'
    BY LifecycleInvInit, PTL
  <2>. QED BY <2>1, <2>2
<1>2. /\ \A u \in Thread : calls'[u] = Idle
      /\ calls' \in [Thread -> {Idle}]
      /\ UNCHANGED <<redeemed, invoked>> /\ DOMAIN bindings' = {}
  BY DEF Crash
<1>3. lost' = lost \cup {calls[t].receipt : t \in {u \in Thread : Ready(calls[u])}}
  BY DEF Crash, Ready
<1>4. \A t \in Thread : Ready(calls[t]) => calls[t].receipt \in Receipt
  BY DEF DispatchInv, CarriesReceipt, Ready
<1>5. DispatchTypeOK'
  <2>1. bindings' \in [DOMAIN bindings' -> Handler]
    BY DEF Crash
  <2>. QED BY <2>1, <1>1, <1>2, <1>3, <1>4 DEF DispatchInv, LifecycleInv, DispatchTypeOK
<1>6. ~Ready(Idle) /\ ~Armed(Idle) /\ CarriesReceipt(Idle)
  BY DEF Ready, Armed, CarriesReceipt, Idle
<1>7. AtMostOncePerReceipt' /\ ReadyIsFresh'
  BY <1>2, <1>6 DEF DispatchInv, ReceiptInv, AtMostOncePerReceipt, ReadyIsFresh, Armed
<1>8. RedeemedIsPending'
  BY <1>2, <1>3 DEF DispatchInv, ReceiptInv, RedeemedIsPending
<1>. QED BY <1>1, <1>2, <1>5, <1>6, <1>7, <1>8 DEF DispatchInv, ReceiptInv

-----------------------------------------------------------------------------
LEMMA DispatchInvInit == Init => DispatchInv
<1>. SUFFICES ASSUME Init PROVE DispatchInv
  OBVIOUS
<1>1. LifecycleInv
  BY LifecycleInvInit DEF Init
<1>2. DOMAIN bindings = {} /\ \A t \in Thread : calls[t] = Idle
  BY DEF Init
<1>3. DispatchTypeOK
  BY <1>1, <1>2 DEF Init, DispatchTypeOK, LifecycleInv
<1>4. ~Ready(Idle) /\ ~Armed(Idle) /\ CarriesReceipt(Idle)
  BY DEF Ready, Armed, CarriesReceipt, Idle
<1>5. ReceiptInv
  BY <1>2, <1>4 DEF Init, ReceiptInv, AtMostOncePerReceipt, ReadyIsFresh, RedeemedIsPending, Armed
<1>. QED BY <1>1, <1>2, <1>3, <1>4, <1>5 DEF DispatchInv

LEMMA DispatchInvStep == DispatchInv /\ [Next]_allVars => DispatchInv'
<1>. SUFFICES ASSUME DispatchInv, [Next]_allVars PROVE DispatchInv'
  OBVIOUS
<1>1. CASE LifecycleNext /\ UNCHANGED dispatchVars
  BY <1>1, LifecycleStep, RegistryStep
<1>2. CASE UNCHANGED allVars
  BY <1>2, LifecycleStep, RegistryStep DEF allVars
<1>3. ASSUME NEW target \in Target, Unbind(target) \/ \E h \in Handler : Bind(target, h)
      PROVE  DispatchInv'
  BY <1>3, BindingStep
<1>4. ASSUME NEW t \in Thread, NEW target \in Target, NEW turn \in Turn,
             NEW r \in Receipt \cup {None}, NEW a \in BOOLEAN, BeginDispatch(t, target, turn, r, a)
      PROVE  DispatchInv'
  BY <1>4, BeginStep
<1>5. ASSUME NEW t \in Thread, Resolve(t) \/ Lookup(t) \/ Redeem(t) \/ Invoke(t) \/ Cancel(t)
      PROVE  DispatchInv'
  BY <1>5, ResolveStep, LookupStep, RedeemStep, InvokeStep, CancelStep
<1>6. ASSUME NEW t \in Thread,
             LookupFailed(t) \/ RedeemDenied(t) \/ \E code \in Code : Return(t, code)
      PROVE  DispatchInv'
  BY <1>6, RefusalStep
<1>7. CASE Crash
  BY <1>7, CrashStep
<1>. QED BY <1>1, <1>2, <1>3, <1>4, <1>5, <1>6, <1>7 DEF Next

-----------------------------------------------------------------------------
(* Whatever the threads, the receipts they present and the crashes, at     *)
(* most one handler runs on a receipt, after its redemption and in the     *)
(* call that redeemed it for that target.                                  *)
THEOREM ReceiptRunsOnce == Spec => []AtMostOncePerReceipt
<1>1. DispatchInv => AtMostOncePerReceipt
  BY DEF DispatchInv, ReceiptInv
<1>. QED BY <1>1, DispatchInvInit, DispatchInvStep, PTL DEF Spec

(* No refusal burns a receipt: one that is redeemed had a handler run on   *)
(* it, is about to, or a crash fell between the two.                       *)
THEOREM ReceiptBurntOnlyToRun == Spec => []RedeemedOnlyToRun
<1>1. DispatchInv => RedeemedOnlyToRun
  BY DEF DispatchInv, ReceiptInv, RedeemedIsPending, RedeemedOnlyToRun, Ready
<1>. QED BY <1>1, DispatchInvInit, DispatchInvStep, PTL DEF Spec
=============================================================================
