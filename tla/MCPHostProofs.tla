---------------------------- MODULE MCPHostProofs ----------------------------
(***************************************************************************)
(* For any number of tasks, any quota and any embedder: the task at the    *)
(* head of the turn queue is the only one in progress, so that the turn it *)
(* presents and the target it is charged for cannot change under it.       *)
(***************************************************************************)
EXTENDS MCPHost, DispatcherProofs

\* What a task asks, from its arrival to its answer.
Request ==
  {NoRequest}
    \cup [phase : {"waiting"}, op : {"activate"}, capability : Capability,
          lease : LeaseTurns]
    \cup [phase : {"waiting"}, op : {"execute"}, target : Target]
    \cup [phase : InProgress, target : Target, turn : Nat]
    \cup [phase : {"answered"}, code : HostCode, charged : BOOLEAN]
    \cup [phase : {"cancelled"}]

\* Tasks that have taken no turn yet: each takes one at most, which bounds the
\* turns the host presents.
Fresh == {t \in Thread : requests[t].phase \in {"none", "waiting"}}

Paid(t) == \E r \in redeemed : r.id = t

OtherProfile(t) == \E r \in minted : r.id = t /\ r.registration \notin Compatible

\* ChargesExplained, of one answer.
OfHandler == {"HANDLER_REJECTED", "HANDLER_FAILED", "HANDLER_MODE_MISMATCH",
              "RESULT_SCHEMA_REJECTED", "SUCCESS", "EXECUTION_FAILED"}
BeforeRedemption == {"AUTHORIZATION_DENIED", "AUTHORIZATION_RESOLVER_FAILED",
                     "HANDLER_NOT_BOUND", "INPUT_SCHEMA_REJECTED", "EXECUTION_FAILED"}
Explained(code, charged, paid, otherProfile) ==
  charged =>
    IF paid THEN code \in OfHandler
            ELSE \/ code \in BeforeRedemption
                 \/ code = "PROFILE_INCOMPATIBLE" /\ otherProfile
                 \/ code = "EFFECT_POLICY_REQUIRED" /\ ~HasEngine
ExplainedFor(t, code) == Explained(code, Charged(t), Paid(t), OtherProfile(t))

\* The target of t is live, and the turn of t is the registry's.
LiveFor(t) ==
  /\ Effects(t)
  /\ Registered(requests[t].target)
  /\ requests[t].target[2] \in DOMAIN active
  /\ active[requests[t].target[2]].registration = requests[t].target[1]
  /\ lastTurn = requests[t].turn

\* The dispatcher's call of t is the request of t, with its receipt.
CallOK(t) ==
  \/ /\ calls[t] \in Call
     /\ calls[t].target = requests[t].target /\ calls[t].turn = requests[t].turn
     /\ calls[t].asynchronous
     /\ calls[t].receipt # None => calls[t].receipt \in minted /\ calls[t].receipt.id = t
     /\ Charged(t) => calls[t].receipt # None
     /\ calls[t].phase \in {"resolve", "lookup", "redeem"} => ~Paid(t)
  \/ /\ calls[t].phase = "done" /\ calls[t].code \in Code
     /\ ExplainedFor(t, CodeOf(calls[t].code))

\* A task is charged for its own target.
ChargedFor(t, target) == \A r \in minted : r.id = t => r.registration = target[1]

ProgressOK(t) ==
  /\ Holds(t) /\ requests[t].turn = hostTurn
  /\ requests[t].phase \in {"authorizing", "charging"} \/ Charged(t) => LiveFor(t)
  /\ ChargedFor(t, requests[t].target)
  /\ requests[t].phase = "dispatching" => CallOK(t)

ThreadOK(t) ==
  /\ requests[t] \in Request
  /\ requests[t].phase \in {"none", "waiting", "checking", "authorizing", "charging"} => ~Charged(t)
  /\ requests[t].phase \in {"none", "waiting", "checking", "authorizing", "charging", "charged", "calling"} =>
        calls[t] = Idle /\ ~Paid(t)
  /\ requests[t].phase \in InProgress => ProgressOK(t)
  /\ requests[t].phase = "answered" =>
        Explained(requests[t].code, requests[t].charged, Paid(t), OtherProfile(t))

Shared ==
  /\ requests = [t \in Thread |-> requests[t]]
  /\ turnQueue \in Seq(Thread)
  /\ hostTurn \in Nat /\ lastTurn <= hostTurn
  /\ hostTurn + Cardinality(Fresh) <= Cardinality(Thread)
  /\ minted \subseteq Receipt /\ IsFiniteSet(minted) /\ Cardinality(minted) <= QuotaLimit

\* The tasks that were told of an outcome; the observer has counted each.
Told(outcome) == {t \in Thread : requests[t].phase = "answered" /\ Outcome(requests[t].code) = outcome}

Counted ==
  /\ metrics \in [{"success", "failure"} -> Nat]
  /\ \A outcome \in {"success", "failure"} : metrics[outcome] = Cardinality(Told(outcome))
  /\ \A r \in Receipt : invoked[r] > 0 =>
        r \in minted /\ requests[r.id].phase \in {"dispatching", "answered", "cancelled"}

HostInv ==
  /\ DispatchInv
  /\ Shared
  /\ \A t \in Thread : ThreadOK(t)
  /\ Counted

-----------------------------------------------------------------------------
(* The queue, the turns and the counts.                                    *)

LEMMA WithoutIsShorter ==
  ASSUME NEW S, NEW s \in Seq(S), NEW i \in 1 .. Len(s)
  PROVE  /\ Without(s, i) \in Seq(S)
         /\ i # 1 => Without(s, i) # <<>> /\ Head(Without(s, i)) = Head(s)
<1>. DEFINE a == SubSeq(s, 1, i - 1)
            b == SubSeq(s, i + 1, Len(s))
<1>1. a \in Seq(S) /\ Len(a) = i - 1 /\ (i # 1 => a[1] = s[1])
  OBVIOUS
<1>2. b \in Seq(S)
  OBVIOUS
<1>. HIDE DEF a, b
<1>3. a \o b \in Seq(S) /\ Len(a \o b) = Len(a) + Len(b)
  BY <1>1, <1>2
<1>4. i # 1 => (a \o b)[1] = s[1] /\ Len(a \o b) > 0
  BY <1>1, <1>2, <1>3
<1>5. Without(s, i) = a \o b
  BY DEF Without, a, b
<1>. QED BY <1>3, <1>4, <1>5

\* A task that leaves the queue takes the lock from no other.
LEMMA LeavesQueue ==
  ASSUME HostInv, NEW t \in Thread, LeaveQueue(t)
  PROVE  /\ turnQueue' \in Seq(Thread)
         /\ \A u \in Thread \ {t} : Holds(u) => Holds(u)'
<1>1. PICK i \in 1 .. Len(turnQueue) : turnQueue[i] = t /\ turnQueue' = Without(turnQueue, i)
  BY DEF LeaveQueue
<1>2. turnQueue \in Seq(Thread)
  BY DEF HostInv, Shared
<1>3. turnQueue' \in Seq(Thread) /\ (i # 1 => turnQueue' # <<>> /\ Head(turnQueue') = Head(turnQueue))
  BY <1>1, <1>2, WithoutIsShorter
<1>4. \A u \in Thread \ {t} : Holds(u) => i # 1
  BY <1>1, <1>2 DEF Holds
<1>. QED BY <1>3, <1>4 DEF Holds

LEMMA FreshFinite ==
  /\ IsFiniteSet(Thread) /\ Cardinality(Thread) \in Nat
  /\ IsFiniteSet(Fresh) /\ Cardinality(Fresh) \in Nat
<1>1. IsFiniteSet(Thread)
  BY HostAssumption
<1>2. IsFiniteSet(Fresh)
  BY <1>1, FS_Subset DEF Fresh
<1>. QED BY <1>1, <1>2, FS_CardinalityType

\* A task that has taken no turn leaves room for one.
LEMMA TurnsFit ==
  ASSUME HostInv
  PROVE  /\ hostTurn \in Turn
         /\ \A t \in Fresh : hostTurn + 1 \in Turn
<1>1. hostTurn \in Nat /\ hostTurn + Cardinality(Fresh) <= Cardinality(Thread)
  BY DEF HostInv, Shared
<1>2. Cardinality(Thread) <= MaxTurn /\ MaxTurn \in Nat
  BY HostAssumption, LifecycleAssumption
<1>3. \A t \in Fresh : Cardinality(Fresh) >= 1
  <2>. SUFFICES ASSUME NEW t \in Fresh PROVE Cardinality(Fresh) # 0
    BY FreshFinite
  <2>. QED BY FreshFinite, FS_EmptySet
<1>. QED BY <1>1, <1>2, <1>3, FreshFinite DEF Turn

\* The request of one task moves on.
Move(t, request) == requests' = [requests EXCEPT ![t] = request]

LEMMA MoveAt ==
  ASSUME HostInv, NEW t \in Thread, NEW request, Move(t, request)
  PROVE  /\ requests' = [u \in Thread |-> requests'[u]]
         /\ requests'[t] = request
         /\ \A u \in Thread \ {t} : requests'[u] = requests[u]
<1>1. requests = [u \in Thread |-> requests[u]]
  BY DEF HostInv, Shared
<1>. QED BY <1>1 DEF Move

\* The turns stay within the number of tasks: only a task that has taken none
\* takes one.
LEMMA TurnsBounded ==
  ASSUME HostInv, NEW t \in Thread, NEW request, Move(t, request),
         request.phase \in {"none", "waiting"} => t \in Fresh,
         \/ hostTurn' = hostTurn
         \/ hostTurn' = hostTurn + 1 /\ t \in Fresh /\ request.phase \notin {"none", "waiting"}
  PROVE  hostTurn' \in Nat /\ hostTurn' + Cardinality(Fresh') <= Cardinality(Thread)
<1>1. Fresh' \subseteq Fresh
  BY MoveAt DEF Fresh
<1>2. IsFiniteSet(Fresh') /\ Cardinality(Fresh') \in Nat /\ Cardinality(Fresh') <= Cardinality(Fresh)
  BY <1>1, FreshFinite, FS_Subset, FS_CardinalityType
<1>3. hostTurn \in Nat /\ hostTurn + Cardinality(Fresh) <= Cardinality(Thread)
  BY DEF HostInv, Shared
<1>4. CASE hostTurn' = hostTurn
  BY <1>2, <1>3, <1>4, FreshFinite
<1>5. CASE hostTurn' = hostTurn + 1 /\ t \in Fresh /\ request.phase \notin {"none", "waiting"}
  <2>1. Fresh' \subseteq Fresh \ {t}
    BY <1>1, <1>5, MoveAt DEF Fresh
  <2>2. IsFiniteSet(Fresh \ {t}) /\ Cardinality(Fresh \ {t}) = Cardinality(Fresh) - 1
    BY <1>5, FreshFinite, FS_RemoveElement
  <2>3. Cardinality(Fresh') <= Cardinality(Fresh \ {t})
    BY <2>1, <2>2, FS_Subset
  <2>. QED BY <1>2, <1>3, <1>5, <2>2, <2>3, FreshFinite
<1>. QED BY <1>4, <1>5

\* What all tasks share, after a step that charges nothing.
LEMMA SharedAfter ==
  ASSUME HostInv, NEW t \in Thread, NEW request, Move(t, request),
         request.phase \in {"none", "waiting"} => t \in Fresh,
         \/ hostTurn' = hostTurn
         \/ hostTurn' = hostTurn + 1 /\ t \in Fresh /\ request.phase \notin {"none", "waiting"},
         lastTurn' <= hostTurn', turnQueue' \in Seq(Thread), minted' = minted
  PROVE  Shared'
BY MoveAt, TurnsBounded DEF HostInv, Shared

\* No task but the holder is in progress.
LEMMA OthersWait ==
  ASSUME HostInv, NEW t \in Thread, Holds(t), NEW u \in Thread \ {t}
  PROVE  requests[u].phase \notin InProgress
BY DEF HostInv, ThreadOK, ProgressOK, Holds

\* What is charged and redeemed for one task is no other's.
LEMMA OthersReceiptsStay ==
  ASSUME NEW t, NEW u, u # t,
         minted \subseteq minted', \A r \in minted' \ minted : r.id = t,
         redeemed \subseteq redeemed', \A r \in redeemed' \ redeemed : r.id = t
  PROVE  /\ Charged(u)' <=> Charged(u)
         /\ Paid(u)' <=> Paid(u)
         /\ OtherProfile(u)' <=> OtherProfile(u)
BY DEF Charged, Paid, OtherProfile

\* The other tasks, when the holder moves.
LEMMA OthersStay ==
  ASSUME HostInv, NEW t \in Thread, Holds(t), NEW request, Move(t, request),
         \A u \in Thread \ {t} : calls'[u] = calls[u],
         minted \subseteq minted', \A r \in minted' \ minted : r.id = t,
         redeemed \subseteq redeemed', \A r \in redeemed' \ redeemed : r.id = t
  PROVE  \A u \in Thread \ {t} : ThreadOK(u)'
<1>. SUFFICES ASSUME NEW u \in Thread \ {t} PROVE ThreadOK(u)'
  OBVIOUS
<1>1. requests'[u] = requests[u] /\ requests[u].phase \notin InProgress /\ calls'[u] = calls[u]
  BY MoveAt, OthersWait
<1>2. /\ ThreadOK(u) /\ (Charged(u)' <=> Charged(u))
      /\ (Paid(u)' <=> Paid(u)) /\ (OtherProfile(u)' <=> OtherProfile(u))
  BY OthersReceiptsStay DEF HostInv
<1>. QED BY <1>1, <1>2 DEF ThreadOK, Explained

\* The other tasks, when one comes or goes that need not be the holder.
LEMMA OthersUndisturbed ==
  ASSUME HostInv, NEW t \in Thread, NEW request, Move(t, request),
         \A u \in Thread \ {t} : calls'[u] = calls[u] /\ (Holds(u) => Holds(u)'),
         UNCHANGED <<lifecycleVars, redeemed, hostTurn, minted>>
  PROVE  \A u \in Thread \ {t} : ThreadOK(u)'
<1>. SUFFICES ASSUME NEW u \in Thread \ {t} PROVE ThreadOK(u)'
  OBVIOUS
<1>1. requests'[u] = requests[u] /\ calls'[u] = calls[u] /\ (Holds(u) => Holds(u)')
  BY MoveAt
<1>2. /\ ThreadOK(u) /\ (Charged(u)' <=> Charged(u))
      /\ (Paid(u)' <=> Paid(u)) /\ (OtherProfile(u)' <=> OtherProfile(u))
  BY DEF HostInv, Charged, Paid, OtherProfile
<1>3. LiveFor(u) => LiveFor(u)'
  BY <1>1 DEF LiveFor, Effects, Registered, lifecycleVars
<1>4. CallOK(u) => CallOK(u)'
  BY <1>1, <1>2 DEF CallOK, ExplainedFor, Explained
<1>5. ProgressOK(u) => ProgressOK(u)'
  BY <1>1, <1>2, <1>3, <1>4 DEF ProgressOK, ChargedFor
<1>. QED BY <1>1, <1>2, <1>5 DEF ThreadOK, Explained

\* The counts, when a task moves on without an answer.
LEMMA CountsStay ==
  ASSUME HostInv, NEW t \in Thread, NEW request, Move(t, request),
         requests[t].phase # "answered", request.phase # "answered",
         requests[t].phase \in {"dispatching", "answered", "cancelled"} =>
            request.phase \in {"dispatching", "cancelled"},
         UNCHANGED <<metrics, invoked>>, minted \subseteq minted'
  PROVE  Counted'
<1>1. \A outcome : Told(outcome)' = Told(outcome)
  BY MoveAt DEF Told
<1>2. \A u \in Thread : requests[u].phase \in {"dispatching", "answered", "cancelled"} =>
                           requests'[u].phase \in {"dispatching", "answered", "cancelled"}
  BY MoveAt
<1>3. \A r \in Receipt : r.id \in Thread
  BY HostAssumption
<1>. QED BY <1>1, <1>2, <1>3 DEF HostInv, Counted

-----------------------------------------------------------------------------
(* The steps that answer.                                                  *)

LEMMA ToldFinite ==
  ASSUME NEW outcome
  PROVE  IsFiniteSet(Told(outcome)) /\ Cardinality(Told(outcome)) \in Nat
<1>1. IsFiniteSet(Told(outcome))
  BY FreshFinite, FS_Subset DEF Told
<1>. QED BY <1>1, FS_CardinalityType

\* The observer counts the answer that is given.
LEMMA CountsGrow ==
  ASSUME HostInv, NEW t \in Thread, NEW code, NEW charged,
         requests[t].phase # "answered", Move(t, Answer(code, charged)),
         Observe(Outcome(code)), UNCHANGED <<invoked, minted>>
  PROVE  Counted'
<1>1. /\ Outcome(code) \in {"success", "failure"}
      /\ metrics \in [{"success", "failure"} -> Nat]
      /\ metrics' = [metrics EXCEPT ![Outcome(code)] = metrics[Outcome(code)] + 1]
  BY DEF Outcome, Observe, HostInv, Counted
<1>2. requests'[t].phase = "answered" /\ requests'[t].code = code
  BY MoveAt DEF Answer
<1>3. \A outcome : Told(outcome)' = IF outcome = Outcome(code) THEN Told(outcome) \cup {t} ELSE Told(outcome)
  BY <1>2, MoveAt DEF Told
<1>4. \A outcome : t \notin Told(outcome)
  BY DEF Told
<1>5. ASSUME NEW outcome \in {"success", "failure"}
      PROVE  metrics'[outcome] = Cardinality(Told(outcome)') /\ metrics'[outcome] \in Nat
  <2>1. metrics[outcome] = Cardinality(Told(outcome)) /\ metrics[outcome] \in Nat
    BY <1>1 DEF HostInv, Counted
  <2>2. CASE outcome = Outcome(code)
    <3>1. Cardinality(Told(outcome) \cup {t}) = Cardinality(Told(outcome)) + 1
      BY <1>4, ToldFinite, FS_AddElement
    <3>2. metrics'[outcome] = metrics[outcome] + 1
      BY <1>1, <2>2
    <3>3. Told(outcome)' = Told(outcome) \cup {t}
      BY <1>3, <2>2
    <3>4. Cardinality(Told(outcome)') = Cardinality(Told(outcome)) + 1
      BY <3>1, <3>3
    <3>. QED BY <2>1, <3>2, <3>4
  <2>3. CASE outcome # Outcome(code)
    BY <1>1, <1>3, <2>1, <2>3
  <2>. QED BY <2>2, <2>3
<1>6. metrics' \in [{"success", "failure"} -> Nat]
  <2>1. metrics' = [outcome \in {"success", "failure"} |-> metrics'[outcome]]
    BY <1>1
  <2>. QED BY <1>5, <2>1
<1>7. \A r \in Receipt : invoked'[r] > 0 =>
        r \in minted' /\ requests'[r.id].phase \in {"dispatching", "answered", "cancelled"}
  BY <1>2, MoveAt, HostAssumption DEF HostInv, Counted
<1>. QED BY <1>5, <1>6, <1>7 DEF Counted

\* The holder answers: with a code that explains its charge, and a turn that it
\* had the right to take.
LEMMA AnswerStep ==
  ASSUME HostInv, DispatchInv', NEW t \in Thread, NEW code \in HostCode, AnswersWith(t, code),
         Holds(t), requests[t].phase \in {"waiting"} \cup InProgress,
         ExplainedFor(t, code),
         \/ hostTurn' = hostTurn
         \/ hostTurn' = hostTurn + 1 /\ t \in Fresh,
         lastTurn' <= hostTurn', UNCHANGED <<dispatchVars, minted>>
  PROVE  HostInv'
<1>. DEFINE request == Answer(code, Charged(t))
<1>1. Move(t, request) /\ request.phase = "answered" /\ request \in Request
  BY DEF AnswersWith, Move, Answer, Request, Charged
<1>2. turnQueue' \in Seq(Thread)
  BY LeavesQueue DEF AnswersWith
<1>3. Shared'
  BY <1>1, <1>2, SharedAfter
<1>4. \A u \in Thread \ {t} : ThreadOK(u)'
  BY <1>1, OthersStay DEF dispatchVars
<1>5. ThreadOK(t)'
  <2>1. requests'[t] = request /\ request.code = code /\ request.charged = Charged(t)
    BY <1>1, MoveAt DEF Answer
  <2>2. Paid(t)' = Paid(t) /\ OtherProfile(t)' = OtherProfile(t)
    BY DEF Paid, OtherProfile, dispatchVars
  <2>. HIDE DEF request
  <2>. QED BY <1>1, <2>1, <2>2 DEF ThreadOK, ExplainedFor, Explained, InProgress
<1>6. Counted'
  BY <1>1, CountsGrow DEF AnswersWith, InProgress, dispatchVars
<1>. QED BY <1>3, <1>4, <1>5, <1>6 DEF HostInv

\* A step of the registry alone, as the host or an embedder makes it.
LEMMA RegistryMoves ==
  ASSUME HostInv, LifecycleNext \/ UNCHANGED lifecycleVars, UNCHANGED dispatchVars
  PROVE  DispatchInv'
BY LifecycleStep, RegistryStep DEF HostInv

LEMMA WaitingFresh ==
  ASSUME HostInv, NEW t \in Thread, requests[t].phase = "waiting"
  PROVE  /\ t \in Fresh /\ ~Charged(t) /\ ~Paid(t) /\ hostTurn + 1 \in Turn
         /\ requests[t].op = "activate" =>
               requests[t].capability \in Capability /\ requests[t].lease \in LeaseTurns
         /\ requests[t].op = "execute" => requests[t].target \in Target
<1>1. ThreadOK(t) /\ t \in Fresh
  BY DEF HostInv, Fresh
<1>2. requests[t] \in Request
  BY <1>1 DEF ThreadOK
<1>. QED BY <1>1, <1>2, TurnsFit DEF ThreadOK, Request, NoRequest, InProgress

\* activate moves the registry to the turn it has taken, or leaves it alone.
LEMMA ActivationTurn ==
  ASSUME HostInv, NEW t \in Thread, HostActivate(t) \/ HostActivateFailed(t)
  PROVE  /\ LifecycleNext \/ UNCHANGED lifecycleVars
         /\ UNCHANGED dispatchVars /\ lastTurn' <= hostTurn'
<1>1. /\ requests[t].phase = "waiting" /\ requests[t].op = "activate"
      /\ hostTurn' = hostTurn + 1 /\ UNCHANGED dispatchVars
  BY DEF HostActivate, HostActivateFailed, Waiting
<1>2. CASE HostActivate(t)
  <2>1. Activate(requests[t].capability, hostTurn + 1, requests[t].lease)
    BY <1>2 DEF HostActivate
  <2>2. requests[t].lease \in 1 .. MaxLease
    <3>1. requests[t].lease \in LeaseTurns
      BY <1>1, WaitingFresh
    <3>2. requests[t].lease \in Nat \ {0}
      BY <3>1, HostAssumption
    <3>3. requests[t].lease <= MaxLease
      BY <2>1 DEF Activate
    <3>. QED BY <3>2, <3>3, LifecycleAssumption
  <2>3. LifecycleNext
    BY <1>1, <2>1, <2>2, WaitingFresh DEF LifecycleNext
  <2>. QED BY <1>1, <2>1, <2>3, WaitingFresh DEF Activate, Turn
<1>3. CASE HostActivateFailed(t)
  <2>1. UNCHANGED lifecycleVars \/ Advance(hostTurn + 1)
    BY <1>3 DEF HostActivateFailed
  <2>2. CASE UNCHANGED lifecycleVars
    <3>1. lastTurn' = lastTurn /\ lastTurn <= hostTurn /\ hostTurn \in Nat /\ lastTurn \in Turn
      BY <2>2 DEF lifecycleVars, HostInv, Shared, DispatchInv, LifecycleInv, LifecycleTypeOK
    <3>. QED BY <1>1, <2>2, <3>1 DEF Turn
  <2>3. CASE Advance(hostTurn + 1)
    <3>1. LifecycleNext
      BY <1>1, <2>3, WaitingFresh DEF LifecycleNext
    <3>. QED BY <1>1, <2>3, <3>1, WaitingFresh DEF Advance, Turn
  <2>. QED BY <2>1, <2>2, <2>3
<1>. QED BY <1>2, <1>3

LEMMA ActivateAnswers ==
  ASSUME HostInv, NEW t \in Thread, HostActivate(t) \/ HostActivateFailed(t)
  PROVE  HostInv'
<1>1. /\ Holds(t) /\ requests[t].phase = "waiting"
      /\ hostTurn' = hostTurn + 1 /\ UNCHANGED <<dispatchVars, minted>>
  BY DEF HostActivate, HostActivateFailed, Waiting
<1>2. PICK code \in {"OK", "ACTIVATION_FAILED"} : AnswersWith(t, code)
  BY DEF HostActivate, HostActivateFailed
<1>3. code \in HostCode /\ ExplainedFor(t, code)
  BY <1>1, WaitingFresh DEF HostCode, ExplainedFor, Explained
<1>. QED BY <1>1, <1>2, <1>3, ActivationTurn, WaitingFresh, RegistryMoves, AnswerStep

\* The answers of execute, which leave the registry and the dispatcher alone.
LEMMA TurnLost ==
  ASSUME HostInv, NEW t \in Thread, ExecuteLosesTurn(t)
  PROVE  HostInv'
<1>1. /\ Holds(t) /\ requests[t].phase = "waiting" /\ AnswersWith(t, "EXECUTION_FAILED")
      /\ hostTurn' = hostTurn + 1 /\ UNCHANGED <<allVars, minted>>
  BY DEF ExecuteLosesTurn, Waiting
<1>2. "EXECUTION_FAILED" \in HostCode /\ ExplainedFor(t, "EXECUTION_FAILED")
  BY <1>1, WaitingFresh DEF HostCode, ExplainedFor, Explained
<1>3. lastTurn' <= hostTurn'
  <2>1. lastTurn' = lastTurn /\ lastTurn <= hostTurn /\ lastTurn \in Turn /\ hostTurn \in Nat
    BY <1>1 DEF allVars, lifecycleVars, HostInv, Shared, DispatchInv, LifecycleInv, LifecycleTypeOK
  <2>. QED BY <1>1, <2>1 DEF Turn
<1>4. DispatchInv' /\ UNCHANGED dispatchVars
  BY <1>1, RegistryMoves DEF allVars
<1>. QED BY <1>1, <1>2, <1>3, <1>4, WaitingFresh, AnswerStep

LEMMA ExecuteAnswered ==
  ASSUME HostInv, NEW t \in Thread,
         \/ ExecuteUnknown(t)
         \/ \E code \in HostCode : AuthorizeRefused(t, code)
         \/ \E code \in HostCode : ExecuteAnswers(t, code)
  PROVE  HostInv'
<1>1. UNCHANGED <<allVars, hostTurn, minted>>
  BY DEF ExecuteUnknown, AuthorizeRefused, ExecuteAnswers
<1>2. DispatchInv' /\ UNCHANGED dispatchVars /\ lastTurn' <= hostTurn'
  BY <1>1, RegistryMoves DEF allVars, lifecycleVars, HostInv, Shared
<1>3. ASSUME NEW code \in HostCode, AnswersWith(t, code), Holds(t),
             requests[t].phase \in {"waiting"} \cup InProgress, ExplainedFor(t, code)
      PROVE  HostInv'
  BY <1>1, <1>2, <1>3, AnswerStep
<1>4. CASE ExecuteUnknown(t)
  <2>1. ExplainedFor(t, "EXECUTION_FAILED") /\ "EXECUTION_FAILED" \in HostCode
    BY <1>4, WaitingFresh DEF ExecuteUnknown, Waiting, ExplainedFor, Explained, HostCode
  <2>. QED BY <1>3, <1>4, <2>1 DEF ExecuteUnknown, Waiting
<1>5. ASSUME NEW code \in HostCode, AuthorizeRefused(t, code) PROVE HostInv'
  <2>1. ~Paid(t)
    BY <1>5 DEF AuthorizeRefused, HostInv, ThreadOK
  <2>2. ExplainedFor(t, code)
    BY <1>5, <2>1 DEF AuthorizeRefused, ExplainedFor, Explained, BeforeRedemption
  <2>. QED BY <1>3, <1>5, <2>2 DEF AuthorizeRefused, InProgress
<1>6. ASSUME NEW code \in HostCode, ExecuteAnswers(t, code) PROVE HostInv'
  <2>1. requests[t].phase = "dispatching" /\ calls[t].phase = "done" /\ AnswersWith(t, code)
    BY <1>6 DEF ExecuteAnswers
  <2>2. ProgressOK(t) /\ CallOK(t)
    BY <2>1 DEF HostInv, ThreadOK, ProgressOK, InProgress
  <2>3. ExplainedFor(t, CodeOf(calls[t].code))
    BY <2>1, <2>2 DEF CallOK, Call, Phase
  <2>4. ExplainedFor(t, code)
    BY <1>6, <2>3 DEF ExecuteAnswers, CodeOf, ExplainedFor, Explained, OfHandler, BeforeRedemption
  <2>. QED BY <1>3, <1>6, <2>1, <2>2, <2>4 DEF ProgressOK, InProgress
<1>. QED BY <1>4, <1>5, <1>6

-----------------------------------------------------------------------------
(* The steps of execute that go on.                                        *)

\* A task in progress and what its request then is.
LEMMA InProgressFields ==
  ASSUME HostInv, NEW t \in Thread, requests[t].phase \in InProgress
  PROVE  /\ requests[t] \in [phase : InProgress, target : Target, turn : Nat]
         /\ ProgressOK(t) /\ Holds(t) /\ requests[t].turn = hostTurn /\ hostTurn \in Turn
<1>1. ThreadOK(t) /\ requests[t] \in Request
  BY DEF HostInv, ThreadOK
<1>. QED BY <1>1, TurnsFit DEF ThreadOK, ProgressOK, Request, NoRequest, InProgress

\* The holder goes on to another phase.
LEMMA HolderStep ==
  ASSUME HostInv, DispatchInv', NEW t \in Thread, Holds(t),
         NEW phase \in InProgress, NEW target \in Target, NEW turn \in Nat,
         Move(t, [phase |-> phase, target |-> target, turn |-> turn]),
         requests[t].phase \notin {"answered", "cancelled"},
         requests[t].phase = "dispatching" => phase = "dispatching",
         UNCHANGED <<turnQueue, metrics, invoked, redeemed>>,
         \/ hostTurn' = hostTurn
         \/ hostTurn' = hostTurn + 1 /\ t \in Fresh,
         turn = hostTurn', lastTurn' <= hostTurn',
         minted \subseteq minted', \A r \in minted' \ minted : r.id = t,
         \A u \in Thread \ {t} : calls'[u] = calls[u],
         minted' = minted \/ (hostTurn' = hostTurn /\ minted' \subseteq Receipt /\ IsFiniteSet(minted')
                                 /\ Cardinality(minted') <= QuotaLimit),
         phase \in {"checking", "authorizing", "charging"} => ~Charged(t)',
         phase # "dispatching" => calls'[t] = Idle /\ ~Paid(t),
         \A r \in minted' : r.id = t => r.registration = target[1],
         phase \in {"authorizing", "charging"} \/ Charged(t)' => LiveFor(t)',
         phase = "dispatching" => CallOK(t)'
  PROVE  HostInv'
<1>. DEFINE request == [phase |-> phase, target |-> target, turn |-> turn]
<1>1. request \in Request /\ request.phase = phase /\ request.turn = turn
  BY DEF Request
<1>2. requests'[t] = request /\ phase \notin {"none", "waiting", "answered", "cancelled"}
  BY MoveAt DEF InProgress
<1>3. Shared'
  <2>1. hostTurn' \in Nat /\ hostTurn' + Cardinality(Fresh') <= Cardinality(Thread)
    BY <1>2, TurnsBounded
  <2>2. minted' \subseteq Receipt /\ IsFiniteSet(minted') /\ Cardinality(minted') <= QuotaLimit
    BY DEF HostInv, Shared
  <2>3. requests' = [u \in Thread |-> requests'[u]] /\ turnQueue' \in Seq(Thread)
    BY MoveAt DEF HostInv, Shared
  <2>. QED BY <2>1, <2>2, <2>3 DEF Shared
<1>4. \A u \in Thread \ {t} : ThreadOK(u)'
  BY OthersStay
<1>5. Holds(t)'
  BY DEF Holds
<1>6. ProgressOK(t)'
  <2>1. ChargedFor(t, requests[t].target)'
    BY <1>2 DEF ChargedFor
  <2>. QED BY <1>1, <1>2, <1>5, <2>1 DEF ProgressOK
<1>7. ThreadOK(t)'
  <2>1. phase # "dispatching" => ~Paid(t)'
    BY DEF Paid
  <2>. QED BY <1>1, <1>2, <1>6, <2>1 DEF ThreadOK, InProgress
<1>8. Counted'
  <2>1. requests[t].phase \in {"dispatching", "answered", "cancelled"} => phase = "dispatching"
    OBVIOUS
  <2>. QED BY <1>1, <1>2, <2>1, CountsStay
<1>. QED BY <1>3, <1>4, <1>7, <1>8 DEF HostInv

\* The first look at the target, after which the request has its turn.
LEMMA TurnTaken ==
  ASSUME HostInv, NEW t \in Thread, ExecuteTakesTurn(t)
  PROVE  HostInv'
<1>. DEFINE target == requests[t].target
<1>1. /\ Holds(t) /\ requests[t].phase = "waiting" /\ target \in Target
      /\ t \in Fresh /\ ~Charged(t) /\ ~Paid(t)
  BY WaitingFresh DEF ExecuteTakesTurn, Waiting
<1>2. /\ hostTurn' = hostTurn + 1 /\ hostTurn \in Nat
      /\ UNCHANGED <<allVars, turnQueue, minted, metrics>>
  BY DEF ExecuteTakesTurn, HostInv, Shared
<1>3. Move(t, [phase |-> "checking", target |-> target, turn |-> hostTurn + 1])
  BY DEF ExecuteTakesTurn, Move
<1>4. DispatchInv' /\ UNCHANGED <<invoked, redeemed, calls>> /\ lastTurn' <= hostTurn'
  <2>1. lastTurn' = lastTurn /\ lastTurn <= hostTurn /\ lastTurn \in Turn
    BY <1>2 DEF allVars, lifecycleVars, HostInv, Shared, DispatchInv, LifecycleInv, LifecycleTypeOK
  <2>. QED BY <1>2, <2>1, RegistryMoves DEF allVars, dispatchVars, Turn
<1>5. /\ ~Charged(t)' /\ calls'[t] = Idle
      /\ \A r \in minted' : r.id # t
  BY <1>1, <1>2, <1>4 DEF Charged, HostInv, ThreadOK
<1>. QED BY <1>1, <1>2, <1>3, <1>4, <1>5, HolderStep DEF InProgress

\* The registry at the turn of the holder, which is never behind it.
LEMMA AdvancesToTurn ==
  ASSUME HostInv, NEW t \in Thread, requests[t].phase \in InProgress,
         IF requests[t].turn >= lastTurn THEN Advance(requests[t].turn) ELSE UNCHANGED lifecycleVars
  PROVE  /\ Advance(requests[t].turn) /\ LifecycleNext
         /\ lastTurn' = requests[t].turn
         /\ UNCHANGED <<registrations, capabilities>> /\ active' = Live(requests[t].turn)
<1>1. requests[t].turn = hostTurn /\ hostTurn \in Turn /\ lastTurn <= hostTurn /\ lastTurn \in Turn
  BY InProgressFields DEF HostInv, Shared, DispatchInv, LifecycleInv, LifecycleTypeOK
<1>2. Advance(requests[t].turn)
  BY <1>1 DEF Turn
<1>. QED BY <1>1, <1>2 DEF Advance, LifecycleNext

\* A target found live is live at the registry's own turn.
LEMMA TargetChecked ==
  ASSUME HostInv, NEW t \in Thread, CheckedForResolver(t) \/ CheckedForDispatch(t)
  PROVE  HostInv'
<1>. DEFINE target == requests[t].target
            turn == requests[t].turn
<1>1. PICK phase \in {"authorizing", "calling"} :
         CheckedFor(t, phase) /\ (phase = "authorizing" => Resolves(t) /\ Effects(t))
  BY DEF CheckedForResolver, CheckedForDispatch
<1>2. requests[t].phase = "checking" /\ Holds(t) /\ UNCHANGED <<dispatchVars, hostTurn, turnQueue, minted, metrics>>
  BY <1>1 DEF CheckedFor
<1>3. /\ requests[t] = [phase |-> "checking", target |-> target, turn |-> turn]
      /\ target \in Target /\ turn \in Nat /\ turn = hostTurn
  BY <1>2, InProgressFields DEF InProgress
<1>4. Move(t, [phase |-> phase, target |-> target, turn |-> turn])
  <2>1. [requests[t] EXCEPT !.phase = phase] = [phase |-> phase, target |-> target, turn |-> turn]
    BY <1>3
  <2>. QED BY <1>1, <2>1 DEF CheckedFor, Move, HostInv, Shared
<1>5. /\ LifecycleNext /\ lastTurn' = turn
      /\ capabilities' = capabilities /\ active' = Live(turn)
  BY <1>1, <1>2, AdvancesToTurn DEF CheckedFor, InProgress
<1>6. DispatchInv' /\ UNCHANGED <<invoked, redeemed, calls>> /\ lastTurn' <= hostTurn'
  BY <1>2, <1>3, <1>5, RegistryMoves DEF dispatchVars
<1>7. /\ ~Charged(t) /\ ~Charged(t)' /\ calls'[t] = Idle /\ ~Paid(t)
      /\ \A r \in minted' : r.id # t
  BY <1>2, <1>6 DEF Charged, HostInv, ThreadOK
<1>8. phase = "authorizing" => LiveFor(t)'
  <2>1. SUFFICES ASSUME phase = "authorizing" PROVE LiveFor(t)'
    OBVIOUS
  <2>2. requests'[t].target = target /\ requests'[t].turn = turn
    BY <1>4, MoveAt
  <2>3. /\ target[2] \in DOMAIN capabilities /\ capabilities[target[2]] = target[1]
        /\ target[2] \in DOMAIN Live(turn) /\ active[target[2]].registration = target[1]
        /\ target[2] \in Effectful
    BY <1>1, <2>1 DEF Resolves, ResolvesActive, Effects
  <2>4. active'[target[2]] = active[target[2]]
    BY <1>5, <2>3 DEF Live, Restricted
  <2>. QED BY <1>5, <2>2, <2>3, <2>4 DEF LiveFor, Registered, Effects
<1>9. phase \in InProgress /\ phase \notin {"checking", "charging", "dispatching"}
  BY DEF InProgress
<1>. HIDE DEF target, turn
<1>. QED BY <1>2, <1>3, <1>4, <1>6, <1>7, <1>8, <1>9, HolderStep

\* The resolver's grant, whose target is still live.
LEMMA GrantIssued ==
  ASSUME HostInv, NEW t \in Thread, IssueGrant(t)
  PROVE  HostInv'
<1>. DEFINE target == requests[t].target
            turn == requests[t].turn
<1>1. /\ requests[t].phase = "authorizing" /\ Holds(t)
      /\ UNCHANGED <<allVars, hostTurn, turnQueue, minted, metrics>>
  BY DEF IssueGrant
<1>2. /\ requests[t] = [phase |-> "authorizing", target |-> target, turn |-> turn]
      /\ target \in Target /\ turn \in Nat /\ turn = hostTurn
  BY <1>1, InProgressFields DEF InProgress
<1>3. Move(t, [phase |-> "charging", target |-> target, turn |-> turn])
  <2>1. [requests[t] EXCEPT !.phase = "charging"] = [phase |-> "charging", target |-> target, turn |-> turn]
    BY <1>2
  <2>. QED BY <2>1 DEF IssueGrant, Move
<1>4. /\ DispatchInv' /\ UNCHANGED <<invoked, redeemed, calls>> /\ lastTurn' <= hostTurn'
      /\ UNCHANGED <<active, capabilities, lastTurn>>
  BY <1>1, RegistryMoves DEF allVars, lifecycleVars, dispatchVars, HostInv, Shared
<1>5. /\ ~Charged(t)' /\ calls'[t] = Idle /\ ~Paid(t)
      /\ \A r \in minted' : r.id # t
  BY <1>1, <1>4 DEF Charged, HostInv, ThreadOK
<1>6. LiveFor(t)'
  <2>1. LiveFor(t)
    BY <1>1, InProgressFields DEF ProgressOK, InProgress
  <2>2. requests'[t].target = target /\ requests'[t].turn = turn
    BY <1>3, MoveAt
  <2>. QED BY <1>4, <2>1, <2>2 DEF LiveFor, Registered, Effects
<1>7. "charging" \in InProgress /\ hostTurn' = hostTurn /\ UNCHANGED <<turnQueue, minted, metrics>>
  BY <1>1 DEF InProgress
<1>. HIDE DEF target, turn
<1>. QED BY <1>1, <1>2, <1>3, <1>4, <1>5, <1>6, <1>7, HolderStep

\* The resolver's charge: the quota is not used up, and the target is still live.
LEMMA ChargeMinted ==
  ASSUME HostInv, NEW t \in Thread, Consume(t)
  PROVE  HostInv'
<1>. DEFINE target == requests[t].target
            turn == requests[t].turn
            receipt == [id |-> t, capability |-> target[2], registration |-> target[1]]
<1>1. /\ requests[t].phase = "charging" /\ Holds(t) /\ minted' = minted \cup {receipt}
      /\ UNCHANGED <<allVars, hostTurn, turnQueue, metrics>>
  BY DEF Consume, ReceiptFor
<1>2. /\ requests[t] = [phase |-> "charging", target |-> target, turn |-> turn]
      /\ target \in Target /\ turn \in Nat /\ turn = hostTurn
  BY <1>1, InProgressFields DEF InProgress
<1>3. Move(t, [phase |-> "charged", target |-> target, turn |-> turn])
  <2>1. [requests[t] EXCEPT !.phase = "charged"] = [phase |-> "charged", target |-> target, turn |-> turn]
    BY <1>2
  <2>. QED BY <2>1 DEF Consume, Move
<1>4. receipt \in Receipt
  BY <1>2, HostAssumption DEF Target, Registration
<1>5. minted' \subseteq Receipt /\ IsFiniteSet(minted') /\ Cardinality(minted') <= QuotaLimit
  <2>1. minted \subseteq Receipt /\ IsFiniteSet(minted) /\ Cardinality(minted) < QuotaLimit
    BY DEF HostInv, Shared, Consume, QuotaRemains
  <2>2. IsFiniteSet(minted') /\ Cardinality(minted') <= Cardinality(minted) + 1
    <3>1. /\ IsFiniteSet(minted \cup {receipt})
          /\ Cardinality(minted \cup {receipt}) =
               IF receipt \in minted THEN Cardinality(minted) ELSE Cardinality(minted) + 1
      BY <2>1, FS_AddElement
    <3>2. Cardinality(minted) \in Nat
      BY <2>1, FS_CardinalityType
    <3>. QED BY <1>1, <3>1, <3>2
  <2>3. Cardinality(minted) \in Nat /\ Cardinality(minted') \in Nat
    BY <2>1, <2>2, FS_CardinalityType
  <2>. QED BY <1>1, <1>4, <2>1, <2>2, <2>3, HostAssumption
<1>6. /\ DispatchInv' /\ UNCHANGED <<invoked, redeemed, calls>> /\ lastTurn' <= hostTurn'
      /\ UNCHANGED <<active, capabilities, lastTurn>>
  BY <1>1, RegistryMoves DEF allVars, lifecycleVars, dispatchVars, HostInv, Shared
<1>7. /\ calls'[t] = Idle /\ ~Paid(t)
      /\ \A r \in minted' : r.id = t => r.registration = target[1]
  BY <1>1, <1>6 DEF HostInv, ThreadOK, Charged
<1>8. LiveFor(t)'
  <2>1. LiveFor(t)
    BY <1>1, InProgressFields DEF ProgressOK, InProgress
  <2>2. requests'[t].target = target /\ requests'[t].turn = turn
    BY <1>3, MoveAt
  <2>. QED BY <1>6, <2>1, <2>2 DEF LiveFor, Registered, Effects
<1>9. \A r \in minted' \ minted : r.id = t
  BY <1>1
<1>10. "charged" \in InProgress
  BY DEF InProgress
<1>11. minted \subseteq minted' /\ hostTurn' = hostTurn /\ UNCHANGED <<turnQueue, metrics>>
  BY <1>1
<1>12. /\ turn = hostTurn' /\ lastTurn' <= hostTurn' /\ UNCHANGED <<turnQueue, metrics, invoked, redeemed>>
       /\ \A u \in Thread \ {t} : calls'[u] = calls[u]
       /\ requests[t].phase \notin {"answered", "cancelled", "dispatching"}
  BY <1>1, <1>2, <1>6, <1>11
<1>. HIDE DEF target, turn, receipt
<1>. QED BY <1>1, <1>2, <1>3, <1>5, <1>6, <1>7, <1>8, <1>9, <1>10, <1>11, <1>12, HolderStep, SMTT(60)

\* The receipt that a task presents is the one minted for it, if there is one.
LEMMA ReceiptIsOwn ==
  ASSUME HostInv, NEW t \in Thread
  PROVE  /\ ReceiptOf(t) \in Receipt \cup {None}
         /\ ReceiptOf(t) # None => ReceiptOf(t) \in minted /\ ReceiptOf(t).id = t
         /\ Charged(t) => ReceiptOf(t) # None
<1>1. CASE Charged(t)
  <2>1. ReceiptOf(t) = CHOOSE r \in minted : r.id = t
    BY <1>1 DEF ReceiptOf
  <2>2. \E r \in minted : r.id = t
    BY <1>1 DEF Charged
  <2>3. ReceiptOf(t) \in minted /\ ReceiptOf(t).id = t
    BY <2>1, <2>2, Zenon
  <2>. QED BY <2>3, DispatchAssumption DEF HostInv, Shared
<1>2. CASE ~Charged(t)
  BY <1>2 DEF ReceiptOf
<1>. QED BY <1>1, <1>2

LEMMA DispatcherCalled ==
  ASSUME HostInv, NEW t \in Thread, CallDispatcher(t)
  PROVE  HostInv'
<1>. DEFINE target == requests[t].target
            turn == requests[t].turn
            call == [phase |-> "resolve", target |-> target, turn |-> turn, receipt |-> ReceiptOf(t),
                     asynchronous |-> TRUE, handler |-> None]
<1>1. /\ requests[t].phase \in {"calling", "charged"} /\ Holds(t)
      /\ BeginDispatch(t, target, turn, ReceiptOf(t), TRUE)
      /\ UNCHANGED <<hostTurn, turnQueue, minted, metrics>>
  BY DEF CallDispatcher
<1>2. /\ requests[t] = [phase |-> requests[t].phase, target |-> target, turn |-> turn]
      /\ target \in Target /\ turn \in Nat /\ turn \in Turn /\ turn = hostTurn
  BY <1>1, InProgressFields DEF InProgress
<1>3. Move(t, [phase |-> "dispatching", target |-> target, turn |-> turn])
  <2>1. [requests[t] EXCEPT !.phase = "dispatching"] = [phase |-> "dispatching", target |-> target, turn |-> turn]
    BY <1>2
  <2>. QED BY <2>1 DEF CallDispatcher, Move
<1>4. DispatchInv'
  BY <1>1, <1>2, ReceiptIsOwn, BeginStep DEF HostInv
<1>5. UNCHANGED <<lifecycleVars, invoked, redeemed>> /\ calls' = [calls EXCEPT ![t] = call]
  BY <1>1 DEF BeginDispatch
<1>6. calls'[t] = call /\ \A u \in Thread \ {t} : calls'[u] = calls[u]
  BY <1>5 DEF HostInv, DispatchInv, DispatchTypeOK
<1>7. lastTurn' <= hostTurn' /\ UNCHANGED <<active, capabilities, lastTurn>>
  BY <1>1, <1>5 DEF lifecycleVars, HostInv, Shared
<1>8. requests'[t].target = target /\ requests'[t].turn = turn /\ (Charged(t)' <=> Charged(t))
  BY <1>1, <1>3, MoveAt DEF Charged
<1>9. Charged(t)' => LiveFor(t)'
  <2>1. Charged(t) => LiveFor(t)
    BY <1>1, InProgressFields DEF ProgressOK, InProgress
  <2>. QED BY <1>7, <1>8, <2>1 DEF LiveFor, Registered, Effects
<1>10. CallOK(t)'
  <2>1. call \in Call
    BY <1>2, ReceiptIsOwn DEF Call, Phase
  <2>2. ~Paid(t)'
    BY <1>1, <1>5 DEF HostInv, ThreadOK, Paid
  <2>. QED BY <1>1, <1>6, <1>8, <2>1, <2>2, ReceiptIsOwn DEF CallOK
<1>11. "dispatching" \in InProgress /\ minted' = minted /\ hostTurn' = hostTurn
  BY <1>1 DEF InProgress
<1>12. \A r \in minted' : r.id = t => r.registration = target[1]
  BY <1>1, <1>11, InProgressFields DEF ProgressOK, ChargedFor, InProgress
<1>. HIDE DEF target, turn, call
<1>. QED BY <1>1, <1>2, <1>3, <1>4, <1>5, <1>6, <1>7, <1>9, <1>10, <1>11, <1>12, HolderStep

-----------------------------------------------------------------------------
(* The steps of the dispatcher.                                            *)

\* The call of a task moves, and its request stays as it is.
LEMMA CallMoves ==
  ASSUME HostInv, DispatchInv', NEW t \in Thread, requests[t].phase = "dispatching",
         UNCHANGED <<requests, turnQueue, hostTurn, minted, metrics>>,
         \A u \in Thread \ {t} : calls'[u] = calls[u],
         redeemed \subseteq redeemed', \A r \in redeemed' \ redeemed : r.id = t,
         CallOK(t)', Charged(t) => LiveFor(t)',
         lastTurn' <= hostTurn,
         \A r \in Receipt : invoked'[r] > 0 => invoked[r] > 0 \/ (r \in minted /\ r.id = t)
  PROVE  HostInv'
<1>1. Move(t, requests[t]) /\ Holds(t)
  BY InProgressFields DEF Move, HostInv, Shared, InProgress
<1>2. \A u \in Thread : Charged(u)' <=> Charged(u)
  BY DEF Charged
<1>3. Shared'
  BY DEF HostInv, Shared, Fresh
<1>4. \A u \in Thread \ {t} : ThreadOK(u)'
  BY <1>1, <1>2, OthersStay
<1>5. ThreadOK(t)'
  <2>1. ThreadOK(t) /\ ProgressOK(t)
    BY InProgressFields DEF HostInv, InProgress
  <2>2. ProgressOK(t)'
    BY <1>2, <2>1 DEF ProgressOK, ChargedFor, Holds
  <2>. QED BY <2>1, <2>2 DEF ThreadOK
<1>6. Counted'
  BY DEF HostInv, Counted, Told
<1>. QED BY <1>3, <1>4, <1>5, <1>6 DEF HostInv

LEMMA CallFieldsOK ==
  ASSUME HostInv, NEW t \in Thread, requests[t].phase = "dispatching", calls[t].phase \in Phase
  PROVE  /\ calls[t] \in Call
         /\ calls[t].target = requests[t].target /\ calls[t].turn = requests[t].turn
         /\ calls[t].asynchronous
         /\ calls[t].receipt # None => calls[t].receipt \in minted /\ calls[t].receipt.id = t
         /\ Charged(t) => calls[t].receipt # None
         /\ Charged(t) => LiveFor(t)
         /\ ChargedFor(t, calls[t].target)
         /\ calls[t].phase \in {"resolve", "lookup", "redeem"} => ~Paid(t)
         /\ calls \in [Thread -> AnyCall]
BY InProgressFields
   DEF ProgressOK, CallOK, ChargedFor, InProgress, Phase, HostInv, DispatchInv, DispatchTypeOK, AnyCall

\* A call that is refused or comes back, with a code that explains the charge.
LEMMA CallEnds ==
  ASSUME HostInv, NEW t \in Thread, requests[t].phase = "dispatching", calls[t].phase \in Phase,
         NEW code \in Code, Fail(t, code), ExplainedFor(t, CodeOf(code)), UNCHANGED minted,
         redeemed' = redeemed
  PROVE  CallOK(t)' /\ \A u \in Thread \ {t} : calls'[u] = calls[u]
<1>1. calls \in [Thread -> AnyCall]
  BY CallFieldsOK
<1>2. calls'[t] = Done(code, calls[t].receipt) /\ \A u \in Thread \ {t} : calls'[u] = calls[u]
  BY <1>1 DEF Fail
<1>3. (Charged(t)' <=> Charged(t)) /\ (Paid(t)' <=> Paid(t)) /\ (OtherProfile(t)' <=> OtherProfile(t))
  BY DEF Charged, Paid, OtherProfile
<1>. QED BY <1>2, <1>3 DEF CallOK, Done, ExplainedFor, Explained

\* A call that goes on in another phase, or with a handler.
LEMMA CallContinues ==
  ASSUME HostInv, NEW t \in Thread, requests[t].phase = "dispatching", calls[t].phase \in Phase,
         NEW phase \in Phase, NEW handler \in Handler \cup {None}, UNCHANGED <<requests, minted>>,
         phase \in {"resolve", "lookup", "redeem"} => ~Paid(t)',
         calls' = [calls EXCEPT ![t] = [calls[t] EXCEPT !.phase = phase, !.handler = handler]]
  PROVE  CallOK(t)' /\ \A u \in Thread \ {t} : calls'[u] = calls[u]
<1>. DEFINE c == [calls[t] EXCEPT !.phase = phase, !.handler = handler]
<1>1. calls \in [Thread -> AnyCall] /\ calls[t] \in Call
  BY CallFieldsOK
<1>2. /\ c \in Call /\ c.target = calls[t].target /\ c.turn = calls[t].turn
      /\ c.asynchronous = calls[t].asynchronous /\ c.receipt = calls[t].receipt /\ c.phase = phase
  BY <1>1 DEF Call
<1>3. calls'[t] = c /\ \A u \in Thread \ {t} : calls'[u] = calls[u]
  BY <1>1
<1>4. Charged(t)' <=> Charged(t)
  BY DEF Charged
<1>. HIDE DEF c
<1>. QED BY <1>2, <1>3, <1>4, CallFieldsOK DEF CallOK

LEMMA LiveKept ==
  ASSUME NEW t \in Thread, LiveFor(t), UNCHANGED <<lifecycleVars, requests>>
  PROVE  LiveFor(t)'
BY DEF LiveFor, Effects, Registered, lifecycleVars

\* The registry finds the target of a charged call as live as it was.
LEMMA ResolvesForHost ==
  ASSUME HostInv, NEW t \in Thread, requests[t].phase = "dispatching", Resolve(t),
         UNCHANGED hostOnlyVars
  PROVE  HostInv'
<1>. DEFINE c == requests[t].target[2]
<1>1. calls[t].phase = "resolve" /\ calls[t].phase \in Phase
  BY DEF Resolve, Phase
<1>2. UNCHANGED <<requests, turnQueue, hostTurn, minted, metrics, invoked, redeemed>>
  BY DEF Resolve, hostOnlyVars
<1>3. /\ LifecycleNext /\ lastTurn' = requests[t].turn /\ requests[t].turn = hostTurn
      /\ capabilities' = capabilities /\ active' = Live(requests[t].turn)
  <2>1. IF requests[t].turn >= lastTurn THEN Advance(requests[t].turn) ELSE UNCHANGED lifecycleVars
    BY <1>1, CallFieldsOK DEF Resolve
  <2>. QED BY <2>1, AdvancesToTurn, InProgressFields DEF InProgress
<1>4. ASSUME Charged(t)
      PROVE  LiveFor(t)' /\ ResolvesActive(calls[t].target[2], calls[t].target[1], calls[t].turn)
  <2>1. LiveFor(t) /\ lastTurn = requests[t].turn /\ lastTurn \in Nat
    BY <1>1, <1>3, <1>4, CallFieldsOK DEF LiveFor, HostInv, Shared
  <2>2. c \in DOMAIN active /\ lastTurn < active[c].expires
    BY <2>1 DEF LiveFor, HostInv, DispatchInv, LifecycleInv, ActiveSetSound
  <2>3. c \in DOMAIN Live(requests[t].turn) /\ Live(requests[t].turn)[c] = active[c]
    <3>1. active[c].expires \in Nat
      BY <2>2 DEF HostInv, DispatchInv, LifecycleInv, LifecycleTypeOK, Activation
    <3>. QED BY <2>1, <2>2, <3>1 DEF Live, Restricted
  <2>4. LiveFor(t)'
    BY <1>2, <1>3, <2>1, <2>3 DEF LiveFor, Registered, Effects
  <2>. QED BY <1>1, <2>1, <2>3, <2>4, CallFieldsOK DEF LiveFor, Registered, ResolvesActive
<1>5. CallOK(t)' /\ \A u \in Thread \ {t} : calls'[u] = calls[u]
  <2>1. CASE Proceed(t)
    <3>1. [calls[t] EXCEPT !.phase = "lookup"] = [calls[t] EXCEPT !.phase = "lookup", !.handler = calls[t].handler]
      BY <1>1, CallFieldsOK DEF Call
    <3>2. calls[t].handler \in Handler \cup {None} /\ "lookup" \in Phase
      BY <1>1, CallFieldsOK DEF Call, Phase
    <3>3. calls' = [calls EXCEPT ![t] = [calls[t] EXCEPT !.phase = "lookup"]]
      BY <1>1, <2>1 DEF Proceed, PhaseAfter
    <3>4. ~Paid(t)'
      BY <1>1, <1>2, CallFieldsOK DEF Paid
    <3>. QED BY <1>1, <1>2, <3>1, <3>2, <3>3, <3>4, CallContinues
  <2>2. ASSUME NEW code \in Code, Fail(t, code), CodeOf(code) = code,
               Charged(t) => \/ code = "PROFILE_INCOMPATIBLE" /\ OtherProfile(t)
                             \/ code = "EFFECT_POLICY_REQUIRED" /\ ~HasEngine
        PROVE  CallOK(t)' /\ \A u \in Thread \ {t} : calls'[u] = calls[u]
    <3>1. ~Paid(t)
      BY <1>1, CallFieldsOK
    <3>2. ExplainedFor(t, CodeOf(code))
      BY <2>2, <3>1 DEF ExplainedFor, Explained
    <3>. QED BY <1>1, <1>2, <2>2, <3>2, CallEnds
  <2>3. CASE ~Available(calls[t]) /\ Fail(t, "TARGET_UNAVAILABLE")
    BY <1>4, <2>2, <2>3 DEF Available, Code, CodeOf
  <2>4. CASE Available(calls[t]) /\ ~Fits(calls[t]) /\ Fail(t, "PROFILE_INCOMPATIBLE")
    <3>1. Charged(t) => OtherProfile(t)
      BY <1>1, <2>4, CallFieldsOK DEF Fits, ChargedFor, Charged, OtherProfile
    <3>. QED BY <2>2, <2>4, <3>1 DEF Code, CodeOf
  <2>5. CASE Fits(calls[t]) /\ ~Permitted(calls[t]) /\ Fail(t, "EFFECT_POLICY_REQUIRED")
    <3>1. Charged(t) => ~HasEngine
      BY <1>1, <2>5, CallFieldsOK DEF Permitted
    <3>. QED BY <2>2, <2>5, <3>1 DEF Code, CodeOf
  <2>6. ~(Permitted(calls[t]) /\ ~Suited(calls[t]))
    BY <1>1, CallFieldsOK DEF Suited
  <2>. QED BY <2>1, <2>3, <2>4, <2>5, <2>6 DEF Resolve
<1>6. DispatchInv'
  BY ResolveStep DEF HostInv
<1>7. lastTurn' <= hostTurn
  BY <1>3, InProgressFields DEF InProgress, Turn
<1>. QED BY <1>2, <1>4, <1>5, <1>6, <1>7, CallMoves

\* A handler that comes back with a charge was armed with a redeemed receipt.
LEMMA CallGoesOn ==
  ASSUME HostInv, NEW t \in Thread, requests[t].phase = "dispatching", UNCHANGED hostOnlyVars,
         \/ Lookup(t) \/ LookupFailed(t) \/ Redeem(t) \/ RedeemDenied(t) \/ Invoke(t)
         \/ \E code \in Code : Return(t, code)
  PROVE  HostInv'
<1>1. /\ calls[t].phase \in Phase /\ redeemed \subseteq redeemed'
      /\ UNCHANGED <<lifecycleVars, requests, turnQueue, hostTurn, minted, metrics>>
  BY DEF Lookup, LookupFailed, Redeem, RedeemDenied, Invoke, Return, Phase, hostOnlyVars
<1>2. DispatchInv'
  BY LookupStep, RedeemStep, InvokeStep, RefusalStep DEF HostInv
<1>3. lastTurn' <= hostTurn /\ (Charged(t) => LiveFor(t)')
  BY <1>1, CallFieldsOK, LiveKept DEF HostInv, Shared, lifecycleVars
<1>4. \A r \in Receipt : invoked'[r] > 0 => invoked[r] > 0 \/ (r \in minted /\ r.id = t)
  <2>1. CASE UNCHANGED invoked
    BY <2>1
  <2>2. CASE Invoke(t)
    <3>1. \/ UNCHANGED invoked
          \/ calls[t].receipt # None /\ invoked' = [invoked EXCEPT ![calls[t].receipt] = @ + 1]
      BY <2>2 DEF Invoke
    <3>2. invoked \in [Receipt -> Nat]
      BY DEF HostInv, DispatchInv, DispatchTypeOK
    <3>. QED BY <1>1, <3>1, <3>2, CallFieldsOK
  <2>. QED BY <2>1, <2>2 DEF Lookup, LookupFailed, Redeem, RedeemDenied, Return
<1>5. \A r \in redeemed' \ redeemed : r.id = t
  <2>1. CASE Redeem(t)
    <3>1. calls[t].receipt \in Receipt /\ redeemed' = redeemed \cup {calls[t].receipt}
      BY <2>1 DEF Redeem, HostInv, DispatchInv, CarriesReceipt
    <3>. QED BY <1>1, <3>1, CallFieldsOK, DispatchAssumption
  <2>. QED BY <2>1 DEF Lookup, LookupFailed, RedeemDenied, Invoke, Return
<1>6. CallOK(t)' /\ \A u \in Thread \ {t} : calls'[u] = calls[u]
  <2>1. CASE Lookup(t)
    <3>1. bindings[calls[t].target] \in Handler
      BY <2>1 DEF Lookup, HostInv, DispatchInv, DispatchTypeOK
    <3>2. PhaseAfter(calls[t].phase, calls[t]) \in Phase
      BY DEF PhaseAfter, Phase
    <3>3. calls' = [calls EXCEPT ![t] = [calls[t] EXCEPT !.phase = PhaseAfter(calls[t].phase, calls[t]),
                                                        !.handler = bindings[calls[t].target]]]
      BY <1>1, <2>1, CallFieldsOK DEF Lookup, Call
    <3>4. ~Paid(t)'
      BY <1>1, <2>1, CallFieldsOK DEF Lookup, Paid
    <3>. QED BY <1>1, <3>1, <3>2, <3>3, <3>4, CallContinues
  <2>2. ASSUME NEW phase \in {"invoke", "running"}, calls' = [calls EXCEPT ![t].phase = phase]
        PROVE  CallOK(t)' /\ \A u \in Thread \ {t} : calls'[u] = calls[u]
    <3>1. [calls[t] EXCEPT !.phase = phase] = [calls[t] EXCEPT !.phase = phase, !.handler = calls[t].handler]
      BY <1>1, CallFieldsOK DEF Call
    <3>2. calls[t].handler \in Handler \cup {None}
      BY <1>1, CallFieldsOK DEF Call
    <3>3. calls' = [calls EXCEPT ![t] = [calls[t] EXCEPT !.phase = phase]]
      BY <2>2
    <3>4. phase \in Phase /\ phase \notin {"resolve", "lookup", "redeem"}
      BY DEF Phase
    <3>. QED BY <1>1, <3>1, <3>2, <3>3, <3>4, CallContinues
  <2>3. CASE Redeem(t) \/ Invoke(t)
    <3>1. \E phase \in {"invoke", "running"} : calls' = [calls EXCEPT ![t].phase = phase]
      BY <2>3 DEF Redeem, Invoke, Proceed, PhaseAfter
    <3>. QED BY <2>2, <3>1
  <2>4. CASE LookupFailed(t) \/ RedeemDenied(t)
    <3>1. PICK code \in {"HANDLER_NOT_BOUND", "INPUT_SCHEMA_REJECTED", "RAISED", "AUTHORIZATION_DENIED"} :
             Fail(t, code)
      BY <2>4 DEF LookupFailed, RedeemDenied
    <3>2. redeemed' = redeemed /\ calls[t].phase \in {"lookup", "redeem"}
      BY <2>4 DEF LookupFailed, RedeemDenied
    <3>3. ~Paid(t)
      BY <1>1, <3>2, CallFieldsOK
    <3>4. code \in Code /\ ExplainedFor(t, CodeOf(code))
      BY <3>3 DEF Code, HandlerCode, CodeOf, ExplainedFor, Explained, BeforeRedemption
    <3>. QED BY <1>1, <3>1, <3>2, <3>4, CallEnds
  <2>5. ASSUME NEW code \in Code, Return(t, code)
        PROVE  CallOK(t)' /\ \A u \in Thread \ {t} : calls'[u] = calls[u]
    <3>1. /\ Fail(t, code) /\ redeemed' = redeemed /\ calls[t].phase = "running"
          /\ CodeOf(code) \in OfHandler
      BY <2>5 DEF Return, HandlerCode, CodeOf, OfHandler
    <3>2. Charged(t) => Paid(t)
      <4>. SUFFICES ASSUME Charged(t) PROVE Paid(t)
        OBVIOUS
      <4>1. IsEffectful(calls[t]) /\ calls[t].receipt.id = t
        BY <1>1, CallFieldsOK DEF IsEffectful, LiveFor, Effects
      <4>2. calls[t].receipt \in redeemed
        BY <3>1, <4>1 DEF HostInv, DispatchInv, ReceiptInv, AtMostOncePerReceipt
      <4>. QED BY <4>1, <4>2 DEF Paid
    <3>3. ExplainedFor(t, CodeOf(code))
      BY <3>1, <3>2 DEF ExplainedFor, Explained
    <3>. QED BY <1>1, <3>1, <3>3, CallEnds
  <2>. QED BY <2>1, <2>3, <2>4, <2>5
<1>. QED BY <1>1, <1>2, <1>3, <1>4, <1>5, <1>6, CallMoves

LEMMA DispatcherSteps ==
  ASSUME HostInv, NEW t \in Thread, DispatchStep(t)
  PROVE  HostInv'
BY ResolvesForHost, CallGoesOn DEF DispatchStep

-----------------------------------------------------------------------------
(* Arrivals, cancellation and the embedder.                                *)

LEMMA ArrivalStep ==
  ASSUME HostInv, NEW t \in Thread, Arrives(t)
  PROVE  HostInv'
<1>1. PICK request \in Request : request.phase = "waiting" /\ Submit(t, request)
  BY DEF Arrives, ActivateRequest, ExecuteRequest, Request
<1>2. /\ requests[t] = NoRequest /\ Move(t, request) /\ turnQueue' = Append(turnQueue, t)
      /\ UNCHANGED <<allVars, hostTurn, minted, metrics>>
  BY <1>1 DEF Submit, Move
<1>3. UNCHANGED <<lifecycleVars, redeemed, invoked, calls>> /\ DispatchInv'
  BY <1>2, RegistryMoves DEF allVars, dispatchVars
<1>4. requests[t].phase = "none" /\ t \in Fresh
  BY <1>2 DEF NoRequest, Fresh
<1>5. turnQueue' \in Seq(Thread) /\ \A u \in Thread : Holds(u) => Holds(u)'
  <2>1. turnQueue \in Seq(Thread)
    BY DEF HostInv, Shared
  <2>. QED BY <1>2, <2>1 DEF Holds
<1>6. Shared'
  <2>1. lastTurn' <= hostTurn'
    BY <1>2, <1>3 DEF lifecycleVars, HostInv, Shared
  <2>. QED BY <1>1, <1>2, <1>4, <1>5, <2>1, SharedAfter
<1>7. \A u \in Thread \ {t} : ThreadOK(u)'
  BY <1>2, <1>3, <1>5, OthersUndisturbed
<1>8. ThreadOK(t)'
  <2>1. requests'[t] = request
    BY <1>2, MoveAt
  <2>2. ~Charged(t)' /\ ~Paid(t)' /\ calls'[t] = Idle
    BY <1>2, <1>3, <1>4 DEF Charged, Paid, HostInv, ThreadOK
  <2>. QED BY <1>1, <2>1, <2>2 DEF ThreadOK, InProgress
<1>9. Counted'
  BY <1>1, <1>2, <1>3, <1>4, CountsStay
<1>. QED BY <1>3, <1>6, <1>7, <1>8, <1>9 DEF HostInv

\* A cancelled task leaves its charge, its redemption and its effect behind, and
\* no event.
LEMMA CancelledStep ==
  ASSUME HostInv, NEW t \in Thread, CancelWaiting(t) \/ CancelAwaiting(t)
  PROVE  HostInv'
<1>. DEFINE request == [phase |-> "cancelled"]
<1>1. /\ requests[t].phase \in {"waiting", "dispatching"}
      /\ Move(t, request) /\ LeaveQueue(t)
      /\ UNCHANGED <<lifecycleVars, redeemed, invoked, hostTurn, minted, metrics>>
  BY DEF CancelWaiting, CancelAwaiting, Cancel, Abandon, Move, allVars, dispatchVars
<1>2. DispatchInv'
  BY RegistryMoves, CancelStep DEF CancelWaiting, CancelAwaiting, allVars, HostInv
<1>3. \A u \in Thread \ {t} : calls'[u] = calls[u]
  BY DEF CancelWaiting, CancelAwaiting, Cancel, allVars, dispatchVars, HostInv, DispatchInv, DispatchTypeOK
<1>4. turnQueue' \in Seq(Thread) /\ \A u \in Thread \ {t} : Holds(u) => Holds(u)'
  BY <1>1, LeavesQueue
<1>5. Shared'
  <2>1. lastTurn' <= hostTurn'
    BY <1>1 DEF lifecycleVars, HostInv, Shared
  <2>. QED BY <1>1, <1>4, <2>1, SharedAfter
<1>6. \A u \in Thread \ {t} : ThreadOK(u)'
  BY <1>1, <1>3, <1>4, OthersUndisturbed
<1>7. ThreadOK(t)'
  BY <1>1, MoveAt DEF ThreadOK, Request, InProgress
<1>8. Counted'
  BY <1>1, CountsStay
<1>. QED BY <1>2, <1>5, <1>6, <1>7, <1>8 DEF HostInv

\* Whatever the embedder registers, unregisters or binds, an active capability
\* and its owner stay.
LEMMA EmbedderStep ==
  ASSUME HostInv, Embedder
  PROVE  HostInv'
<1>1. UNCHANGED hostOnlyVars /\ UNCHANGED <<active, lastTurn, redeemed, calls, invoked>>
  BY DEF Embedder, Register, Unregister, Unbind, Bind, dispatchVars, lifecycleVars
<1>2. DispatchInv'
  <2>1. CASE (\E m \in Manifest : Register(m) \/ Unregister(m)) /\ UNCHANGED dispatchVars
    BY <2>1, RegistryMoves DEF LifecycleNext
  <2>2. CASE \E target \in Target : Unbind(target) \/ \E h \in Handler : Bind(target, h)
    BY <2>2, BindingStep DEF HostInv
  <2>. QED BY <2>1, <2>2 DEF Embedder
<1>3. \A c \in DOMAIN active : c \in DOMAIN capabilities =>
         c \in DOMAIN capabilities' /\ capabilities'[c] = capabilities[c]
  <2>1. ASSUME NEW m \in Manifest, Register(m), NEW c \in DOMAIN capabilities
        PROVE  c \in DOMAIN capabilities' /\ capabilities'[c] = capabilities[c]
    BY <2>1 DEF Register
  <2>2. ASSUME NEW m \in Manifest, Unregister(m), NEW c \in DOMAIN active, c \in DOMAIN capabilities
        PROVE  c \in DOMAIN capabilities' /\ capabilities'[c] = capabilities[c]
    <3>1. c \notin m.caps /\ c \in Capability
      BY <2>2 DEF Unregister, HostInv, DispatchInv, LifecycleInv, LifecycleTypeOK
    <3>. QED BY <2>2, <3>1 DEF Unregister, Restricted
  <2>. QED BY <2>1, <2>2 DEF Embedder, Unbind, Bind, lifecycleVars
<1>4. Shared' /\ Counted'
  BY <1>1 DEF hostOnlyVars, HostInv, Shared, Counted, Fresh, Told
<1>5. ASSUME NEW t \in Thread PROVE ThreadOK(t)'
  <2>1. /\ ThreadOK(t) /\ (Charged(t)' <=> Charged(t)) /\ (Paid(t)' <=> Paid(t))
        /\ (OtherProfile(t)' <=> OtherProfile(t)) /\ (Holds(t)' <=> Holds(t))
    BY <1>1 DEF HostInv, Charged, Paid, OtherProfile, Holds, hostOnlyVars
  <2>2. LiveFor(t) => LiveFor(t)'
    BY <1>1, <1>3 DEF LiveFor, Registered, Effects, hostOnlyVars
  <2>3. CallOK(t) => CallOK(t)'
    BY <1>1, <2>1 DEF CallOK, ExplainedFor, Explained, hostOnlyVars
  <2>4. ProgressOK(t) => ProgressOK(t)'
    BY <1>1, <2>1, <2>2, <2>3 DEF ProgressOK, ChargedFor, hostOnlyVars
  <2>. QED BY <1>1, <2>1, <2>4 DEF ThreadOK, Explained, hostOnlyVars
<1>. QED BY <1>2, <1>4, <1>5 DEF HostInv

-----------------------------------------------------------------------------
LEMMA HostInvInit == HostInit => HostInv
<1>. SUFFICES ASSUME HostInit PROVE HostInv
  OBVIOUS
<1>1. DispatchInv
  BY DispatchInvInit DEF HostInit
<1>2. \A t \in Thread : requests[t] = NoRequest /\ calls[t] = Idle
  BY DEF HostInit, Init
<1>3. Shared
  <2>1. Fresh = Thread
    BY <1>2 DEF Fresh, NoRequest
  <2>2. IsFiniteSet({}) /\ Cardinality({}) = 0
    BY FS_EmptySet
  <2>3. lastTurn = 0 /\ hostTurn = 0 /\ turnQueue = <<>> /\ minted = {}
    BY DEF HostInit, Init, LifecycleInit
  <2>. QED BY <2>1, <2>2, <2>3, FreshFinite, HostAssumption DEF Shared, HostInit
<1>4. \A t \in Thread : ThreadOK(t)
  BY <1>2 DEF ThreadOK, Request, NoRequest, Charged, Paid, HostInit, Init, InProgress
<1>5. Counted
  <2>1. \A outcome : Told(outcome) = {}
    BY <1>2 DEF Told, NoRequest
  <2>2. Cardinality({}) = 0
    BY FS_EmptySet
  <2>3. \A outcome : Cardinality(Told(outcome)) = 0
    BY <2>1, <2>2
  <2>4. metrics = [outcome \in {"success", "failure"} |-> 0] /\ \A r \in Receipt : invoked[r] = 0
    BY DEF HostInit, Init
  <2>. QED BY <2>3, <2>4 DEF Counted
<1>. QED BY <1>1, <1>3, <1>4, <1>5 DEF HostInv

LEMMA HostInvStep == HostInv /\ [HostNext]_hostVars => HostInv'
<1>. SUFFICES ASSUME HostInv, [HostNext]_hostVars PROVE HostInv'
  OBVIOUS
<1>1. CASE UNCHANGED hostVars
  <2>1. DispatchInv'
    BY <1>1, RegistryMoves DEF hostVars, allVars
  <2>2. UNCHANGED <<registrations, capabilities, active, lastTurn, redeemed, calls, invoked, hostOnlyVars>>
    BY <1>1 DEF hostVars, allVars, lifecycleVars, dispatchVars
  <2>3. Shared' /\ Counted'
    BY <2>2 DEF hostOnlyVars, HostInv, Shared, Counted, Fresh, Told
  <2>4. \A t \in Thread : ThreadOK(t)'
    BY <2>2 DEF hostOnlyVars, HostInv, ThreadOK, ProgressOK, CallOK, LiveFor, Registered, Effects,
                Charged, Paid, OtherProfile, ChargedFor, Holds, ExplainedFor, Explained
  <2>. QED BY <2>1, <2>3, <2>4 DEF HostInv
<1>2. CASE Embedder
  BY <1>2, EmbedderStep
<1>3. ASSUME NEW t \in Thread, Arrives(t) \/ CancelWaiting(t) \/ CancelAwaiting(t)
      PROVE  HostInv'
  BY <1>3, ArrivalStep, CancelledStep
<1>4. ASSUME NEW t \in Thread, HostStep(t)
      PROVE  HostInv'
  BY <1>4, ActivateAnswers, ExecuteAnswered, TurnTaken, TargetChecked, GrantIssued, ChargeMinted,
     DispatcherCalled, DispatcherSteps, TurnLost DEF HostStep
<1>. QED BY <1>1, <1>2, <1>3, <1>4 DEF HostNext

-----------------------------------------------------------------------------
\* Whatever the tasks, no request presents a turn that is behind the registry's
\* or another request's: the turn lock is held across every await.
THEOREM TurnsAlwaysForward == HostSpec => []TurnsNeverRegress
<1>1. HostInv => TurnsNeverRegress
  <2>. SUFFICES ASSUME HostInv PROVE TurnsNeverRegress
    OBVIOUS
  <2>1. \A t \in Thread : requests[t].phase \in InProgress =>
           requests[t].turn = hostTurn /\ \A u \in Thread \ {t} : requests[u].phase \notin InProgress
    BY InProgressFields, OthersWait
  <2>. QED BY <2>1 DEF TurnsNeverRegress, HostInv, Shared
<1>. QED BY <1>1, HostInvInit, HostInvStep, PTL DEF HostSpec

\* From its check to the end of its handler, the target of a charge stays
\* registered and leased, whatever the embedder's threads do.
THEOREM ChargedTargetsStayLive == HostSpec => []ChargedTargetStaysLive
<1>1. HostInv => ChargedTargetStaysLive
  <2>. SUFFICES ASSUME HostInv, NEW t \in Thread,
                       \/ requests[t].phase \in {"authorizing", "charging"}
                       \/ requests[t].phase \in InProgress /\ Charged(t)
                PROVE  LiveFor(t)
    BY DEF ChargedTargetStaysLive, LiveFor
  <2>. QED BY InProgressFields DEF ProgressOK, InProgress
<1>. QED BY <1>1, HostInvInit, HostInvStep, PTL DEF HostSpec

\* No more handlers run than the quota allows, each on the receipt minted for
\* its own request.
THEOREM EffectsStayWithinQuota == HostSpec => []EffectsWithinQuota
<1>1. HostInv => EffectsWithinQuota
  <2>. SUFFICES ASSUME HostInv PROVE EffectsWithinQuota
    OBVIOUS
  <2>. DEFINE ran == {r \in Receipt : invoked[r] > 0}
  <2>1. ran \subseteq minted
    BY DEF HostInv, Counted
  <2>2. IsFiniteSet(minted) /\ Cardinality(minted) <= QuotaLimit
    BY DEF HostInv, Shared
  <2>3. IsFiniteSet(ran) /\ Cardinality(ran) <= Cardinality(minted)
    BY <2>1, <2>2, FS_Subset
  <2>4. Cardinality(ran) \in Nat /\ Cardinality(minted) \in Nat
    BY <2>2, <2>3, FS_CardinalityType
  <2>. QED BY <2>1, <2>2, <2>3, <2>4, HostAssumption DEF EffectsWithinQuota
<1>. QED BY <1>1, HostInvInit, HostInvStep, PTL DEF HostSpec

\* Every charge is accounted for by the answer to its request.
THEOREM ChargesAlwaysExplained == HostSpec => []ChargesExplained
<1>1. HostInv => ChargesExplained
  BY DEF HostInv, ThreadOK, Explained, Paid, OtherProfile, OfHandler, BeforeRedemption, ChargesExplained
<1>. QED BY <1>1, HostInvInit, HostInvStep, PTL DEF HostSpec

\* The observer has counted exactly the answers, and an effect without an event
\* is one whose request is in progress or was cancelled.
THEOREM EventsAlwaysMatch == HostSpec => []EventsMatchAnswers
<1>1. HostInv => EventsMatchAnswers
  BY DEF HostInv, Counted, Told, EventsMatchAnswers, Outcome
<1>. QED BY <1>1, HostInvInit, HostInvStep, PTL DEF HostSpec

-----------------------------------------------------------------------------
(* The composition: the host uses the dispatcher as Dispatcher says it may *)
(* be used, so that what holds of any use holds at the host.               *)

LEMMA HostStepsAreCalls == HostInv /\ [HostNext]_hostVars => [Next]_allVars
<1>. SUFFICES ASSUME HostInv, HostNext PROVE [Next]_allVars
  BY DEF hostVars
<1>1. CASE Embedder
  BY <1>1 DEF Embedder, Next, LifecycleNext
<1>2. ASSUME NEW t \in Thread, HostActivate(t) \/ HostActivateFailed(t)
      PROVE  [Next]_allVars
  BY <1>2, ActivationTurn DEF Next, allVars
<1>3. ASSUME NEW t \in Thread, CheckedForResolver(t) \/ CheckedForDispatch(t)
      PROVE  [Next]_allVars
  <2>1. /\ requests[t].phase \in InProgress /\ UNCHANGED dispatchVars
        /\ IF requests[t].turn >= lastTurn THEN Advance(requests[t].turn) ELSE UNCHANGED lifecycleVars
    BY <1>3 DEF CheckedForResolver, CheckedForDispatch, CheckedFor, InProgress
  <2>. QED BY <2>1, AdvancesToTurn DEF Next
<1>4. ASSUME NEW t \in Thread, CallDispatcher(t)
      PROVE  [Next]_allVars
  <2>1. /\ requests[t].phase \in InProgress
        /\ BeginDispatch(t, requests[t].target, requests[t].turn, ReceiptOf(t), TRUE)
    BY <1>4 DEF CallDispatcher, InProgress
  <2>2. requests[t].target \in Target /\ requests[t].turn \in Turn
    BY <2>1, InProgressFields
  <2>. QED BY <2>1, <2>2, ReceiptIsOwn DEF Next
<1>5. ASSUME NEW t \in Thread, DispatchStep(t) \/ CancelAwaiting(t)
      PROVE  [Next]_allVars
  BY <1>5 DEF DispatchStep, CancelAwaiting, Next
<1>6. ASSUME NEW t \in Thread,
             \/ Arrives(t) \/ CancelWaiting(t) \/ ExecuteUnknown(t) \/ ExecuteTakesTurn(t) \/ ExecuteLosesTurn(t)
             \/ IssueGrant(t) \/ Consume(t)
             \/ \E code \in HostCode : AuthorizeRefused(t, code)
             \/ \E code \in HostCode : ExecuteAnswers(t, code)
      PROVE  [Next]_allVars
  BY <1>6 DEF Arrives, Submit, CancelWaiting, ExecuteUnknown, ExecuteTakesTurn, ExecuteLosesTurn, IssueGrant, Consume,
              AuthorizeRefused, ExecuteAnswers
<1>. QED BY <1>1, <1>2, <1>3, <1>4, <1>5, <1>6 DEF HostNext, HostStep

\* Every behaviour of the host is one of the dispatcher: its calls, its tasks'
\* cancellations and its embedder make no step that dispatch.py does not offer.
THEOREM HostUsesDispatcher == HostSpec => Spec
<1>1. HostInit => Init
  BY DEF HostInit
<1>. QED BY <1>1, HostInvInit, HostInvStep, HostStepsAreCalls, PTL DEF HostSpec, Spec

\* So a receipt that the resolver mints is used for one handler at most, and
\* redeemed for nothing else, at the host too.
THEOREM HostRunsReceiptOnce == HostSpec => []AtMostOncePerReceipt /\ []RedeemedOnlyToRun
BY HostUsesDispatcher, ReceiptRunsOnce, ReceiptBurntOnlyToRun

-----------------------------------------------------------------------------
(* The registry in the host: no step of the host goes round it, and the    *)
(* host never deactivates or restarts.                                     *)

\* The registry's part of a step that is no restart.
LEMMA RegistrySteps == HostInv /\ [HostNext]_hostVars => [LifecycleNext]_lifecycleVars
<1>. SUFFICES ASSUME HostInv, HostNext PROVE [LifecycleNext]_lifecycleVars
  BY DEF hostVars, allVars
<1>1. CASE Embedder
  BY <1>1 DEF Embedder, LifecycleNext, Unbind, Bind
<1>2. ASSUME NEW t \in Thread, HostActivate(t) \/ HostActivateFailed(t)
      PROVE  [LifecycleNext]_lifecycleVars
  BY <1>2, ActivationTurn
<1>3. ASSUME NEW t \in Thread, CheckedForResolver(t) \/ CheckedForDispatch(t)
      PROVE  [LifecycleNext]_lifecycleVars
  <2>1. /\ requests[t].phase \in InProgress
        /\ IF requests[t].turn >= lastTurn THEN Advance(requests[t].turn) ELSE UNCHANGED lifecycleVars
    BY <1>3 DEF CheckedForResolver, CheckedForDispatch, CheckedFor, InProgress
  <2>. QED BY <2>1, AdvancesToTurn
<1>4. ASSUME NEW t \in Thread, requests[t].phase = "dispatching", Resolve(t)
      PROVE  [LifecycleNext]_lifecycleVars
  <2>1. calls[t].phase \in Phase
    BY <1>4 DEF Resolve, Phase
  <2>2. /\ requests[t].phase \in InProgress
        /\ IF requests[t].turn >= lastTurn THEN Advance(requests[t].turn) ELSE UNCHANGED lifecycleVars
    BY <1>4, <2>1, CallFieldsOK DEF Resolve, InProgress
  <2>. QED BY <2>2, AdvancesToTurn
<1>5. ASSUME NEW t \in Thread, DispatchStep(t), ~Resolve(t)
      PROVE  UNCHANGED lifecycleVars
  BY <1>5 DEF DispatchStep, Lookup, LookupFailed, Redeem, RedeemDenied, Invoke, Return
<1>6. ASSUME NEW t \in Thread,
             \/ Arrives(t) \/ CancelWaiting(t) \/ CancelAwaiting(t) \/ ExecuteUnknown(t) \/ ExecuteTakesTurn(t) \/ ExecuteLosesTurn(t)
             \/ IssueGrant(t) \/ Consume(t) \/ CallDispatcher(t)
             \/ \E code \in HostCode : AuthorizeRefused(t, code)
             \/ \E code \in HostCode : ExecuteAnswers(t, code)
      PROVE  UNCHANGED lifecycleVars
  BY <1>6 DEF Arrives, Submit, CancelWaiting, CancelAwaiting, Cancel, ExecuteUnknown, ExecuteTakesTurn, ExecuteLosesTurn,
              IssueGrant, Consume, CallDispatcher, BeginDispatch, AuthorizeRefused, ExecuteAnswers, allVars
<1>. QED BY <1>1, <1>2, <1>3, <1>4, <1>5, <1>6 DEF HostNext, HostStep, DispatchStep

\* Every behaviour of the host is one of the registry: however requests, lost
\* turns, refusals and the embedder's threads interleave.
THEOREM HostUsesRegistry == HostSpec => LifecycleSpec
<1>1. HostInit => LifecycleInit
  BY DEF HostInit, Init
<1>. QED BY <1>1, HostInvInit, HostInvStep, RegistrySteps, PTL DEF HostSpec, LifecycleSpec

\* So what the registry keeps on its own it keeps in the host.
THEOREM HostKeepsRegistry == HostSpec => []OwnershipExact /\ []ActiveSetSound /\ LeaseLossExplained
BY HostUsesRegistry, OwnershipAlwaysExact, ActiveSetAlwaysSound, LeaseLossAlwaysExplained

-----------------------------------------------------------------------------
(* The host implements EffectAuthority: the resolver's two transactions    *)
(* and the dispatcher's redemption are the authority's three steps.        *)

Ungranted == {"none", "waiting", "checking", "authorizing"}

\* A request is granted when it has been authorized, and not before; only a
\* grant that has been issued is ever consumed.
IssuedInv ==
  /\ minted \subseteq issued /\ issued \subseteq Receipt
  /\ \A t \in Thread :
        /\ requests[t].phase \in Ungranted => \A r \in issued : r.id # t
        /\ requests[t].phase = "charging" => ReceiptFor(t) \in issued

\* The steps that touch neither grants nor charges bring no request before its
\* grant, nor between its grant and its charge.
LEMMA OtherSteps ==
  ASSUME HostInv, HostNext, \A t \in Thread : ~IssueGrant(t) /\ ~Consume(t)
  PROVE  /\ UNCHANGED <<issued, minted>>
         /\ \A t \in Thread :
               /\ requests'[t].phase \in Ungranted => requests[t].phase \in Ungranted
               /\ requests'[t].phase = "charging" => requests'[t] = requests[t]
<1>1. CASE Embedder
  BY <1>1 DEF Embedder, hostOnlyVars
<1>2. ASSUME NEW t \in Thread, DispatchStep(t)
      PROVE  UNCHANGED <<issued, minted, requests>>
  BY <1>2 DEF DispatchStep, hostOnlyVars
<1>3. ASSUME NEW t \in Thread, NEW request, Move(t, request), UNCHANGED <<issued, minted>>,
             request.phase # "charging",
             request.phase \in Ungranted => requests[t].phase \in Ungranted
      PROVE  /\ UNCHANGED <<issued, minted>>
             /\ \A u \in Thread :
                   /\ requests'[u].phase \in Ungranted => requests[u].phase \in Ungranted
                   /\ requests'[u].phase = "charging" => requests'[u] = requests[u]
  BY <1>3, MoveAt
<1>4. ASSUME NEW t \in Thread,
             \/ HostActivate(t) \/ HostActivateFailed(t) \/ ExecuteUnknown(t) \/ ExecuteLosesTurn(t)
             \/ \E code \in HostCode : AuthorizeRefused(t, code)
             \/ \E code \in HostCode : ExecuteAnswers(t, code)
             \/ CancelWaiting(t) \/ CancelAwaiting(t)
      PROVE  \E request : /\ Move(t, request) /\ UNCHANGED <<issued, minted>>
                          /\ request.phase \in {"answered", "cancelled"}
  <2>1. UNCHANGED <<issued, minted>> /\ (Abandon(t) \/ \E code \in HostCode : AnswersWith(t, code))
    BY <1>4 DEF HostActivate, HostActivateFailed, ExecuteUnknown, ExecuteLosesTurn, AuthorizeRefused, ExecuteAnswers,
                CancelWaiting, CancelAwaiting, HostCode
  <2>2. ASSUME NEW code \in HostCode, AnswersWith(t, code)
        PROVE  Move(t, Answer(code, Charged(t))) /\ Answer(code, Charged(t)).phase = "answered"
    BY <2>2 DEF AnswersWith, Answer, Move
  <2>3. Abandon(t) => Move(t, [phase |-> "cancelled"]) /\ [phase |-> "cancelled"].phase = "cancelled"
    BY DEF Abandon, Move
  <2>. QED BY <2>1, <2>2, <2>3
<1>5. ASSUME NEW t \in Thread, Arrives(t)
      PROVE  \E request : /\ Move(t, request) /\ UNCHANGED <<issued, minted>>
                          /\ request.phase = "waiting" /\ requests[t].phase \in Ungranted
  <2>1. PICK request \in Request : request.phase = "waiting" /\ Submit(t, request)
    BY <1>5 DEF Arrives, ActivateRequest, ExecuteRequest, Request
  <2>2. Move(t, request) /\ UNCHANGED <<issued, minted>>
    BY <2>1 DEF Submit, Move
  <2>3. requests[t].phase = "none"
    BY <2>1 DEF Submit, NoRequest
  <2>. QED BY <2>1, <2>2, <2>3 DEF Ungranted
<1>6. ASSUME NEW t \in Thread, ExecuteTakesTurn(t)
      PROVE  \E request : /\ Move(t, request) /\ UNCHANGED <<issued, minted>>
                          /\ request.phase = "checking" /\ requests[t].phase \in Ungranted
  BY <1>6 DEF ExecuteTakesTurn, Waiting, Move, Ungranted
<1>7. ASSUME NEW t \in Thread, NEW phase \in InProgress, requests[t].phase \in InProgress,
             requests' = [requests EXCEPT ![t].phase = phase]
      PROVE  \E request : Move(t, request) /\ request.phase = phase
  <2>1. requests[t] \in [phase : InProgress, target : Target, turn : Nat]
    BY <1>7, InProgressFields
  <2>2. Move(t, [requests[t] EXCEPT !.phase = phase]) /\ [requests[t] EXCEPT !.phase = phase].phase = phase
    BY <1>7, <2>1 DEF Move, HostInv, Shared
  <2>. QED BY <2>2
<1>8. ASSUME NEW t \in Thread, CheckedForResolver(t) \/ CheckedForDispatch(t) \/ CallDispatcher(t)
      PROVE  \E request : /\ Move(t, request) /\ UNCHANGED <<issued, minted>>
                          /\ request.phase \in {"authorizing", "calling", "dispatching"}
                          /\ request.phase = "authorizing" => requests[t].phase \in Ungranted
  BY <1>8, <1>7 DEF CheckedForResolver, CheckedForDispatch, CheckedFor, CallDispatcher, InProgress, Ungranted
<1>9. ASSUME NEW t \in Thread, HostStep(t) \/ Arrives(t) \/ CancelWaiting(t) \/ CancelAwaiting(t), ~DispatchStep(t)
      PROVE  \E request : /\ Move(t, request) /\ UNCHANGED <<issued, minted>>
                          /\ request.phase # "charging"
                          /\ request.phase \in Ungranted => requests[t].phase \in Ungranted
  BY <1>9, <1>4, <1>5, <1>6, <1>8 DEF HostStep, Ungranted
<1>. QED BY <1>1, <1>2, <1>3, <1>9 DEF HostNext, HostStep

LEMMA IssuedInvStep == HostInv /\ IssuedInv /\ [HostNext]_hostVars => IssuedInv'
<1>. SUFFICES ASSUME HostInv, IssuedInv, [HostNext]_hostVars PROVE IssuedInv'
  OBVIOUS
<1>1. CASE UNCHANGED hostVars
  BY <1>1 DEF hostVars, hostOnlyVars, IssuedInv, ReceiptFor
<1>2. ASSUME NEW t \in Thread, requests[t].phase \in InProgress
      PROVE  ReceiptFor(t) \in Receipt
  BY <1>2, InProgressFields, HostAssumption DEF ReceiptFor, Target, Registration
<1>3. ASSUME NEW t \in Thread, NEW phase \in InProgress, requests[t].phase \in InProgress,
             requests' = [requests EXCEPT ![t].phase = phase]
      PROVE  /\ requests'[t].phase = phase /\ ReceiptFor(t)' = ReceiptFor(t)
             /\ \A u \in Thread \ {t} : requests'[u] = requests[u] /\ ReceiptFor(u)' = ReceiptFor(u)
  <2>1. requests = [u \in Thread |-> requests[u]]
    BY DEF HostInv, Shared
  <2>2. requests[t] \in [phase : InProgress, target : Target, turn : Nat]
    BY <1>3, InProgressFields
  <2>. QED BY <1>3, <2>1, <2>2 DEF ReceiptFor
<1>4. ASSUME NEW t \in Thread, IssueGrant(t)
      PROVE  IssuedInv'
  <2>1. /\ requests[t].phase = "authorizing" /\ minted' = minted /\ issued' = issued \cup {ReceiptFor(t)}
        /\ requests' = [requests EXCEPT ![t].phase = "charging"]
    BY <1>4 DEF IssueGrant
  <2>2. /\ requests'[t].phase = "charging" /\ ReceiptFor(t)' = ReceiptFor(t) /\ ReceiptFor(t) \in Receipt
        /\ \A u \in Thread \ {t} : requests'[u] = requests[u] /\ ReceiptFor(u)' = ReceiptFor(u)
    BY <1>2, <1>3, <2>1 DEF InProgress
  <2>3. ReceiptFor(t).id = t
    BY DEF ReceiptFor
  <2>. QED BY <2>1, <2>2, <2>3 DEF IssuedInv, Ungranted
<1>5. ASSUME NEW t \in Thread, Consume(t)
      PROVE  IssuedInv'
  <2>1. /\ requests[t].phase = "charging" /\ issued' = issued /\ minted' = minted \cup {ReceiptFor(t)}
        /\ requests' = [requests EXCEPT ![t].phase = "charged"]
    BY <1>5 DEF Consume
  <2>2. /\ requests'[t].phase = "charged"
        /\ \A u \in Thread \ {t} : requests'[u] = requests[u] /\ ReceiptFor(u)' = ReceiptFor(u)
    BY <1>3, <2>1 DEF InProgress
  <2>. QED BY <2>1, <2>2 DEF IssuedInv, Ungranted
<1>6. CASE HostNext /\ \A t \in Thread : ~IssueGrant(t) /\ ~Consume(t)
  <2>1. /\ UNCHANGED <<issued, minted>>
        /\ \A t \in Thread :
               /\ requests'[t].phase \in Ungranted => requests[t].phase \in Ungranted
               /\ requests'[t].phase = "charging" => requests'[t] = requests[t]
    BY <1>6, OtherSteps
  <2>. QED BY <2>1 DEF IssuedInv, ReceiptFor
<1>. QED BY <1>1, <1>4, <1>5, <1>6

LEMMA IssuedInvInit == HostInit => IssuedInv
BY DEF HostInit, IssuedInv, NoRequest

Budget == [policy \in {"host"} |-> [kind \in {"calls"} |-> QuotaLimit - Cardinality(minted)]]

LEMMA EffectFacts ==
  /\ \A r, q : EffectOf(r) = EffectOf(q) => r = q
  /\ \A r, S : EffectOf(r) \in EffectsOf(S) <=> r \in S
  /\ \A r, S : EffectsOf(S \cup {r}) = EffectsOf(S) \cup {EffectOf(r)}
  /\ \A r : /\ EffectOf(r).approval = "none" /\ EffectOf(r).policy = "host"
             /\ EffectOf(r).charges["calls"].total = 1
<1>1. \A r, q : EffectOf(r) = EffectOf(q) => r = q
  BY DEF EffectOf
<1>2. \A r, S : EffectOf(r) \in EffectsOf(S) <=> r \in S
  BY <1>1 DEF EffectsOf
<1>3. \A r, S : EffectsOf(S \cup {r}) = EffectsOf(S) \cup {EffectOf(r)}
  BY DEF EffectsOf
<1>. QED BY <1>1, <1>2, <1>3 DEF EffectOf

\* What the redemptions of the dispatcher are, in the host.
LEMMA RedeemedOnce ==
  ASSUME HostInv, IssuedInv, HostNext
  PROVE  \/ redeemed' = redeemed
         \/ /\ UNCHANGED <<issued, minted>>
            /\ \E r \in minted \ redeemed : redeemed' = redeemed \cup {r}
<1>1. CASE Embedder
  BY <1>1 DEF Embedder, Unbind, Bind, dispatchVars
<1>2. ASSUME NEW t \in Thread, DispatchStep(t), Redeem(t)
      PROVE  /\ UNCHANGED <<issued, minted>>
             /\ \E r \in minted \ redeemed : redeemed' = redeemed \cup {r}
  <2>1. requests[t].phase = "dispatching" /\ calls[t].phase \in Phase /\ calls[t].phase = "redeem"
    BY <1>2 DEF DispatchStep, Redeem, Phase
  <2>2. calls[t].receipt \in Receipt
    BY <2>1 DEF HostInv, DispatchInv, CarriesReceipt
  <2>3. calls[t].receipt \in minted
    BY <2>1, <2>2, CallFieldsOK, DispatchAssumption
  <2>. QED BY <1>2, <2>3 DEF Redeem, Accepts, DispatchStep, hostOnlyVars
<1>3. ASSUME NEW t \in Thread, DispatchStep(t), ~Redeem(t)
      PROVE  redeemed' = redeemed
  BY <1>3 DEF DispatchStep, Resolve, Lookup, LookupFailed, RedeemDenied, Invoke, Return
<1>4. ASSUME NEW t \in Thread, HostStep(t) \/ Arrives(t) \/ CancelWaiting(t) \/ CancelAwaiting(t), ~DispatchStep(t)
      PROVE  redeemed' = redeemed
  BY <1>4 DEF HostStep, HostActivate, HostActivateFailed, ExecuteUnknown, ExecuteTakesTurn, ExecuteLosesTurn, CheckedForResolver,
              CheckedForDispatch, CheckedFor, IssueGrant, Consume, AuthorizeRefused, CallDispatcher, BeginDispatch,
              ExecuteAnswers, Arrives, Submit, CancelWaiting, CancelAwaiting, Cancel, allVars, dispatchVars
<1>. QED BY <1>1, <1>2, <1>3, <1>4 DEF HostNext

LEMMA HostAuthorityInit == HostInit => HostAuthority!Init
<1>. SUFFICES ASSUME HostInit PROVE HostAuthority!Init
  OBVIOUS
<1>1. issued = {} /\ minted = {} /\ redeemed = {}
  BY DEF HostInit, Init
<1>2. EffectsOf({}) = {}
  BY DEF EffectsOf
<1>3. Cardinality({}) = 0 /\ QuotaLimit \in Nat
  BY FS_EmptySet, HostAssumption
<1>4. [policy \in {"host"} |-> [kind \in {"calls"} |-> QuotaLimit - Cardinality(minted)]]
         \in [{"host"} -> [{"calls"} -> Nat]]
  BY <1>1, <1>3
<1>. QED BY <1>1, <1>2, <1>4 DEF HostAuthority!Init

LEMMA HostAuthorityStep ==
  ASSUME HostInv, IssuedInv, [HostNext]_hostVars
  PROVE  [HostAuthority!Next]_<<EffectsOf(issued), EffectsOf(minted), EffectsOf(redeemed), Budget>>
<1>1. CASE UNCHANGED <<issued, minted, redeemed>>
  <2>1. EffectsOf(issued)' = EffectsOf(issued) /\ EffectsOf(minted)' = EffectsOf(minted)
        /\ EffectsOf(redeemed)' = EffectsOf(redeemed) /\ Budget' = Budget
    BY <1>1 DEF EffectsOf, Budget
  <2>. QED BY <2>1
<1>2. ASSUME NEW t \in Thread, IssueGrant(t)
      PROVE  HostAuthority!GrantEffect(EffectOf(ReceiptFor(t))) /\ ReceiptFor(t) \in Receipt
  <2>1. /\ requests[t].phase = "authorizing" /\ minted' = minted /\ issued' = issued \cup {ReceiptFor(t)}
        /\ redeemed' = redeemed
    BY <1>2 DEF IssueGrant, allVars, dispatchVars
  <2>2. ReceiptFor(t) \notin issued
    BY <2>1 DEF IssuedInv, Ungranted, ReceiptFor
  <2>3. ReceiptFor(t) \in Receipt
    BY <2>1, InProgressFields, HostAssumption DEF ReceiptFor, Target, Registration, InProgress
  <2>4. EffectOf(ReceiptFor(t)) \notin EffectsOf(issued)
    BY <2>2, EffectFacts
  <2>5. EffectsOf(issued)' = EffectsOf(issued) \cup {EffectOf(ReceiptFor(t))}
    BY <2>1, EffectFacts DEF EffectsOf
  <2>6. EffectsOf(minted)' = EffectsOf(minted) /\ EffectsOf(redeemed)' = EffectsOf(redeemed) /\ Budget' = Budget
    BY <2>1 DEF EffectsOf, Budget
  <2>. QED BY <2>3, <2>4, <2>5, <2>6, EffectFacts DEF HostAuthority!GrantEffect, Budget
<1>3. ASSUME NEW t \in Thread, Consume(t)
      PROVE  HostAuthority!Pay(EffectOf(ReceiptFor(t))) /\ ReceiptFor(t) \in Receipt
  <2>. DEFINE g == EffectOf(ReceiptFor(t))
  <2>1. /\ requests[t].phase = "charging" /\ issued' = issued /\ minted' = minted \cup {ReceiptFor(t)}
        /\ redeemed' = redeemed /\ Cardinality(minted) < QuotaLimit
    BY <1>3 DEF Consume, QuotaRemains, allVars, dispatchVars
  <2>2. ReceiptFor(t) \in issued /\ ReceiptFor(t) \in Receipt
    BY <2>1 DEF IssuedInv
  <2>3. ReceiptFor(t) \notin minted
    BY <2>1 DEF HostInv, ThreadOK, Charged, ReceiptFor
  <2>4. g \in EffectsOf(issued) \ EffectsOf(minted)
    BY <2>2, <2>3, EffectFacts
  <2>5. EffectsOf(minted)' = EffectsOf(minted) \cup {g}
    BY <2>1, EffectFacts DEF EffectsOf
  <2>6. EffectsOf(issued)' = EffectsOf(issued) /\ EffectsOf(redeemed)' = EffectsOf(redeemed)
    BY <2>1 DEF EffectsOf
  <2>7. /\ Cardinality(minted) \in Nat /\ QuotaLimit \in Nat
        /\ Cardinality(minted') = Cardinality(minted) + 1
    BY <2>1, <2>3, FS_AddElement, FS_CardinalityType, HostAssumption DEF HostInv, Shared
  <2>8. g.policy = "host" /\ g.charges["calls"].total = 1
    BY EffectFacts
  <2>. HIDE DEF g
  <2>9. Budget' = [Budget EXCEPT ![g.policy] = [k \in {"calls"} |-> @[k] - g.charges[k].total]]
    BY <2>7, <2>8 DEF Budget
  <2>10. \A k \in {"calls"} : g.charges[k].total <= Budget[g.policy][k]
    BY <2>1, <2>7, <2>8 DEF Budget
  <2>11. HostAuthority!Pay(g)
    BY <2>4, <2>5, <2>6, <2>9, <2>10 DEF HostAuthority!Pay, Budget
  <2>. QED BY <2>2, <2>11 DEF g
<1>4. ASSUME NEW r \in minted \ redeemed, UNCHANGED <<issued, minted>>, redeemed' = redeemed \cup {r}
      PROVE  HostAuthority!Release(EffectOf(r)) /\ r \in Receipt
  <2>1. EffectOf(r) \in EffectsOf(minted) \ EffectsOf(redeemed)
    BY <1>4, EffectFacts
  <2>2. EffectsOf(redeemed)' = EffectsOf(redeemed) \cup {EffectOf(r)}
    BY <1>4, EffectFacts DEF EffectsOf
  <2>3. EffectsOf(issued)' = EffectsOf(issued) /\ EffectsOf(minted)' = EffectsOf(minted) /\ Budget' = Budget
    BY <1>4 DEF EffectsOf, Budget
  <2>. QED BY <1>4, <2>1, <2>2, <2>3 DEF HostAuthority!Release, Budget, IssuedInv
<1>5. \A r \in Receipt : EffectOf(r) \in EffectsOf(Receipt)
  BY EffectFacts
<1>6. CASE UNCHANGED hostVars
  BY <1>1, <1>6 DEF hostVars, allVars, hostOnlyVars, dispatchVars
<1>7. CASE HostNext /\ redeemed' # redeemed
  BY <1>4, <1>5, <1>7, RedeemedOnce DEF HostAuthority!Next
<1>8. CASE HostNext /\ redeemed' = redeemed
  BY <1>1, <1>2, <1>3, <1>5, <1>8, OtherSteps DEF HostAuthority!Next
<1>. QED BY <1>6, <1>7, <1>8

\* Resolver, host and dispatcher, in their separate transactions, do nothing to
\* grants, charges and effects that EffectAuthority does not allow.
THEOREM HostKeepsAuthority == HostSpec => HostImplementsAuthority
<1>1. HostInv /\ IssuedInv /\ [HostNext]_hostVars => [HostAuthority!Next]_(HostAuthority!vars)
  BY HostAuthorityStep DEF HostAuthority!vars, Budget
<1>. QED
  BY <1>1, HostInvInit, HostInvStep, IssuedInvInit, IssuedInvStep, HostAuthorityInit, PTL
     DEF HostSpec, HostImplementsAuthority, HostAuthority!Spec

-----------------------------------------------------------------------------
(* What can be proved of EveryRequestEnds: the lock is held by a task that *)
(* can go on, whatever it does brings it nearer to its answer, and nobody  *)
(* gets in front of a task that waits.                                     *)

Queued == {turnQueue[i] : i \in 1 .. Len(turnQueue)}
Present == {t \in Thread : requests[t].phase \in {"waiting"} \cup InProgress}

\* No task that has answered or been cancelled holds the lock or stands in its
\* line, and no other stands there twice.
LockIsLive ==
  /\ Queued = Present
  /\ \A i, j \in 1 .. Len(turnQueue) : turnQueue[i] = turnQueue[j] => i = j

\* The guard of some step of the task at the head of the line.
CanGo(t) ==
  LET request == requests[t] IN
  \/ /\ request.phase = "waiting"
     /\ request.op = "activate" => request.lease > MaxLease \/ hostTurn + 1 >= lastTurn
  \/ request.phase \in {"checking", "authorizing", "charging"}
  \/ request.phase \in {"charged", "calling"} /\ calls[t].phase \in {"idle", "done"}
  \/ request.phase = "dispatching" /\ calls[t].phase \in Phase \cup {"done"}

HolderGoesOn == turnQueue # <<>> => CanGo(Head(turnQueue))

\* The steps left of a request, at most, once it has the lock.
Rank(request, call) ==
  CASE request.phase = "waiting" -> 12
    [] request.phase = "checking" -> 11
    [] request.phase = "authorizing" -> 10
    [] request.phase = "charging" -> 9
    [] request.phase = "charged" -> 8
    [] request.phase = "calling" -> 7
    [] request.phase = "dispatching" ->
         CASE call.phase = "resolve" -> 6
           [] call.phase = "lookup" -> 5
           [] call.phase = "redeem" -> 4
           [] call.phase = "invoke" -> 3
           [] call.phase = "running" -> 2
           [] OTHER -> 1
    [] OTHER -> 0

\* The tasks ahead of t in the line.
Ahead(t) ==
  {turnQueue[i] : i \in {k \in 1 .. Len(turnQueue) :
                            \E j \in k + 1 .. Len(turnQueue) : turnQueue[j] = t}}

RequestsRunDown ==
  [][\A t \in Present :
       /\ HostStep(t) => Rank(requests'[t], calls'[t]) < Rank(requests[t], calls[t])
       /\ \/ requests'[t].phase \in {"answered", "cancelled"}
          \/ /\ Ahead(t)' \subseteq Ahead(t)
             /\ HostStep(t) \/ Rank(requests'[t], calls'[t]) = Rank(requests[t], calls[t])]_hostVars

-----------------------------------------------------------------------------
(* The line.                                                               *)

\* What is left of a sequence without its element at i.
LEMMA WithoutAt ==
  ASSUME NEW S, NEW s \in Seq(S), NEW i \in 1 .. Len(s)
  PROVE  /\ Len(Without(s, i)) = Len(s) - 1
         /\ \A k \in 1 .. Len(s) - 1 : Without(s, i)[k] = IF k < i THEN s[k] ELSE s[k + 1]
<1>. DEFINE a == SubSeq(s, 1, i - 1)
            b == SubSeq(s, i + 1, Len(s))
<1>1. a \in Seq(S) /\ Len(a) = i - 1 /\ \A k \in 1 .. i - 1 : a[k] = s[k]
  OBVIOUS
<1>2. b \in Seq(S) /\ Len(b) = Len(s) - i /\ \A k \in 1 .. Len(s) - i : b[k] = s[k + i]
  OBVIOUS
<1>. HIDE DEF a, b
<1>3. Len(a \o b) = Len(s) - 1
  BY <1>1, <1>2
<1>4. ASSUME NEW k \in 1 .. Len(s) - 1
      PROVE  (a \o b)[k] = IF k < i THEN s[k] ELSE s[k + 1]
  <2>1. CASE k < i
    BY <1>1, <1>2, <2>1
  <2>2. CASE ~(k < i)
    <3>1. k - (i - 1) \in 1 .. Len(s) - i /\ (k - (i - 1)) + i = k + 1
      BY <2>2
    <3>2. (a \o b)[k] = b[k - (i - 1)]
      BY <1>1, <1>2, <2>2
    <3>. QED BY <1>2, <2>2, <3>1, <3>2
  <2>. QED BY <2>1, <2>2
<1>5. Without(s, i) = a \o b
  BY DEF Without, a, b
<1>. QED BY <1>3, <1>4, <1>5

\* The three ways a step touches the line.
Stays == turnQueue' = turnQueue /\ Present' = Present
Comes(t) == /\ turnQueue' = Append(turnQueue, t) /\ t \notin Present
            /\ Present' = Present \cup {t}
Goes(t) == /\ LeaveQueue(t) /\ requests'[t].phase \in {"answered", "cancelled"}
           /\ Present' = Present \ {t}

\* A request that moves on within the host, or leaves it.
LEMMA PresentMoves ==
  ASSUME HostInv, NEW t \in Thread, NEW request, Move(t, request)
  PROVE  /\ t \in Present /\ request.phase \in InProgress => Present' = Present
         /\ request.phase \in {"answered", "cancelled"} =>
               /\ requests'[t].phase \in {"answered", "cancelled"}
               /\ Present' = Present \ {t}
         /\ request.phase = "waiting" => Present' = Present \cup {t}
BY MoveAt DEF Present, InProgress

\* The holder of the lock is at the head of the line as long as it goes on.
LEMMA StepAtHead ==
  ASSUME HostInv, NEW t \in Thread, HostStep(t)
  PROVE  t \in Present /\ (Stays \/ Goes(t))
<1>1. CASE DispatchStep(t)
  BY <1>1 DEF DispatchStep, hostOnlyVars, Stays, Present, InProgress
<1>2. CASE \/ HostActivate(t) \/ HostActivateFailed(t) \/ ExecuteUnknown(t) \/ ExecuteLosesTurn(t)
           \/ \E code \in HostCode : AuthorizeRefused(t, code)
           \/ \E code \in HostCode : ExecuteAnswers(t, code)
  <2>1. requests[t].phase \in {"waiting"} \cup InProgress
    BY <1>2 DEF HostActivate, HostActivateFailed, ExecuteUnknown, ExecuteLosesTurn, Waiting, AuthorizeRefused,
                ExecuteAnswers, InProgress
  <2>2. PICK code : AnswersWith(t, code)
    BY <1>2 DEF HostActivate, HostActivateFailed, ExecuteUnknown, ExecuteLosesTurn, AuthorizeRefused, ExecuteAnswers
  <2>3. Move(t, Answer(code, Charged(t))) /\ Answer(code, Charged(t)).phase = "answered" /\ LeaveQueue(t)
    BY <2>2 DEF AnswersWith, Answer, Move
  <2>. QED BY <2>1, <2>3, PresentMoves DEF Goes, Present
<1>3. CASE ExecuteTakesTurn(t)
  BY <1>3, MoveAt DEF ExecuteTakesTurn, Waiting, Move, Stays, Present, InProgress
<1>4. CASE CheckedForResolver(t) \/ CheckedForDispatch(t) \/ IssueGrant(t) \/ Consume(t) \/ CallDispatcher(t)
  <2>1. PICK phase \in InProgress :
           /\ requests[t].phase \in InProgress /\ turnQueue' = turnQueue
           /\ requests' = [requests EXCEPT ![t].phase = phase]
    BY <1>4 DEF CheckedForResolver, CheckedForDispatch, CheckedFor, IssueGrant, Consume, CallDispatcher, InProgress
  <2>2. requests[t] \in [phase : InProgress, target : Target, turn : Nat]
    BY <2>1, InProgressFields
  <2>3. Move(t, [requests[t] EXCEPT !.phase = phase]) /\ [requests[t] EXCEPT !.phase = phase].phase = phase
    BY <2>1, <2>2 DEF Move, HostInv, Shared
  <2>. QED BY <2>1, <2>3, PresentMoves DEF Stays, Present
<1>. QED BY <1>1, <1>2, <1>3, <1>4 DEF HostStep

LEMMA LineSteps ==
  ASSUME HostInv, [HostNext]_hostVars
  PROVE  Stays \/ \E t \in Thread : Comes(t) \/ Goes(t)
<1>1. CASE UNCHANGED hostVars \/ Embedder
  BY <1>1 DEF Embedder, hostVars, hostOnlyVars, Stays, Present
<1>2. ASSUME NEW t \in Thread, Arrives(t)
      PROVE  Comes(t)
  <2>1. PICK request \in Request : request.phase = "waiting" /\ Submit(t, request)
    BY <1>2 DEF Arrives, ActivateRequest, ExecuteRequest, Request
  <2>2. Move(t, request) /\ turnQueue' = Append(turnQueue, t) /\ requests[t].phase = "none"
    BY <2>1 DEF Submit, Move, NoRequest
  <2>. QED BY <2>1, <2>2, PresentMoves DEF Comes, Present, InProgress
<1>3. ASSUME NEW t \in Thread, CancelWaiting(t) \/ CancelAwaiting(t)
      PROVE  Goes(t)
  <2>1. Move(t, [phase |-> "cancelled"]) /\ LeaveQueue(t)
    BY <1>3 DEF CancelWaiting, CancelAwaiting, Abandon, Move
  <2>. QED BY <2>1, PresentMoves DEF Goes
<1>4. ASSUME NEW t \in Thread, HostStep(t)
      PROVE  Stays \/ Goes(t)
  BY <1>4, StepAtHead
<1>. QED BY <1>1, <1>2, <1>3, <1>4 DEF HostNext

\* The line is exactly the tasks that wait or are in progress.
LEMMA LockIsLiveStep == HostInv /\ LockIsLive /\ [HostNext]_hostVars => LockIsLive'
<1>. SUFFICES ASSUME HostInv, LockIsLive, [HostNext]_hostVars PROVE LockIsLive'
  OBVIOUS
<1>0. turnQueue \in Seq(Thread)
  BY DEF HostInv, Shared
<1>1. CASE Stays
  BY <1>1 DEF Stays, LockIsLive, Queued
<1>2. ASSUME NEW t \in Thread, Comes(t)
      PROVE  LockIsLive'
  <2>1. /\ Len(turnQueue') = Len(turnQueue) + 1 /\ turnQueue'[Len(turnQueue) + 1] = t
        /\ \A k \in 1 .. Len(turnQueue) : turnQueue'[k] = turnQueue[k]
    BY <1>0, <1>2 DEF Comes
  <2>2. Len(turnQueue) \in Nat
    BY <1>0
  <2>3. Queued' = Queued \cup {t}
    BY <2>1, <2>2 DEF Queued
  <2>4. \A k \in 1 .. Len(turnQueue) : turnQueue[k] # t
    BY <1>2 DEF Comes, LockIsLive, Queued
  <2>5. \A i, j \in 1 .. Len(turnQueue') : turnQueue'[i] = turnQueue'[j] => i = j
    BY <2>1, <2>2, <2>4 DEF LockIsLive
  <2>. QED BY <1>2, <2>3, <2>5 DEF Comes, LockIsLive
<1>3. ASSUME NEW t \in Thread, Goes(t)
      PROVE  LockIsLive'
  <2>1. PICK i \in 1 .. Len(turnQueue) : turnQueue[i] = t /\ turnQueue' = Without(turnQueue, i)
    BY <1>3 DEF Goes, LeaveQueue
  <2>2. /\ Len(turnQueue') = Len(turnQueue) - 1
        /\ \A k \in 1 .. Len(turnQueue) - 1 :
              turnQueue'[k] = IF k < i THEN turnQueue[k] ELSE turnQueue[k + 1]
    BY <1>0, <2>1, WithoutAt
  <2>3. Len(turnQueue) \in Nat
    BY <1>0
  <2>4. Queued' \subseteq Queued \ {t}
    BY <2>1, <2>2, <2>3 DEF Queued, LockIsLive
  <2>5. Queued \ {t} \subseteq Queued'
    <3>. SUFFICES ASSUME NEW j \in 1 .. Len(turnQueue), turnQueue[j] # t
                  PROVE  turnQueue[j] \in Queued'
      BY DEF Queued
    <3>1. j < i \/ j > i
      BY <2>1, <2>3
    <3>2. CASE j < i
      <4>1. j \in 1 .. Len(turnQueue') /\ turnQueue'[j] = turnQueue[j]
        BY <2>1, <2>2, <2>3, <3>2
      <4>. QED BY <4>1 DEF Queued
    <3>3. CASE j > i
      <4>1. j - 1 \in 1 .. Len(turnQueue') /\ turnQueue'[j - 1] = turnQueue[j]
        BY <2>1, <2>2, <2>3, <3>3
      <4>. QED BY <4>1 DEF Queued
    <3>. QED BY <3>1, <3>2, <3>3
  <2>6. \A j, k \in 1 .. Len(turnQueue') : turnQueue'[j] = turnQueue'[k] => j = k
    BY <2>1, <2>2, <2>3 DEF LockIsLive
  <2>. QED BY <1>3, <2>4, <2>5, <2>6 DEF Goes, LockIsLive
<1>. QED BY <1>1, <1>2, <1>3, LineSteps

LEMMA LockIsLiveInit == HostInit => LockIsLive
BY DEF HostInit, LockIsLive, Queued, Present, NoRequest, InProgress

\* The lock is never left behind, by an answer, a refusal or a cancelled task, and
\* no task is passed over: they that wait or are in progress are they that stand
\* in its line, each once.
THEOREM LockNeverOrphaned == HostSpec => []LockIsLive
BY HostInvInit, HostInvStep, LockIsLiveInit, LockIsLiveStep, PTL DEF HostSpec

\* Whoever holds the lock can take a step: the registry is never ahead of the turn
\* it would take, and its call is always at a step of the dispatcher.
THEOREM HolderAlwaysGoesOn == HostSpec => []HolderGoesOn
<1>1. HostInv /\ LockIsLive => HolderGoesOn
  <2>. SUFFICES ASSUME HostInv, LockIsLive, turnQueue # <<>> PROVE CanGo(Head(turnQueue))
    BY DEF HolderGoesOn
  <2>. DEFINE t == Head(turnQueue)
  <2>1. turnQueue \in Seq(Thread)
    BY DEF HostInv, Shared
  <2>2. t = turnQueue[1] /\ 1 \in 1 .. Len(turnQueue)
    BY <2>1
  <2>3. t \in Present
    BY <2>2 DEF LockIsLive, Queued
  <2>. HIDE DEF t
  <2>4. t \in Thread /\ requests[t].phase \in {"waiting"} \cup InProgress
    BY <2>3 DEF Present
  <2>5. hostTurn \in Nat /\ lastTurn \in Nat /\ lastTurn <= hostTurn
    BY DEF HostInv, Shared, DispatchInv, LifecycleInv, LifecycleTypeOK, Turn
  <2>6. hostTurn + 1 >= lastTurn
    BY <2>5
  <2>7. requests[t].phase \in {"charged", "calling"} => calls[t].phase = "idle"
    BY <2>4 DEF HostInv, ThreadOK, Idle
  <2>8. ASSUME requests[t].phase = "dispatching" PROVE calls[t].phase \in Phase \cup {"done"}
    <3>1. CallOK(t)
      BY <2>4, <2>8, InProgressFields DEF ProgressOK
    <3>. QED BY <3>1 DEF CallOK, Call
  <2>9. CanGo(t)
    BY <2>4, <2>6, <2>7, <2>8 DEF CanGo, InProgress
  <2>. QED BY <2>9 DEF t
<1>. QED BY <1>1, HostInvInit, HostInvStep, LockIsLiveInit, LockIsLiveStep, PTL DEF HostSpec

\* A call of the dispatcher never goes back to an earlier phase.
LEMMA DispatchLowersRank ==
  ASSUME HostInv, NEW t \in Thread, DispatchStep(t)
  PROVE  Rank(requests'[t], calls'[t]) < Rank(requests[t], calls[t])
<1>1. requests[t].phase = "dispatching" /\ requests' = requests
  BY DEF DispatchStep, hostOnlyVars
<1>2. calls[t].phase \in Phase
  BY DEF DispatchStep, Resolve, Lookup, LookupFailed, Redeem, RedeemDenied, Invoke, Return, Phase
<1>3. calls[t] \in Call /\ calls \in [Thread -> AnyCall]
  BY <1>1, <1>2, CallFieldsOK
<1>4. ASSUME NEW code, Fail(t, code)
      PROVE  calls'[t].phase = "done"
  BY <1>3, <1>4 DEF Fail, Done
<1>5. Proceed(t) => calls'[t].phase = PhaseAfter(calls[t].phase, calls[t])
  BY <1>3 DEF Proceed, Call
<1>6. \/ calls'[t].phase = "done"
      \/ calls[t].phase = "resolve" /\ calls'[t].phase = "lookup"
      \/ calls[t].phase = "lookup" /\ calls'[t].phase \in {"redeem", "invoke"}
      \/ calls[t].phase = "redeem" /\ calls'[t].phase = "invoke"
      \/ calls[t].phase = "invoke" /\ calls'[t].phase = "running"
  <2>1. CASE Resolve(t)
    <3>1. calls[t].phase = "resolve" /\ (Proceed(t) \/ \E code : Fail(t, code))
      BY <2>1 DEF Resolve
    <3>. QED BY <1>4, <1>5, <3>1 DEF PhaseAfter
  <2>2. CASE Lookup(t)
    <3>1. calls[t].phase = "lookup" /\ calls'[t].phase = PhaseAfter(calls[t].phase, calls[t])
      BY <1>3, <2>2 DEF Lookup, Call
    <3>. QED BY <3>1 DEF PhaseAfter
  <2>3. CASE Redeem(t)
    BY <1>5, <2>3 DEF Redeem, PhaseAfter
  <2>4. CASE LookupFailed(t) \/ RedeemDenied(t) \/ \E code \in Code : Return(t, code)
    BY <1>4, <2>4 DEF LookupFailed, RedeemDenied, Return
  <2>5. CASE Invoke(t)
    BY <1>3, <2>5 DEF Invoke, Call
  <2>. QED BY <2>1, <2>2, <2>3, <2>4, <2>5 DEF DispatchStep
<1>. QED BY <1>1, <1>2, <1>6 DEF Rank, Phase

LEMMA StepLowersRank ==
  ASSUME HostInv, NEW t \in Thread, HostStep(t)
  PROVE  Rank(requests'[t], calls'[t]) < Rank(requests[t], calls[t])
<1>1. CASE DispatchStep(t)
  BY <1>1, DispatchLowersRank
<1>2. CASE Goes(t)
  <2>1. requests'[t].phase \in {"answered", "cancelled"} /\ requests[t].phase \in {"waiting"} \cup InProgress
    BY <1>2, StepAtHead DEF Goes, Present
  <2>. QED BY <2>1 DEF Rank, InProgress
<1>3. CASE ExecuteTakesTurn(t)
  <2>. DEFINE request == [phase |-> "checking", target |-> requests[t].target, turn |-> hostTurn + 1]
  <2>1. requests[t].phase = "waiting" /\ Move(t, request)
    BY <1>3 DEF ExecuteTakesTurn, Waiting, Move
  <2>2. requests'[t] = request
    BY <2>1, MoveAt
  <2>. QED BY <2>1, <2>2 DEF Rank
<1>4. CASE CheckedForResolver(t) \/ CheckedForDispatch(t) \/ IssueGrant(t) \/ Consume(t) \/ CallDispatcher(t)
  <2>1. PICK phase :
           /\ requests' = [requests EXCEPT ![t].phase = phase]
           /\ \/ requests[t].phase = "checking" /\ phase \in {"authorizing", "calling"}
              \/ requests[t].phase = "authorizing" /\ phase = "charging"
              \/ requests[t].phase = "charging" /\ phase = "charged"
              \/ requests[t].phase \in {"charged", "calling"} /\ phase = "dispatching"
    BY <1>4 DEF CheckedForResolver, CheckedForDispatch, CheckedFor, IssueGrant, Consume, CallDispatcher
  <2>2. requests[t] \in [phase : InProgress, target : Target, turn : Nat]
    BY <2>1, InProgressFields DEF InProgress
  <2>3. requests'[t].phase = phase
    BY <2>1, <2>2 DEF HostInv, Shared
  <2>4. phase = "dispatching" => calls'[t].phase = "resolve"
    <3>1. phase = "dispatching" => CallDispatcher(t)
      BY <1>4, <2>1, <2>3 DEF CheckedForResolver, CheckedForDispatch, CheckedFor, IssueGrant, Consume
    <3>2. calls \in [Thread -> AnyCall]
      BY DEF HostInv, DispatchInv, DispatchTypeOK, AnyCall
    <3>. QED BY <3>1, <3>2 DEF CallDispatcher, BeginDispatch
  <2>. QED BY <2>1, <2>3, <2>4 DEF Rank
<1>5. \/ HostActivate(t) \/ HostActivateFailed(t) \/ ExecuteUnknown(t) \/ ExecuteLosesTurn(t)
      \/ \E code \in HostCode : AuthorizeRefused(t, code)
      \/ \E code \in HostCode : ExecuteAnswers(t, code)
      => Goes(t)
  <2>. SUFFICES ASSUME NEW code, AnswersWith(t, code) PROVE Goes(t)
    BY DEF HostActivate, HostActivateFailed, ExecuteUnknown, ExecuteLosesTurn, AuthorizeRefused, ExecuteAnswers
  <2>1. Move(t, Answer(code, Charged(t))) /\ Answer(code, Charged(t)).phase = "answered" /\ LeaveQueue(t)
    BY DEF AnswersWith, Answer, Move
  <2>. QED BY <2>1, PresentMoves DEF Goes
<1>. QED BY <1>1, <1>2, <1>3, <1>4, <1>5 DEF HostStep

\* Nobody is ahead of a task that was not ahead of it already.
LEMMA NobodyPasses ==
  ASSUME HostInv, [HostNext]_hostVars, NEW t \in Present, t \in Present'
  PROVE  Ahead(t)' \subseteq Ahead(t)
<1>0. turnQueue \in Seq(Thread) /\ Len(turnQueue) \in Nat
  BY DEF HostInv, Shared
<1>1. CASE Stays
  BY <1>1 DEF Stays, Ahead
<1>. SUFFICES ASSUME NEW k \in 1 .. Len(turnQueue'), NEW j \in k + 1 .. Len(turnQueue'), turnQueue'[j] = t,
                     ~Stays
              PROVE  turnQueue'[k] \in Ahead(t)
  BY <1>1 DEF Ahead
<1>2. ASSUME NEW a \in 1 .. Len(turnQueue), NEW b \in 1 .. Len(turnQueue), a < b,
             turnQueue[a] = turnQueue'[k], turnQueue[b] = t
      PROVE  turnQueue'[k] \in Ahead(t)
  BY <1>0, <1>2 DEF Ahead
<1>3. ASSUME NEW u \in Thread, Comes(u)
      PROVE  turnQueue'[k] \in Ahead(t)
  <2>1. /\ Len(turnQueue') = Len(turnQueue) + 1 /\ turnQueue'[Len(turnQueue) + 1] = u
        /\ \A i \in 1 .. Len(turnQueue) : turnQueue'[i] = turnQueue[i]
    BY <1>0, <1>3 DEF Comes
  <2>2. j <= Len(turnQueue)
    BY <1>0, <1>3, <2>1 DEF Comes
  <2>3. j \in 1 .. Len(turnQueue) /\ k \in 1 .. Len(turnQueue) /\ k < j
    BY <1>0, <2>1, <2>2
  <2>4. turnQueue[k] = turnQueue'[k] /\ turnQueue[j] = t
    BY <2>1, <2>3
  <2>. QED BY <1>2, <2>3, <2>4
<1>4. ASSUME NEW u \in Thread, Goes(u)
      PROVE  turnQueue'[k] \in Ahead(t)
  <2>1. PICK i \in 1 .. Len(turnQueue) : turnQueue[i] = u /\ turnQueue' = Without(turnQueue, i)
    BY <1>4 DEF Goes, LeaveQueue
  <2>2. /\ Len(turnQueue') = Len(turnQueue) - 1
        /\ \A n \in 1 .. Len(turnQueue) - 1 :
              turnQueue'[n] = IF n < i THEN turnQueue[n] ELSE turnQueue[n + 1]
    BY <1>0, <2>1, WithoutAt
  <2>. DEFINE a == IF k < i THEN k ELSE k + 1
              b == IF j < i THEN j ELSE j + 1
  <2>3. /\ a \in 1 .. Len(turnQueue) /\ b \in 1 .. Len(turnQueue) /\ a < b
        /\ k \in 1 .. Len(turnQueue) - 1 /\ j \in 1 .. Len(turnQueue) - 1
    BY <1>0, <2>2
  <2>4. turnQueue[a] = turnQueue'[k] /\ turnQueue[b] = t
    BY <2>2, <2>3
  <2>. QED BY <1>2, <2>3, <2>4
<1>. QED BY <1>3, <1>4, LineSteps

\* The other tasks do not move the request or the call of t.
LEMMA OthersLeaveIt ==
  ASSUME HostInv, [HostNext]_hostVars, NEW t \in Thread,
         ~(HostStep(t) \/ Arrives(t) \/ CancelWaiting(t) \/ CancelAwaiting(t))
  PROVE  requests'[t] = requests[t] /\ calls'[t] = calls[t]
<1>1. CASE UNCHANGED hostVars \/ Embedder
  BY <1>1 DEF Embedder, Register, Unregister, Bind, Unbind, hostVars, hostOnlyVars, allVars, dispatchVars
<1>2. ASSUME NEW u \in Thread \ {t}, HostStep(u) \/ Arrives(u) \/ CancelWaiting(u) \/ CancelAwaiting(u)
      PROVE  requests'[t] = requests[t] /\ calls'[t] = calls[t]
  <2>1. requests'[t] = requests[t]
    <3>1. requests = [v \in Thread |-> requests[v]]
      BY DEF HostInv, Shared
    <3>2. requests' = requests \/ \E request : requests' = [requests EXCEPT ![u] = request]
      BY <1>2 DEF HostStep, HostActivate, HostActivateFailed, ExecuteUnknown, ExecuteTakesTurn, ExecuteLosesTurn,
                  CheckedForResolver, CheckedForDispatch, CheckedFor, IssueGrant, Consume,
                  AuthorizeRefused, CallDispatcher, DispatchStep, ExecuteAnswers, AnswersWith,
                  Arrives, Submit, CancelWaiting, CancelAwaiting, Abandon, hostOnlyVars
    <3>. QED BY <3>1, <3>2
  <2>2. calls'[t] = calls[t]
    <3>1. calls \in [Thread -> AnyCall]
      BY DEF HostInv, DispatchInv, DispatchTypeOK, AnyCall
    <3>2. calls' = calls \/ \E call : calls' = [calls EXCEPT ![u] = call]
      BY <1>2 DEF HostStep, HostActivate, HostActivateFailed, ExecuteUnknown, ExecuteTakesTurn, ExecuteLosesTurn,
                  CheckedForResolver, CheckedForDispatch, CheckedFor, IssueGrant, Consume,
                  AuthorizeRefused, CallDispatcher, DispatchStep, ExecuteAnswers,
                  Arrives, Submit, CancelWaiting, CancelAwaiting, allVars, dispatchVars,
                  BeginDispatch, Resolve, Lookup, LookupFailed, Redeem, RedeemDenied, Invoke, Return,
                  Proceed, Fail, Cancel
    <3>. QED BY <3>1, <3>2
  <2>. QED BY <2>1, <2>2
<1>. QED BY <1>1, <1>2 DEF HostNext

\* Every step of a task brings it nearer to its answer, and what the others do
\* takes it no further away: no request can go on for ever, and none can be
\* overtaken for ever.
THEOREM RequestsAlwaysRunDown == HostSpec => RequestsRunDown
<1>1. ASSUME HostInv, [HostNext]_hostVars, NEW t \in Present
      PROVE  /\ HostStep(t) => Rank(requests'[t], calls'[t]) < Rank(requests[t], calls[t])
             /\ \/ requests'[t].phase \in {"answered", "cancelled"}
                \/ /\ Ahead(t)' \subseteq Ahead(t)
                   /\ HostStep(t) \/ Rank(requests'[t], calls'[t]) = Rank(requests[t], calls[t])
  <2>1. t \in Thread /\ requests[t] # NoRequest
    BY <1>1 DEF Present, NoRequest, InProgress
  <2>2. HostStep(t) => Rank(requests'[t], calls'[t]) < Rank(requests[t], calls[t])
    BY <1>1, <2>1, StepLowersRank
  <2>3. ~Arrives(t)
    BY <2>1 DEF Arrives, Submit
  <2>4. t \in Present' \/ requests'[t].phase \in {"answered", "cancelled"}
    BY <1>1, LineSteps DEF Stays, Comes, Goes
  <2>5. CASE HostStep(t)
    BY <1>1, <2>2, <2>4, <2>5, NobodyPasses
  <2>6. CASE CancelWaiting(t) \/ CancelAwaiting(t)
    <3>1. Move(t, [phase |-> "cancelled"])
      BY <2>6 DEF CancelWaiting, CancelAwaiting, Abandon, Move
    <3>2. requests'[t].phase = "cancelled"
      BY <1>1, <2>1, <3>1, MoveAt
    <3>. QED BY <2>2, <3>2
  <2>7. CASE ~(HostStep(t) \/ CancelWaiting(t) \/ CancelAwaiting(t))
    BY <1>1, <2>1, <2>3, <2>4, <2>7, OthersLeaveIt, NobodyPasses
  <2>. QED BY <2>5, <2>6, <2>7
<1>2. HostInv /\ [HostNext]_hostVars =>
        [\A t \in Present :
           /\ HostStep(t) => Rank(requests'[t], calls'[t]) < Rank(requests[t], calls[t])
           /\ \/ requests'[t].phase \in {"answered", "cancelled"}
              \/ /\ Ahead(t)' \subseteq Ahead(t)
                 /\ HostStep(t) \/ Rank(requests'[t], calls'[t]) = Rank(requests[t], calls[t])]_hostVars
  BY <1>1
<1>. QED BY <1>2, HostInvInit, HostInvStep, PTL DEF HostSpec, RequestsRunDown
=============================================================================
