---------------------------- MODULE PolicyEngine ----------------------------
(***************************************************************************)
(* The durable authorization runtime of policy.py: plans, approvals,       *)
(* grants, quota usage and the owner-separated audit log of one SQLite     *)
(* database, used concurrently by several callers.  A caller is a thread   *)
(* of one of the processes that opened the database; BEGIN IMMEDIATE makes *)
(* each transaction one step, and everything an operation does outside its *)
(* transaction (argument checks, the read of the trusted clock, the        *)
(* separate transaction that records a denial) is a step of its own.       *)
(***************************************************************************)
EXTENDS Integers, Sequences, FiniteSetsExt

CONSTANTS
    Caller,      \* threads of the processes that share the database
    Owner,       \* owner references
    Scope,       \* registration + capability + input digest, as one value
    Tier,        \* Tier[s]: the effect tier the manifest declares for s
    Target,      \* capability details as callers present them [scope, tier]
    Permission,  \* exact permissions
    Kind,        \* quota kinds
    Request,     \* dispatch requests    [id, owner, scope]
    Plan,        \* operation plans      [id, owner, scope, tier, perms]
    PlanObject,  \* plans as approve is shown them [plan, owner, required]
    Policy,      \* policy snapshots     [id, owner, perms, limit]
    Approval,    \* approval records     [plan, owner, strength, from, until]
    Charges,     \* charge lists, see ChargeList
    None,        \* Python's None
    Grant,       \* the grants that issue_grant is asked for, see GrantRecord
    LegacyGrants,\* grants a version-1 database may hold when it is first opened
    MaxTime,     \* bound on the trusted clock
    MaxDenials   \* MaxDenials[o]: bound on the denials that o's log holds

EffectTier == {"R0", "R1", "R2", "R3", "R4"}
Time == 0 .. MaxTime

(***************************************************************************)
(* A charge list is what the code reads of it, per kind: the largest       *)
(* single charge and the sum of the charges.  The two differ exactly when  *)
(* the list names a kind more than once.  A kind that a policy does not    *)
(* list has limit 0 here: charges are positive, so both refuse it.         *)
(***************************************************************************)
ChargeList ==
    {c \in [Kind -> [largest : Nat, total : Nat]] :
        \A k \in Kind : c[k].largest <= c[k].total /\ (c[k].largest = 0 => c[k].total = 0)}

RequestRecord  == [id : STRING, owner : Owner, scope : Scope]
TargetRecord   == [scope : Scope, tier : EffectTier]
PlanRecord     == [id : STRING, owner : Owner, scope : Scope, tier : EffectTier,
                   perms : SUBSET Permission]
PolicyRecord   == [id : STRING, owner : Owner, perms : SUBSET Permission,
                   limit : [Kind -> Nat]]
Strength       == {"standard", "strong"}
ApprovalRecord == {a \in [plan : Plan, owner : Owner, strength : Strength,
                          from : Time, until : Nat] : a.from < a.until}

(***************************************************************************)
(* An operation trusts some of what its caller hands it.  A target's tier  *)
(* is never compared with a manifest, and approve reads the owner and the  *)
(* confirmation kind of the plan object in its hand: only the reference of *)
(* that object must be a stored plan's.                                    *)
(***************************************************************************)
PlanObjectRecord == [plan : Plan, owner : Owner, required : Strength \cup {"none"}]

\* The content a grant reference is the digest of (the owner and the input
\* digest follow from the request); the tier is the presented target's.
GrantRecord ==
    [request : Request, plan : Plan, policy : Policy, tier : {t.tier : t \in Target},
     approval : Approval \cup {None}, charges : Charges]

\* "absent" is a version-1 row: that table has no receipt_state column.
ReceiptState == {"absent", "pending", "available", "redeemed", "legacy-closed"}
GrantRow == [consumed : BOOLEAN, state : ReceiptState]

ASSUME ConstantsAssumption ==
    /\ Tier \in [Scope -> EffectTier]
    /\ Request \subseteq RequestRecord
    /\ Target \subseteq TargetRecord
    /\ Plan \subseteq PlanRecord
    /\ PlanObject \subseteq PlanObjectRecord
    /\ Policy \subseteq PolicyRecord
    /\ Approval \subseteq ApprovalRecord
    /\ Charges \subseteq ChargeList
    /\ Grant \subseteq GrantRecord /\ LegacyGrants \subseteq Grant
    /\ None \notin Approval /\ None \notin Grant /\ None \notin Time
    /\ MaxTime \in Nat /\ MaxDenials \in [Owner -> Nat]

VARIABLES
    version,    \* PRAGMA user_version
    plans,      \* rows of table plans
    approvals,  \* table approvals: record -> used_grant_ref
    grants,     \* table grants: grant -> row
    usage,      \* table quota_usage: policy digest -> kind -> used
    audit,      \* table audit_events: owner -> sequence of events
    clock,      \* the trusted clock
    open,       \* callers whose engine has the store open
    op          \* what each caller has in progress

dbVars == <<version, plans, approvals, grants, usage, audit>>
vars == <<version, plans, approvals, grants, usage, audit, clock, open, op>>

Idle == [kind |-> "idle"]

\* The trusted clock is read for a grant that has an approval.
Pending(kind, g) ==
    [kind |-> kind, grant |-> g, now |-> IF g.approval = None THEN None ELSE clock]
Denying(owner) == [kind |-> "deny", owner |-> owner]

-----------------------------------------------------------------------------
(* The audit log.  Sequence numbers and hash links are positions here.     *)

EventType == {"plan-created", "approval-recorded", "grant-issued",
              "grant-consumed", "receipt-redeemed", "authorization-denied"}
EventRecord == [type : EventType, subject : Plan \cup Approval \cup Grant \cup {None}]
Event(type, subject) == [type |-> type, subject |-> subject]

AuditAppend(owner, type, subject) ==
    audit' = [audit EXCEPT ![owner] = Append(@, Event(type, subject))]

Occurrences(owner, type, subject) ==
    {i \in 1 .. Len(audit[owner]) : audit[owner][i] = Event(type, subject)}

DenialCount(owner) ==
    Len(SelectSeq(audit[owner], LAMBDA e : e.type = "authorization-denied"))

-----------------------------------------------------------------------------
(* What the constants say of a call's arguments, and what a transaction    *)
(* reads of the tables.                                                    *)

NeedsApproval(tier) == tier \in {"R2", "R3", "R4"}

\* What create_plan writes into a plan's document as its confirmation kind.
KindFor(tier) ==
    IF tier = "R4" THEN "strong" ELSE IF NeedsApproval(tier) THEN "standard" ELSE "none"

\* The plan object an approval is asked for, and the strengths its document accepts.
Presents(d, a) == a.plan = d.plan /\ a.owner = d.owner
SatisfiesAny(strength, d) == d.required # "none"
Satisfies(strength, d) ==
    /\ d.required # "none"
    /\ d.required = "strong" => strength = "strong"

Active(approval, at) == approval.from <= at /\ at < approval.until

WithinPolicy(charges, policy) ==
    \A k \in Kind : charges[k].total <= policy.limit[k]

\* The checks of issue_grant that precede its transaction.
IssueAllowed(g, target, now) ==
    /\ g.request.owner = g.policy.owner
    /\ g.plan.owner = g.request.owner
    /\ g.plan.scope = g.request.scope
    /\ target.scope = g.request.scope /\ target.tier = g.tier
    /\ g.plan.perms \subseteq g.policy.perms
    /\ IF NeedsApproval(target.tier)
         THEN /\ g.approval # None
              /\ g.approval.plan = g.plan /\ g.approval.owner = g.request.owner
              /\ Active(g.approval, now)
         ELSE g.approval = None
    /\ WithinPolicy(g.charges, g.policy)

\* What issue_grant's transaction requires of the tables.
IssuableReusing(g, now) ==
    /\ g.plan \in plans
    /\ g.approval # None => g.approval \in DOMAIN approvals /\ Active(g.approval, now)
    /\ g \notin DOMAIN grants
Issuable(g, now) ==
    /\ g.plan \in plans
    /\ g.approval # None =>
          /\ g.approval \in DOMAIN approvals
          /\ Active(g.approval, now)
          /\ approvals[g.approval] = None
    /\ g \notin DOMAIN grants

\* _assert_binding: a grant or receipt presented with a request, a target and a policy.
Binds(g, request, target, policy) ==
    /\ g.request = request /\ g.policy = policy
    /\ target.scope = request.scope /\ target.tier = g.tier

ApprovalActive(g, at) ==
    g.approval # None => g.approval \in DOMAIN approvals /\ Active(g.approval, at)

\* consume compares each charge on its own with what the policy has left.
QuotaUnread(g) ==
    \A k \in Kind : g.charges[k].largest <= g.policy.limit[k]
QuotaLeft(g) ==
    \A k \in Kind : g.charges[k].largest > 0 =>
        usage[g.policy][k] + g.charges[k].largest <= g.policy.limit[k]

\* The charges of a list are added one after another.
ReservedLast(g) ==
    [usage EXCEPT ![g.policy] = [k \in Kind |->
        IF g.charges[k].total > 0 THEN g.charges[k].total ELSE @[k]]]
Reserved(g) ==
    [usage EXCEPT ![g.policy] = [k \in Kind |-> @[k] + g.charges[k].total]]

Consumable(g, now) ==
    /\ g \in DOMAIN grants
    /\ ~grants[g].consumed /\ grants[g].state = "pending"
    /\ ApprovalActive(g, now)
    /\ QuotaLeft(g)

RedeemableAgain(g, now) ==
    g \in DOMAIN grants /\ grants[g].consumed /\ ApprovalActive(g, now)
Redeemable(g, now) ==
    /\ g \in DOMAIN grants
    /\ grants[g].consumed /\ grants[g].state = "available"
    /\ ApprovalActive(g, now)

-----------------------------------------------------------------------------
(* The initial store: none yet, or one the previous release left with one  *)
(* grant in it, consumed or not.                                           *)

NewStore ==
    /\ version = 0
    /\ plans = {}
    /\ approvals = <<>>
    /\ grants = <<>>
    /\ usage = [p \in Policy |-> [k \in Kind |-> 0]]
    /\ audit = [o \in Owner |-> <<>>]

LegacyLog(g, consumed) ==
    <<Event("plan-created", g.plan)>>
    \o (IF g.approval = None THEN <<>> ELSE <<Event("approval-recorded", g.approval)>>)
    \o <<Event("grant-issued", g)>>
    \o (IF consumed THEN <<Event("grant-consumed", g)>> ELSE <<>>)

LegacyStore(g, consumed) ==
    /\ version = 1
    /\ plans = {g.plan}
    /\ approvals = [a \in {g.approval} \ {None} |-> g]
    /\ grants = [h \in {g} |-> [consumed |-> consumed, state |-> "absent"]]
    /\ usage = [p \in Policy |-> [k \in Kind |->
                   IF p = g.policy /\ consumed THEN g.charges[k].total ELSE 0]]
    /\ audit = [o \in Owner |->
                   IF o = g.request.owner THEN LegacyLog(g, consumed) ELSE <<>>]

\* The target a plan is created for gives the plan its scope and its tier.
Describes(target, plan) == plan.scope = target.scope /\ plan.tier = target.tier

LegacyIssuable(g) ==
    /\ \E target \in Target, now \in Time : IssueAllowed(g, target, now)
    /\ \E target \in Target : Describes(target, g.plan)
    /\ g.approval # None =>
          \E d \in PlanObject : Presents(d, g.approval) /\ Satisfies(g.approval.strength, d)

Init ==
    /\ \/ NewStore
       \/ \E g \in LegacyGrants, consumed \in BOOLEAN :
             LegacyIssuable(g) /\ LegacyStore(g, consumed)
    /\ clock = 0
    /\ open = {}
    /\ op = [c \in Caller |-> Idle]

-----------------------------------------------------------------------------
(* Opening, closing and the clock.                                         *)

\* The migration marks every consumed version-1 receipt closed, in the one
\* transaction that sets user_version.
MigratedOpen(row) ==
    [row EXCEPT !.state = IF row.consumed THEN "available" ELSE "pending"]
Migrated(row) ==
    [row EXCEPT !.state = IF row.consumed THEN "legacy-closed" ELSE "pending"]

Open(c) ==
    /\ c \notin open
    /\ open' = open \cup {c}
    /\ version' = 2
    /\ grants' = IF version = 1
                   THEN [g \in DOMAIN grants |-> Migrated(grants[g])]
                   ELSE grants
    /\ UNCHANGED <<plans, approvals, usage, audit, clock, op>>

\* The caller's process stops; SQLite rolls back what it had not committed.
Crash(c) ==
    /\ c \in open
    /\ open' = open \ {c}
    /\ op' = [op EXCEPT ![c] = Idle]
    /\ UNCHANGED <<dbVars, clock>>

\* datetime.now(UTC) is a wall clock: it may be set forward or back.
ClockMoves ==
    /\ clock' \in Time \ {clock}
    /\ UNCHANGED <<dbVars, open, op>>

Ready(c) == c \in open /\ op[c] = Idle

-----------------------------------------------------------------------------
(* create_plan and approve read no tables and no clock before they begin   *)
(* their transaction.  A repeated plan is returned unchanged; a repeated   *)
(* approval, or one whose plan is not stored, fails its constraint.        *)

CreatePlan(c, request, target, plan) ==
    /\ Ready(c)
    /\ target.scope = request.scope
    /\ plan.owner = request.owner /\ Describes(target, plan)
    /\ plan \notin plans
    /\ plans' = plans \cup {plan}
    /\ AuditAppend(request.owner, "plan-created", plan)
    /\ UNCHANGED <<version, approvals, grants, usage, clock, open, op>>

Approve(c, a, d) ==
    /\ Ready(c)
    /\ Presents(d, a) /\ Satisfies(a.strength, d)
    /\ a.plan \in plans
    /\ a \notin DOMAIN approvals
    /\ approvals' = [b \in DOMAIN approvals \cup {a} |->
                        IF b = a THEN None ELSE approvals[b]]
    /\ AuditAppend(d.owner, "approval-recorded", a)
    /\ UNCHANGED <<version, plans, grants, usage, clock, open, op>>

ApproveRefused(c, a, d) ==
    /\ Ready(c)
    /\ Presents(d, a) /\ ~Satisfies(a.strength, d)
    /\ op' = [op EXCEPT ![c] = Denying(d.owner)]
    /\ UNCHANGED <<dbVars, clock, open>>

-----------------------------------------------------------------------------
(* issue_grant, consume and redeem_receipt: a call checks its arguments    *)
(* and reads the trusted clock, a later transaction decides.               *)

Begin(c, kind, g, allowed, owner) ==
    /\ Ready(c)
    /\ op' = [op EXCEPT ![c] =
                 IF allowed THEN Pending(kind, g) ELSE Denying(owner)]
    /\ UNCHANGED <<dbVars, clock, open>>

IssueCall(c, g, target) ==
    g.tier = target.tier /\ Begin(c, "issue", g, IssueAllowed(g, target, clock), g.request.owner)

ConsumeCall(c, g, request, target, policy) ==
    Begin(c, "consume", g, Binds(g, request, target, policy), request.owner)

RedeemCall(c, g, request, target, policy) ==
    Begin(c, "redeem", g, Binds(g, request, target, policy), request.owner)

Running(c, kind) == c \in open /\ op[c].kind = kind

Finish(c) == op' = [op EXCEPT ![c] = Idle]

IssueGrant(c) ==
    /\ Running(c, "issue")
    /\ LET g == op[c].grant IN
         /\ Issuable(g, op[c].now)
         /\ grants' = [h \in DOMAIN grants \cup {g} |->
                IF h = g THEN [consumed |-> FALSE, state |-> "pending"] ELSE grants[h]]
         /\ approvals' = [a \in DOMAIN approvals |->
                IF a = g.approval THEN g ELSE approvals[a]]
         /\ AuditAppend(g.request.owner, "grant-issued", g)
    /\ Finish(c)
    /\ UNCHANGED <<version, plans, usage, clock, open>>

Consume(c) ==
    /\ Running(c, "consume")
    /\ LET g == op[c].grant IN
         /\ Consumable(g, op[c].now)
         /\ grants' = [grants EXCEPT ![g] = [@ EXCEPT !.consumed = TRUE, !.state = "available"]]
         /\ usage' = Reserved(g)
         /\ AuditAppend(g.request.owner, "grant-consumed", g)
    /\ Finish(c)
    /\ UNCHANGED <<version, plans, approvals, clock, open>>

RedeemReceipt(c) ==
    /\ Running(c, "redeem")
    /\ LET g == op[c].grant IN
         /\ Redeemable(g, op[c].now)
         /\ grants' = [grants EXCEPT ![g] = [@ EXCEPT !.state = "redeemed"]]
         /\ AuditAppend(g.request.owner, "receipt-redeemed", g)
    /\ Finish(c)
    /\ UNCHANGED <<version, plans, approvals, usage, clock, open>>

\* A transaction that fails rolls back; the denial is recorded in another one.
Refuse(c) ==
    /\ \/ Running(c, "issue") /\ ~Issuable(op[c].grant, op[c].now)
       \/ Running(c, "consume") /\ ~Consumable(op[c].grant, op[c].now)
       \/ Running(c, "redeem") /\ ~Redeemable(op[c].grant, op[c].now)
    /\ op' = [op EXCEPT ![c] = Denying(op[c].grant.request.owner)]
    /\ UNCHANGED <<dbVars, clock, open>>

\* verify_receipt changes nothing when it accepts; it does not look at the approval.
VerifyRefused(c, g, request, target, policy) ==
    /\ Ready(c)
    /\ ~(Binds(g, request, target, policy) /\ grants[g].consumed
           /\ grants[g].state = "available")
    /\ op' = [op EXCEPT ![c] = Denying(request.owner)]
    /\ UNCHANGED <<dbVars, clock, open>>

\* BEGIN IMMEDIATE gives up after busy_timeout: the call fails and records nothing.
Busy(c) ==
    /\ c \in open /\ op[c] # Idle
    /\ Finish(c)
    /\ UNCHANGED <<dbVars, clock, open>>

\* _record_denial; MaxDenials bounds the log.
RecordDenial(c) ==
    /\ Running(c, "deny")
    /\ DenialCount(op[c].owner) < MaxDenials[op[c].owner]
    /\ AuditAppend(op[c].owner, "authorization-denied", None)
    /\ Finish(c)
    /\ UNCHANGED <<version, plans, approvals, grants, usage, clock, open>>

-----------------------------------------------------------------------------
\* Grants and receipts that callers hold: those some engine has issued.
Held == DOMAIN grants

Next ==
    \/ ClockMoves
    \/ \E c \in Caller :
          \/ Open(c)
          \/ Crash(c)
          \/ \E r \in Request, t \in Target, p \in Plan : CreatePlan(c, r, t, p)
          \/ \E a \in Approval, d \in PlanObject : Approve(c, a, d) \/ ApproveRefused(c, a, d)
          \/ \E g \in Grant, t \in Target : IssueCall(c, g, t)
          \/ \E g \in Held, r \in Request, t \in Target, p \in Policy :
                \/ ConsumeCall(c, g, r, t, p)
                \/ RedeemCall(c, g, r, t, p)
                \/ VerifyRefused(c, g, r, t, p)
          \/ IssueGrant(c) \/ Consume(c) \/ RedeemReceipt(c)
          \/ Refuse(c) \/ RecordDenial(c) \/ Busy(c)

Spec == Init /\ [][Next]_vars

-----------------------------------------------------------------------------
(* Properties.                                                             *)

Operation ==
    {Idle}
    \cup [kind : {"issue", "consume", "redeem"}, grant : Grant, now : Time \cup {None}]
    \cup [kind : {"deny"}, owner : Owner]

\* Every variable has the shape of its table, and version 2 rows have a state.
TypeOK ==
    /\ version \in 0 .. 2
    /\ plans \subseteq Plan
    /\ DOMAIN approvals \subseteq Approval
    /\ approvals \in [DOMAIN approvals -> Grant \cup {None}]
    /\ DOMAIN grants \subseteq Grant
    /\ grants \in [DOMAIN grants -> GrantRow]
    /\ usage \in [Policy -> [Kind -> Nat]]
    /\ audit \in [Owner -> Seq(EventRecord)]
    /\ clock \in Time
    /\ open \subseteq Caller
    /\ op \in [Caller -> Operation]
    /\ open # {} => version = 2
    /\ version = 0 => DOMAIN grants = {}
    /\ \A g \in DOMAIN grants : grants[g].state = "absent" <=> version = 1

\* However many callers race to use it, an approval stands behind at most one
\* grant: the one its row names as used_grant_ref (issue_grant's transaction).
ApprovalSingleUse ==
    /\ \A g, h \in DOMAIN grants : g.approval # None /\ g.approval = h.approval => g = h
    /\ \A a \in DOMAIN approvals : approvals[a] # None =>
          approvals[a] \in DOMAIN grants /\ approvals[a].approval = a

(***************************************************************************)
(* Callers are honest when the targets they present carry the tier of      *)
(* their manifest, and the plan objects they have approved are what        *)
(* create_plan returned.                                                   *)
(***************************************************************************)
HonestCallers ==
    /\ \A t \in Target : t.tier = Tier[t.scope]
    /\ \A d \in PlanObject : d.owner = d.plan.owner /\ d.required = KindFor(d.plan.tier)

\* Between honest callers no effectful grant exists without the stored plan it
\* was made for and, when its manifest says R2 or more, a stored approval of that
\* plan, strong for R4; and what it is for is what its plan and policy allow.
GrantsAreAuthorized ==
    \A g \in DOMAIN grants :
        /\ g.plan \in plans
        /\ g.plan.owner = g.request.owner /\ g.plan.scope = g.request.scope
        /\ g.policy.owner = g.request.owner /\ g.plan.perms \subseteq g.policy.perms
        /\ WithinPolicy(g.charges, g.policy)
        /\ IF NeedsApproval(Tier[g.request.scope])
             THEN /\ g.approval \in DOMAIN approvals
                  /\ g.approval.plan = g.plan
                  /\ Tier[g.request.scope] = "R4" => g.approval.strength = "strong"
             ELSE g.approval = None

\* docs/runtime.md: "R4 requires strong confirmation".  No grant for an effect its
\* manifest puts in R4 rests on a standard approval, whatever approve was shown.
StronglyConfirmed ==
    \A g \in DOMAIN grants :
        Tier[g.request.scope] = "R4" => g.approval # None /\ g.approval.strength = "strong"

\* Concurrent consumption never reserves more of a quota than the policy grants.
QuotaHeld ==
    \A p \in Policy, k \in Kind : usage[p][k] <= p.limit[k]

\* With a kind named twice a quota may be overrun once, but not by as much again.
OverrunBounded ==
    \A p \in Policy, k \in Kind :
        usage[p][k] <= p.limit[k] \/ usage[p][k] < 2 * p.limit[k]

\* Usage is exactly what the consumed grants were charged, however consumptions
\* interleave, crash or cross the migration: nothing is lost, nothing counted twice.
QuotaAccounted ==
    \A p \in Policy, k \in Kind :
        usage[p][k] = MapThenSumSet(LAMBDA g : g.charges[k].total,
                          {g \in DOMAIN grants : g.policy = p /\ grants[g].consumed})

\* The audit log and the tables never disagree, whatever crashes: each table row
\* has exactly its events, each at most once, in the order of the life it had.
Logged(owner, type, subject, happened) ==
    IF happened THEN \E i \in 1 .. Len(audit[owner]) : Occurrences(owner, type, subject) = {i}
                ELSE Occurrences(owner, type, subject) = {}

Precedes(owner, type1, subject1, type2, subject2) ==
    \A i \in Occurrences(owner, type1, subject1), j \in Occurrences(owner, type2, subject2) : i < j

AuditMatchesTables ==
    /\ \A p \in Plan : Logged(p.owner, "plan-created", p, p \in plans)
    /\ \A a \in Approval :
          /\ Logged(a.owner, "approval-recorded", a, a \in DOMAIN approvals)
          /\ Precedes(a.owner, "plan-created", a.plan, "approval-recorded", a)
    /\ \A g \in Grant : LET o == g.request.owner
                            stored == g \in DOMAIN grants IN
          /\ Logged(o, "grant-issued", g, stored)
          /\ Logged(o, "grant-consumed", g, stored /\ grants[g].consumed)
          /\ Logged(o, "receipt-redeemed", g, stored /\ grants[g].state = "redeemed")
          /\ Precedes(o, "plan-created", g.plan, "grant-issued", g)
          /\ Precedes(o, "approval-recorded", g.approval, "grant-issued", g)
          /\ Precedes(o, "grant-issued", g, "grant-consumed", g)
          /\ Precedes(o, "grant-consumed", g, "receipt-redeemed", g)

\* A receipt only ever moves forward: a grant is consumed once, its receipt is
\* redeemed once, and one a version-1 store had already handed out stays closed.
ReceiptStep(old, new) ==
    \/ new = old
    \/ /\ old.state = "absent"
       /\ new = [old EXCEPT !.state = IF old.consumed THEN "legacy-closed" ELSE "pending"]
    \/ old.state = "pending" /\ ~old.consumed /\ new.state = "available" /\ new.consumed
    \/ old.state = "available" /\ new.state = "redeemed" /\ new.consumed

ReceiptsMoveForward ==
    [][\A g \in DOMAIN grants : g \in DOMAIN grants' /\ ReceiptStep(grants[g], grants'[g])]_grants

(***************************************************************************)
(* The engine implements EffectAuthority: a receipt that a version-1 store *)
(* handed out counts as released, because nobody knows whether it was.     *)
(***************************************************************************)
Released(row) ==
    row.consumed /\ row.state \in {"absent", "legacy-closed", "redeemed"}

Authority == INSTANCE EffectAuthority WITH
    NoApproval <- None,
    granted <- DOMAIN grants,
    paid <- {g \in DOMAIN grants : grants[g].consumed},
    released <- {g \in DOMAIN grants : Released(grants[g])},
    left <- [p \in Policy |-> [k \in Kind |-> p.limit[k] - usage[p][k]]]

\* Transactions, crashes, racing callers, refusals and the migration together
\* do only what EffectAuthority allows (issue_grant, consume, redeem_receipt).
ImplementsAuthority == Authority!Spec
=============================================================================
