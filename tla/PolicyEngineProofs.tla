------------------------- MODULE PolicyEngineProofs -------------------------
(* Theorems about PolicyEngine, for every value of its constants.          *)
EXTENDS PolicyEngine, TLAPS, FiniteSetTheorems

-----------------------------------------------------------------------------
(* Facts about the constants and about what a caller has in progress.      *)

LEMMA GrantFacts ==
    ASSUME NEW g \in Grant
    PROVE  /\ g.request \in Request /\ g.plan \in Plan /\ g.policy \in Policy
           /\ g.approval \in Approval \cup {None} /\ g.charges \in Charges
           /\ g.request.owner \in Owner
           /\ \A k \in Kind : g.charges[k].total \in Nat /\ g.charges[k].largest \in Nat
           /\ g.policy.limit \in [Kind -> Nat]
           /\ g.approval # None => g.approval \in Approval
           /\ g # None
<1>1. /\ g.request \in Request /\ g.plan \in Plan /\ g.policy \in Policy
      /\ g.approval \in Approval \cup {None} /\ g.charges \in Charges
  BY ConstantsAssumption DEF GrantRecord
<1>2. g.request.owner \in Owner
  BY <1>1, ConstantsAssumption DEF RequestRecord
<1>3. \A k \in Kind : g.charges[k].total \in Nat /\ g.charges[k].largest \in Nat
  BY <1>1, ConstantsAssumption DEF ChargeList
<1>4. g.policy.limit \in [Kind -> Nat]
  BY <1>1, ConstantsAssumption DEF PolicyRecord
<1>. QED  BY <1>1, <1>2, <1>3, <1>4, ConstantsAssumption

LEMMA RunningFacts ==
    ASSUME TypeOK, NEW c \in Caller, NEW k \in {"issue", "consume", "redeem"},
           Running(c, k)
    PROVE  op[c].grant \in Grant /\ version = 2
<1>1. op[c] \in Operation /\ op[c].kind = k /\ version = 2
  BY DEF TypeOK, Running
<1>. QED  BY <1>1 DEF Operation, Idle

LEMMA DenyFacts ==
    ASSUME TypeOK, NEW c \in Caller, Running(c, "deny")
    PROVE  op[c].owner \in Owner /\ version = 2
<1>1. op[c] \in Operation /\ op[c].kind = "deny" /\ version = 2
  BY DEF TypeOK, Running
<1>. QED  BY <1>1 DEF Operation, Idle

LEMMA AppendType ==
    ASSUME audit \in [Owner -> Seq(EventRecord)], NEW o \in Owner,
           NEW t \in EventType, NEW s \in Plan \cup Approval \cup Grant \cup {None},
           AuditAppend(o, t, s)
    PROVE  audit' \in [Owner -> Seq(EventRecord)]
<1>1. Event(t, s) \in EventRecord
  BY DEF Event, EventRecord
<1>2. Append(audit[o], Event(t, s)) \in Seq(EventRecord)
  BY <1>1
<1>. QED  BY <1>2 DEF AuditAppend

LEMMA PlanFacts ==
    ASSUME NEW p \in Plan
    PROVE  p.owner \in Owner
  BY ConstantsAssumption DEF PlanRecord

LEMMA ApprovalFacts ==
    ASSUME NEW a \in Approval
    PROVE  a.plan \in Plan /\ a.owner \in Owner /\ a # None
  BY ConstantsAssumption DEF ApprovalRecord

-----------------------------------------------------------------------------
(* Type correctness.                                                       *)

LEMMA InitType == Init => TypeOK
<1>. SUFFICES ASSUME Init PROVE TypeOK
  OBVIOUS
<1>1. clock \in Time /\ open = {} /\ op \in [Caller -> Operation]
  BY ConstantsAssumption DEF Init, Time, Operation
<1>2. CASE NewStore
  <2>1. audit \in [Owner -> Seq(EventRecord)]
    BY <1>2 DEF NewStore
  <2>2. usage \in [Policy -> [Kind -> Nat]]
    BY <1>2 DEF NewStore
  <2>3. DOMAIN approvals = {} /\ DOMAIN grants = {}
    BY <1>2 DEF NewStore
  <2>4. approvals \in [{} -> Grant \cup {None}] /\ grants \in [{} -> GrantRow]
    BY <1>2, <2>3 DEF NewStore
  <2>. QED  BY <1>1, <1>2, <2>1, <2>2, <2>3, <2>4 DEF NewStore, TypeOK
<1>3. ASSUME NEW g \in LegacyGrants, NEW consumed \in BOOLEAN, LegacyStore(g, consumed)
      PROVE  TypeOK
  <2>. g \in Grant
    BY ConstantsAssumption
  <2>1. plans \subseteq Plan /\ version = 1
    BY <1>3, GrantFacts DEF LegacyStore
  <2>2. /\ DOMAIN approvals \subseteq Approval
        /\ approvals \in [DOMAIN approvals -> Grant \cup {None}]
    BY <1>3, GrantFacts DEF LegacyStore
  <2>3. /\ DOMAIN grants = {g}
        /\ grants \in [DOMAIN grants -> GrantRow]
        /\ grants[g].state = "absent"
    BY <1>3 DEF LegacyStore, GrantRow, ReceiptState
  <2>4. usage \in [Policy -> [Kind -> Nat]]
    BY <1>3, GrantFacts DEF LegacyStore
  <2>5. LegacyLog(g, consumed) \in Seq(EventRecord)
    <3>. DEFINE A == IF g.approval = None THEN <<>> ELSE <<Event("approval-recorded", g.approval)>>
                C == IF consumed THEN <<Event("grant-consumed", g)>> ELSE <<>>
    <3>1. <<Event("plan-created", g.plan)>> \in Seq(EventRecord)
      BY GrantFacts DEF Event, EventRecord, EventType
    <3>. <<>> \in Seq(EventRecord)
      OBVIOUS
    <3>2. A \in Seq(EventRecord)
      <4>1. g.approval # None => <<Event("approval-recorded", g.approval)>> \in Seq(EventRecord)
        BY GrantFacts DEF Event, EventRecord, EventType
      <4>. QED  BY <4>1
    <3>3. <<Event("grant-issued", g)>> \in Seq(EventRecord)
      BY DEF Event, EventRecord, EventType
    <3>4. C \in Seq(EventRecord)
      <4>1. <<Event("grant-consumed", g)>> \in Seq(EventRecord)
        BY DEF Event, EventRecord, EventType
      <4>. QED  BY <4>1
    <3>. HIDE DEF A, C
    <3>5. <<Event("plan-created", g.plan)>> \o A \in Seq(EventRecord)
      BY <3>1, <3>2
    <3>6. <<Event("plan-created", g.plan)>> \o A \o <<Event("grant-issued", g)>> \in Seq(EventRecord)
      BY <3>5, <3>3
    <3>7. <<Event("plan-created", g.plan)>> \o A \o <<Event("grant-issued", g)>> \o C \in Seq(EventRecord)
      BY <3>6, <3>4
    <3>. QED  BY <3>7 DEF LegacyLog, A, C
  <2>6. audit \in [Owner -> Seq(EventRecord)]
    BY <1>3, <2>5 DEF LegacyStore
  <2>. QED  BY <1>1, <2>1, <2>2, <2>3, <2>4, <2>6 DEF TypeOK
<1>. QED  BY <1>2, <1>3 DEF Init

LEMMA NextType == TypeOK /\ [Next]_vars => TypeOK'
<1>. SUFFICES ASSUME TypeOK, [Next]_vars PROVE TypeOK'
  OBVIOUS
<1>. Idle \in Operation
  BY DEF Operation
<1>1. CASE UNCHANGED vars
  BY <1>1 DEF TypeOK, vars
<1>2. CASE ClockMoves
  BY <1>2 DEF ClockMoves, TypeOK, dbVars
<1>3. ASSUME NEW c \in Caller, Open(c) PROVE TypeOK'
  <2>1. CASE version = 1
    <3>. DEFINE new == [g \in DOMAIN grants |-> Migrated(grants[g])]
    <3>1. grants' = new /\ DOMAIN grants' = DOMAIN grants
      BY <1>3, <2>1 DEF Open
    <3>2. \A g \in DOMAIN grants : grants[g] \in GrantRow
      BY DEF TypeOK
    <3>3. \A g \in DOMAIN grants : new[g] \in GrantRow /\ new[g].state # "absent"
      BY <3>2 DEF Migrated, GrantRow, ReceiptState
    <3>. QED  BY <1>3, <3>1, <3>3 DEF Open, TypeOK
  <2>2. CASE version # 1
    BY <1>3, <2>2 DEF Open, TypeOK
  <2>. QED  BY <2>1, <2>2
<1>4. ASSUME NEW c \in Caller, Crash(c) PROVE TypeOK'
  BY <1>4 DEF Crash, TypeOK, dbVars
<1>5. ASSUME NEW c \in Caller, NEW r \in Request, NEW t \in Target, NEW p \in Plan,
             CreatePlan(c, r, t, p)
      PROVE  TypeOK'
  <2>1. audit' \in [Owner -> Seq(EventRecord)]
    BY <1>5, AppendType, PlanFacts DEF CreatePlan, TypeOK, EventType
  <2>. QED  BY <1>5, <2>1 DEF CreatePlan, TypeOK
<1>6. ASSUME NEW c \in Caller, NEW a \in Approval, NEW d \in PlanObject, Approve(c, a, d)
      PROVE  TypeOK'
  <2>1. audit' \in [Owner -> Seq(EventRecord)]
    BY <1>6, AppendType, ApprovalFacts DEF Approve, Presents, TypeOK, EventType
  <2>2. /\ DOMAIN approvals' \subseteq Approval
        /\ approvals' \in [DOMAIN approvals' -> Grant \cup {None}]
    BY <1>6 DEF Approve, TypeOK
  <2>. QED  BY <1>6, <2>1, <2>2 DEF Approve, TypeOK
<1>7. ASSUME NEW c \in Caller, NEW a \in Approval, NEW d \in PlanObject, ApproveRefused(c, a, d)
      PROVE  TypeOK'
  <2>1. Denying(d.owner) \in Operation
    BY <1>7, ApprovalFacts DEF ApproveRefused, Presents, Denying, Operation
  <2>. QED  BY <1>7, <2>1 DEF ApproveRefused, TypeOK, dbVars
<1>8. ASSUME NEW c \in Caller, NEW k \in {"issue", "consume", "redeem"}, NEW g \in Grant,
             NEW allowed \in BOOLEAN, NEW o \in Owner, Begin(c, k, g, allowed, o)
      PROVE  TypeOK'
  <2>1. Denying(o) \in Operation /\ Pending(k, g) \in Operation
    BY DEF Denying, Pending, Operation, TypeOK
  <2>. QED  BY <1>8, <2>1 DEF Begin, TypeOK, dbVars
<1>9. ASSUME NEW c \in Caller, NEW g \in Grant, NEW t \in Target, IssueCall(c, g, t)
      PROVE  TypeOK'
  <2>1. IssueAllowed(g, t, clock) \in BOOLEAN
    BY DEF IssueAllowed, WithinPolicy
  <2>. QED  BY <1>8, <1>9, <2>1, GrantFacts DEF IssueCall
<1>10. ASSUME NEW c \in Caller, NEW g \in Held, NEW r \in Request, NEW t \in Target,
              NEW p \in Policy,
              ConsumeCall(c, g, r, t, p) \/ RedeemCall(c, g, r, t, p)
       PROVE  TypeOK'
  <2>1. g \in Grant /\ r.owner \in Owner
    BY ConstantsAssumption DEF Held, TypeOK, RequestRecord
  <2>2. Binds(g, r, t, p) \in BOOLEAN
    BY DEF Binds
  <2>. QED  BY <1>8, <1>10, <2>1, <2>2 DEF ConsumeCall, RedeemCall
<1>11. ASSUME NEW c \in Caller, NEW g \in Held, NEW r \in Request, NEW t \in Target,
              NEW p \in Policy, VerifyRefused(c, g, r, t, p)
       PROVE  TypeOK'
  <2>1. Denying(r.owner) \in Operation
    BY ConstantsAssumption DEF Denying, Operation, RequestRecord
  <2>. QED  BY <1>11, <2>1 DEF VerifyRefused, TypeOK, dbVars
<1>12. ASSUME NEW c \in Caller, IssueGrant(c) PROVE TypeOK'
  <2>. DEFINE g == op[c].grant
  <2>1. g \in Grant /\ version = 2
    BY <1>12, RunningFacts DEF IssueGrant
  <2>2. audit' \in [Owner -> Seq(EventRecord)]
    BY <1>12, <2>1, AppendType, GrantFacts DEF IssueGrant, TypeOK, EventType
  <2>. DEFINE row == [consumed |-> FALSE, state |-> "pending"]
  <2>3. row \in GrantRow /\ row.state # "absent"
    BY DEF GrantRow, ReceiptState
  <2>4. grants' = [h \in DOMAIN grants \cup {g} |-> IF h = g THEN row ELSE grants[h]]
    BY <1>12 DEF IssueGrant
  <2>5. /\ DOMAIN grants' \subseteq Grant
        /\ grants' \in [DOMAIN grants' -> GrantRow]
        /\ \A h \in DOMAIN grants' : grants'[h].state # "absent"
    BY <2>1, <2>3, <2>4 DEF TypeOK
  <2>6. /\ DOMAIN approvals' \subseteq Approval
        /\ approvals' \in [DOMAIN approvals' -> Grant \cup {None}]
    BY <1>12, <2>1 DEF IssueGrant, TypeOK
  <2>7. /\ op' \in [Caller -> Operation]
        /\ UNCHANGED <<version, plans, usage, clock, open>>
    BY <1>12 DEF IssueGrant, Finish, TypeOK
  <2>. QED  BY <2>1, <2>2, <2>5, <2>6, <2>7 DEF TypeOK
<1>13. ASSUME NEW c \in Caller, Consume(c) PROVE TypeOK'
  <2>. DEFINE g == op[c].grant
  <2>1. g \in Grant /\ version = 2
    BY <1>13, RunningFacts DEF Consume
  <2>2. audit' \in [Owner -> Seq(EventRecord)]
    BY <1>13, <2>1, AppendType, GrantFacts DEF Consume, TypeOK, EventType
  <2>3. g \in DOMAIN grants
    BY <1>13 DEF Consume, Consumable
  <2>. DEFINE row == [grants[g] EXCEPT !.consumed = TRUE, !.state = "available"]
  <2>4. grants' = [grants EXCEPT ![g] = row]
    BY <1>13 DEF Consume
  <2>5. /\ DOMAIN grants' = DOMAIN grants
        /\ grants' \in [DOMAIN grants -> GrantRow]
        /\ \A h \in DOMAIN grants' : grants'[h].state # "absent"
    <3>1. grants[g] \in GrantRow
      BY <2>3 DEF TypeOK
    <3>2. row \in GrantRow /\ row.state # "absent"
      BY <2>1, <3>1 DEF GrantRow, ReceiptState
    <3>. HIDE DEF row
    <3>. QED  BY <2>1, <2>3, <2>4, <3>2 DEF TypeOK
  <2>6. usage' \in [Policy -> [Kind -> Nat]]
    BY <1>13, <2>1, GrantFacts DEF Consume, Reserved, TypeOK
  <2>. QED  BY <1>13, <2>1, <2>2, <2>5, <2>6 DEF Consume, Finish, TypeOK
<1>14. ASSUME NEW c \in Caller, RedeemReceipt(c) PROVE TypeOK'
  <2>. DEFINE g == op[c].grant
  <2>1. g \in Grant /\ version = 2
    BY <1>14, RunningFacts DEF RedeemReceipt
  <2>2. audit' \in [Owner -> Seq(EventRecord)]
    BY <1>14, <2>1, AppendType, GrantFacts DEF RedeemReceipt, TypeOK, EventType
  <2>3. g \in DOMAIN grants
    BY <1>14 DEF RedeemReceipt, Redeemable
  <2>. DEFINE row == [grants[g] EXCEPT !.state = "redeemed"]
  <2>4. grants' = [grants EXCEPT ![g] = row]
    BY <1>14 DEF RedeemReceipt
  <2>5. /\ DOMAIN grants' = DOMAIN grants
        /\ grants' \in [DOMAIN grants -> GrantRow]
        /\ \A h \in DOMAIN grants' : grants'[h].state # "absent"
    <3>1. grants[g] \in GrantRow
      BY <2>3 DEF TypeOK
    <3>2. row \in GrantRow /\ row.state # "absent"
      BY <2>1, <3>1 DEF GrantRow, ReceiptState
    <3>. HIDE DEF row
    <3>. QED  BY <2>1, <2>3, <2>4, <3>2 DEF TypeOK
  <2>. QED  BY <1>14, <2>1, <2>2, <2>5 DEF RedeemReceipt, Finish, TypeOK
<1>15. ASSUME NEW c \in Caller, Refuse(c) PROVE TypeOK'
  <2>1. op[c].grant \in Grant
    BY <1>15, RunningFacts DEF Refuse
  <2>2. Denying(op[c].grant.request.owner) \in Operation
    BY <2>1, GrantFacts DEF Denying, Operation
  <2>. QED  BY <1>15, <2>2 DEF Refuse, TypeOK, dbVars
<1>16. ASSUME NEW c \in Caller, RecordDenial(c) PROVE TypeOK'
  <2>1. audit' \in [Owner -> Seq(EventRecord)]
    BY <1>16, DenyFacts, AppendType DEF RecordDenial, TypeOK, EventType
  <2>. QED  BY <1>16, <2>1 DEF RecordDenial, Finish, TypeOK
<1>17. ASSUME NEW c \in Caller, Busy(c) PROVE TypeOK'
  BY <1>17 DEF Busy, Finish, TypeOK, dbVars
<1>. QED
  BY <1>1, <1>2, <1>3, <1>4, <1>5, <1>6, <1>7, <1>9, <1>10, <1>11, <1>12, <1>13,
     <1>14, <1>15, <1>16, <1>17 DEF Next

(* Every reachable state is well typed: the tables keep their shape, and a
   row has a receipt state exactly when the store is past version 1.        *)
THEOREM TypeCorrect == Spec => []TypeOK
  BY InitType, NextType, PTL DEF Spec

-----------------------------------------------------------------------------
(* Which steps touch the tables of approvals, grants and usage at all.     *)

LEMMA TableSteps ==
    ASSUME [Next]_vars
    PROVE  \/ UNCHANGED <<version, approvals, grants, usage>>
           \/ \E c \in Caller : Open(c)
           \/ \E c \in Caller, a \in Approval, d \in PlanObject : Approve(c, a, d)
           \/ \E c \in Caller : IssueGrant(c)
           \/ \E c \in Caller : Consume(c)
           \/ \E c \in Caller : RedeemReceipt(c)
  BY DEF Next, vars, dbVars, ClockMoves, Crash, CreatePlan, ApproveRefused, IssueCall,
         ConsumeCall, RedeemCall, Begin, VerifyRefused, Refuse, RecordDenial, Busy

\* The grants table changes in one of four ways.
LEMMA OpenStep ==
    ASSUME TypeOK, NEW c \in Caller, Open(c)
    PROVE  /\ UNCHANGED <<approvals, usage>>
           /\ DOMAIN grants' = DOMAIN grants
           /\ \A g \in DOMAIN grants : grants'[g] = IF version = 1 THEN Migrated(grants[g])
                                                                  ELSE grants[g]
  BY DEF Open, TypeOK

LEMMA IssueStep ==
    ASSUME TypeOK, NEW c \in Caller, IssueGrant(c)
    PROVE  \E g \in Grant :
             /\ Issuable(g, op[c].now) /\ version = 2
             /\ DOMAIN grants' = DOMAIN grants \cup {g}
             /\ \A h \in DOMAIN grants : grants'[h] = grants[h]
             /\ grants'[g] = [consumed |-> FALSE, state |-> "pending"]
             /\ DOMAIN approvals' = DOMAIN approvals
             /\ \A a \in DOMAIN approvals :
                   approvals'[a] = IF a = g.approval THEN g ELSE approvals[a]
             /\ UNCHANGED usage
<1>1. op[c].grant \in Grant /\ version = 2
  BY RunningFacts DEF IssueGrant
<1>2. op[c].grant \notin DOMAIN grants
  BY DEF IssueGrant, Issuable
<1>. op[c].grant \in Grant
  BY <1>1
<1>. WITNESS op[c].grant \in Grant
<1>. QED  BY <1>1, <1>2 DEF IssueGrant

LEMMA ConsumeStep ==
    ASSUME TypeOK, NEW c \in Caller, Consume(c)
    PROVE  \E g \in Grant :
             /\ Consumable(g, op[c].now) /\ version = 2
             /\ DOMAIN grants' = DOMAIN grants
             /\ \A h \in DOMAIN grants : h # g => grants'[h] = grants[h]
             /\ grants'[g] = [grants[g] EXCEPT !.consumed = TRUE, !.state = "available"]
             /\ usage' = Reserved(g)
             /\ UNCHANGED approvals
<1>1. op[c].grant \in Grant /\ version = 2
  BY RunningFacts DEF Consume
<1>2. op[c].grant \in DOMAIN grants
  BY DEF Consume, Consumable
<1>. op[c].grant \in Grant
  BY <1>1
<1>. WITNESS op[c].grant \in Grant
<1>. QED  BY <1>1, <1>2 DEF Consume, TypeOK

LEMMA RedeemStep ==
    ASSUME TypeOK, NEW c \in Caller, RedeemReceipt(c)
    PROVE  \E g \in Grant :
             /\ Redeemable(g, op[c].now) /\ version = 2
             /\ DOMAIN grants' = DOMAIN grants
             /\ \A h \in DOMAIN grants : h # g => grants'[h] = grants[h]
             /\ grants'[g] = [grants[g] EXCEPT !.state = "redeemed"]
             /\ UNCHANGED <<approvals, usage>>
<1>1. op[c].grant \in Grant /\ version = 2
  BY RunningFacts DEF RedeemReceipt
<1>2. op[c].grant \in DOMAIN grants
  BY DEF RedeemReceipt, Redeemable
<1>. op[c].grant \in Grant
  BY <1>1
<1>. WITNESS op[c].grant \in Grant
<1>. QED  BY <1>1, <1>2 DEF RedeemReceipt, TypeOK

-----------------------------------------------------------------------------
(* An approval stands behind at most one grant.  Stated alone that is not  *)
(* inductive: what carries it is that a grant's approval names the grant.  *)

ApprovalNamesGrant ==
    /\ \A g \in DOMAIN grants : g.approval # None =>
          g.approval \in DOMAIN approvals /\ approvals[g.approval] = g
    /\ \A a \in DOMAIN approvals : approvals[a] # None =>
          approvals[a] \in DOMAIN grants /\ approvals[a].approval = a

LEMMA ApprovalInit == Init => ApprovalNamesGrant
<1>. SUFFICES ASSUME Init PROVE ApprovalNamesGrant
  OBVIOUS
<1>1. CASE NewStore
  BY <1>1 DEF NewStore, ApprovalNamesGrant
<1>2. ASSUME NEW g \in LegacyGrants, NEW consumed \in BOOLEAN, LegacyStore(g, consumed)
      PROVE  ApprovalNamesGrant
  BY <1>2 DEF LegacyStore, ApprovalNamesGrant
<1>. QED  BY <1>1, <1>2 DEF Init

LEMMA ApprovalStep ==
    TypeOK /\ ApprovalNamesGrant /\ [Next]_vars => ApprovalNamesGrant'
<1>. SUFFICES ASSUME TypeOK, ApprovalNamesGrant, [Next]_vars PROVE ApprovalNamesGrant'
  OBVIOUS
<1>1. CASE UNCHANGED <<version, approvals, grants, usage>>
  BY <1>1 DEF ApprovalNamesGrant
<1>2. ASSUME NEW c \in Caller, Open(c) PROVE ApprovalNamesGrant'
  BY <1>2, OpenStep DEF ApprovalNamesGrant
<1>3. ASSUME NEW c \in Caller, NEW a \in Approval, NEW d \in PlanObject,
             Approve(c, a, d) PROVE ApprovalNamesGrant'
  BY <1>3 DEF Approve, ApprovalNamesGrant
<1>4. ASSUME NEW c \in Caller, IssueGrant(c) PROVE ApprovalNamesGrant'
  <2>1. PICK g \in Grant :
           /\ Issuable(g, op[c].now)
           /\ DOMAIN grants' = DOMAIN grants \cup {g}
           /\ DOMAIN approvals' = DOMAIN approvals
           /\ \A a \in DOMAIN approvals :
                 approvals'[a] = IF a = g.approval THEN g ELSE approvals[a]
    BY <1>4, IssueStep
  <2>2. /\ g \notin DOMAIN grants /\ g # None
        /\ g.approval # None => g.approval \in DOMAIN approvals /\ approvals[g.approval] = None
    BY <2>1, GrantFacts DEF Issuable
  <2>3. \A h \in DOMAIN grants : h # None
    BY GrantFacts DEF TypeOK
  <2>4. None \notin DOMAIN approvals
    BY ConstantsAssumption DEF TypeOK
  <2>. QED  BY <2>1, <2>2, <2>3, <2>4 DEF ApprovalNamesGrant
<1>5. ASSUME NEW c \in Caller, Consume(c) PROVE ApprovalNamesGrant'
  BY <1>5, ConsumeStep DEF ApprovalNamesGrant
<1>6. ASSUME NEW c \in Caller, RedeemReceipt(c) PROVE ApprovalNamesGrant'
  BY <1>6, RedeemStep DEF ApprovalNamesGrant
<1>. QED  BY <1>1, <1>2, <1>3, <1>4, <1>5, <1>6, TableSteps

(* However callers interleave, crash or retry, two grants never rest on the
   same approval, and a used approval names the grant that used it.         *)
THEOREM ApprovalUsedOnce == Spec => []ApprovalSingleUse
<1>1. ApprovalNamesGrant => ApprovalSingleUse
  BY DEF ApprovalNamesGrant, ApprovalSingleUse
<1>. QED  BY <1>1, InitType, NextType, ApprovalInit, ApprovalStep, PTL DEF Spec

-----------------------------------------------------------------------------
(* Receipts move forward only.                                             *)

LEMMA ForwardStep ==
    ASSUME TypeOK, [Next]_vars, NEW g \in DOMAIN grants
    PROVE  g \in DOMAIN grants' /\ ReceiptStep(grants[g], grants'[g])
<1>. grants[g] \in GrantRow
  BY DEF TypeOK
<1>1. CASE UNCHANGED <<version, approvals, grants, usage>>
  BY <1>1 DEF ReceiptStep
<1>2. ASSUME NEW c \in Caller, Open(c)
      PROVE  g \in DOMAIN grants' /\ ReceiptStep(grants[g], grants'[g])
  BY <1>2, OpenStep DEF ReceiptStep, Migrated, TypeOK
<1>3. ASSUME NEW c \in Caller, NEW a \in Approval, NEW d \in PlanObject,
             Approve(c, a, d)
      PROVE  g \in DOMAIN grants' /\ ReceiptStep(grants[g], grants'[g])
  BY <1>3 DEF Approve, ReceiptStep
<1>4. ASSUME NEW c \in Caller, IssueGrant(c)
      PROVE  g \in DOMAIN grants' /\ ReceiptStep(grants[g], grants'[g])
  BY <1>4, IssueStep DEF ReceiptStep
<1>5. ASSUME NEW c \in Caller, Consume(c)
      PROVE  g \in DOMAIN grants' /\ ReceiptStep(grants[g], grants'[g])
  <2>1. PICK h \in Grant :
           /\ Consumable(h, op[c].now)
           /\ DOMAIN grants' = DOMAIN grants
           /\ \A f \in DOMAIN grants : f # h => grants'[f] = grants[f]
           /\ grants'[h] = [grants[h] EXCEPT !.consumed = TRUE, !.state = "available"]
    BY <1>5, ConsumeStep
  <2>2. CASE g # h
    BY <2>1, <2>2 DEF ReceiptStep
  <2>3. CASE g = h
    <3>1. grants'[g].consumed /\ grants'[g].state = "available"
      BY <2>1, <2>3 DEF GrantRow
    <3>. QED  BY <2>1, <2>3, <3>1 DEF Consumable, ReceiptStep
  <2>. QED  BY <2>2, <2>3
<1>6. ASSUME NEW c \in Caller, RedeemReceipt(c)
      PROVE  g \in DOMAIN grants' /\ ReceiptStep(grants[g], grants'[g])
  <2>1. PICK h \in Grant :
           /\ Redeemable(h, op[c].now)
           /\ DOMAIN grants' = DOMAIN grants
           /\ \A f \in DOMAIN grants : f # h => grants'[f] = grants[f]
           /\ grants'[h] = [grants[h] EXCEPT !.state = "redeemed"]
    BY <1>6, RedeemStep
  <2>2. CASE g # h
    BY <2>1, <2>2 DEF ReceiptStep
  <2>3. CASE g = h
    <3>1. grants'[g].consumed = grants[g].consumed /\ grants'[g].state = "redeemed"
      BY <2>1, <2>3 DEF GrantRow
    <3>. QED  BY <2>1, <2>3, <3>1 DEF Redeemable, ReceiptStep
  <2>. QED  BY <2>2, <2>3
<1>. QED  BY <1>1, <1>2, <1>3, <1>4, <1>5, <1>6, TableSteps

(* No step consumes a grant twice, redeems a receipt twice, or reopens one the
   migration closed.                                                        *)
THEOREM ReceiptsOnlyMoveForward == Spec => ReceiptsMoveForward
<1>1. TypeOK /\ [Next]_vars =>
        [\A g \in DOMAIN grants : g \in DOMAIN grants' /\ ReceiptStep(grants[g], grants'[g])]_grants
  BY ForwardStep
<1>. QED  BY <1>1, InitType, NextType, PTL DEF Spec, ReceiptsMoveForward

-----------------------------------------------------------------------------
(* Quotas.  consume compares each charge alone with what is left, which    *)
(* bounds their sum only if no charge list names a kind twice.             *)

DistinctKinds == \A c \in Charges, k \in Kind : c[k].largest = c[k].total

LEMMA ReservedFacts ==
    ASSUME TypeOK, DistinctKinds, NEW g \in Grant, QuotaLeft(g)
    PROVE  /\ Reserved(g) \in [Policy -> [Kind -> Nat]]
           /\ \A p \in Policy, k \in Kind :
                 Reserved(g)[p][k] = IF p = g.policy THEN usage[p][k] + g.charges[k].total
                                                     ELSE usage[p][k]
           /\ \A k \in Kind : g.charges[k].total > 0 =>
                 usage[g.policy][k] + g.charges[k].total <= g.policy.limit[k]
<1>1. \A k \in Kind : g.charges[k].largest = g.charges[k].total
  BY GrantFacts DEF DistinctKinds
<1>2. usage \in [Policy -> [Kind -> Nat]]
  BY DEF TypeOK
<1>. QED  BY <1>1, <1>2, GrantFacts DEF Reserved, QuotaLeft

LEMMA QuotaInit == Init => QuotaHeld
<1>. SUFFICES ASSUME Init PROVE QuotaHeld
  OBVIOUS
<1>. \A p \in Policy : p.limit \in [Kind -> Nat]
  BY ConstantsAssumption DEF PolicyRecord
<1>1. CASE NewStore
  BY <1>1 DEF NewStore, QuotaHeld
<1>2. ASSUME NEW g \in LegacyGrants, NEW consumed \in BOOLEAN,
             LegacyIssuable(g), LegacyStore(g, consumed)
      PROVE  QuotaHeld
  <2>1. \A k \in Kind : g.charges[k].total <= g.policy.limit[k]
    BY <1>2 DEF LegacyIssuable, IssueAllowed, WithinPolicy
  <2>. QED  BY <1>2, <2>1, ConstantsAssumption DEF LegacyStore, QuotaHeld
<1>. QED  BY <1>1, <1>2 DEF Init

LEMMA QuotaStep ==
    ASSUME DistinctKinds
    PROVE  TypeOK /\ QuotaHeld /\ [Next]_vars => QuotaHeld'
<1>. SUFFICES ASSUME TypeOK, QuotaHeld, [Next]_vars PROVE QuotaHeld'
  OBVIOUS
<1>1. CASE UNCHANGED usage
  BY <1>1 DEF QuotaHeld
<1>2. ASSUME NEW c \in Caller, Consume(c) PROVE QuotaHeld'
  <2>1. PICK g \in Grant : QuotaLeft(g) /\ usage' = Reserved(g)
    BY <1>2, ConsumeStep DEF Consumable
  <2>2. ASSUME NEW p \in Policy, NEW k \in Kind PROVE usage'[p][k] <= p.limit[k]
    <3>1. /\ usage'[p][k] = IF p = g.policy THEN usage[p][k] + g.charges[k].total
                                            ELSE usage[p][k]
          /\ g.charges[k].total > 0 =>
                usage[g.policy][k] + g.charges[k].total <= g.policy.limit[k]
      BY <2>1, ReservedFacts
    <3>2. g.charges[k].total \in Nat /\ usage[p][k] \in Nat
      BY GrantFacts DEF TypeOK
    <3>. QED  BY <3>1, <3>2 DEF QuotaHeld
  <2>. QED  BY <2>2 DEF QuotaHeld
<1>. QED  BY <1>1, <1>2, TableSteps, OpenStep, IssueStep, RedeemStep DEF Approve

(* Racing consumptions never take more of a quota than its policy grants,
   provided no charge list names the same kind twice.                       *)
THEOREM QuotaNeverOverrun == DistinctKinds => (Spec => []QuotaHeld)
<1>. SUFFICES ASSUME DistinctKinds PROVE Spec => []QuotaHeld
  OBVIOUS
<1>1. TypeOK /\ QuotaHeld /\ [Next]_vars => QuotaHeld'
  BY QuotaStep
<1>. QED  BY <1>1, InitType, NextType, QuotaInit, PTL DEF Spec

-----------------------------------------------------------------------------
(* The engine implements EffectAuthority.  Each transaction that changes   *)
(* the abstract state is one abstract step, everything else a stutter.     *)

Granted == DOMAIN grants
Paid == {g \in DOMAIN grants : grants[g].consumed}
Handed == {g \in DOMAIN grants : Released(grants[g])}
Left == [p \in Policy |-> [k \in Kind |-> p.limit[k] - usage[p][k]]]

LEMMA AuthorityInit ==
    Init /\ TypeOK /\ ApprovalNamesGrant /\ QuotaHeld => Authority!Init
<1>. SUFFICES ASSUME Init, TypeOK, ApprovalNamesGrant, QuotaHeld PROVE Authority!Init
  OBVIOUS
<1>1. Granted \subseteq Grant /\ Paid \subseteq Granted
  BY DEF TypeOK, Granted, Paid
<1>2. Handed = Paid
  <2>1. CASE NewStore
    BY <2>1 DEF NewStore, Handed, Paid
  <2>2. ASSUME NEW g \in LegacyGrants, NEW consumed \in BOOLEAN, LegacyStore(g, consumed)
        PROVE  Handed = Paid
    BY <2>2 DEF LegacyStore, Handed, Paid, Released
  <2>. QED  BY <2>1, <2>2 DEF Init
<1>3. Left \in [Policy -> [Kind -> Nat]]
  <2>1. \A p \in Policy, k \in Kind :
           usage[p][k] \in Nat /\ p.limit[k] \in Nat /\ usage[p][k] <= p.limit[k]
    BY ConstantsAssumption DEF TypeOK, QuotaHeld, PolicyRecord
  <2>. QED  BY <2>1 DEF Left
<1>4. \A g, h \in Granted : g.approval # None /\ g.approval = h.approval => g = h
  BY DEF ApprovalNamesGrant, Granted
<1>. QED  BY <1>1, <1>2, <1>3, <1>4 DEF Authority!Init, Granted, Paid, Handed, Left

LEMMA AuthorityStep ==
    ASSUME DistinctKinds, TypeOK, ApprovalNamesGrant, QuotaHeld, [Next]_vars
    PROVE  [Authority!Next]_<<Granted, Paid, Handed, Left>>
<1>. \A g \in DOMAIN grants : g \in Grant /\ grants[g] \in GrantRow
  BY DEF TypeOK
<1>1. CASE UNCHANGED <<version, approvals, grants, usage>>
  BY <1>1 DEF Granted, Paid, Handed, Left
<1>2. ASSUME NEW c \in Caller, Open(c)
      PROVE  UNCHANGED <<Granted, Paid, Handed, Left>>
  <2>1. \A g \in DOMAIN grants :
           /\ grants'[g].consumed = grants[g].consumed
           /\ Released(grants'[g]) = Released(grants[g])
    <3>. SUFFICES ASSUME NEW g \in DOMAIN grants
                  PROVE  /\ grants'[g].consumed = grants[g].consumed
                         /\ Released(grants'[g]) = Released(grants[g])
      OBVIOUS
    <3>1. CASE version = 1
      <4>1. grants[g].state = "absent" /\ grants'[g] = Migrated(grants[g])
        BY <1>2, <3>1, OpenStep DEF TypeOK
      <4>. QED  BY <4>1 DEF Migrated, Released, GrantRow
    <3>2. CASE version # 1
      BY <1>2, <3>2, OpenStep
    <3>. QED  BY <3>1, <3>2
  <2>2. DOMAIN grants' = DOMAIN grants /\ UNCHANGED usage
    BY <1>2, OpenStep
  <2>. QED  BY <2>1, <2>2 DEF Granted, Paid, Handed, Left
<1>3. ASSUME NEW c \in Caller, NEW a \in Approval, NEW d \in PlanObject,
             Approve(c, a, d)
      PROVE  UNCHANGED <<Granted, Paid, Handed, Left>>
  BY <1>3 DEF Approve, Granted, Paid, Handed, Left
<1>4. ASSUME NEW c \in Caller, IssueGrant(c)
      PROVE  \E g \in Grant : Authority!GrantEffect(g)
  <2>1. PICK g \in Grant :
             /\ Issuable(g, op[c].now)
             /\ DOMAIN grants' = DOMAIN grants \cup {g}
             /\ \A h \in DOMAIN grants : grants'[h] = grants[h]
             /\ grants'[g] = [consumed |-> FALSE, state |-> "pending"]
             /\ UNCHANGED usage
    BY <1>4, IssueStep
  <2>2. g \notin Granted
    BY <2>1 DEF Issuable, Granted
  <2>3. g.approval # None => \A h \in Granted : h.approval # g.approval
    <3>1. \A h \in Granted : h # None
      BY GrantFacts DEF TypeOK, Granted
    <3>. QED  BY <2>1, <3>1 DEF Issuable, ApprovalNamesGrant, Granted
  <2>4. Granted' = Granted \cup {g} /\ Paid' = Paid /\ Handed' = Handed /\ Left' = Left
    BY <2>1, <2>2 DEF Granted, Paid, Handed, Left, Released
  <2>. QED  BY <2>2, <2>3, <2>4 DEF Authority!GrantEffect, Granted, Paid, Handed, Left
<1>5. ASSUME NEW c \in Caller, Consume(c)
      PROVE  \E g \in Grant : Authority!Pay(g)
  <2>1. PICK g \in Grant :
             /\ Consumable(g, op[c].now)
             /\ DOMAIN grants' = DOMAIN grants
             /\ \A h \in DOMAIN grants : h # g => grants'[h] = grants[h]
             /\ grants'[g] = [grants[g] EXCEPT !.consumed = TRUE, !.state = "available"]
             /\ usage' = Reserved(g)
    BY <1>5, ConsumeStep
  <2>2. g \in Granted \ Paid /\ g \notin Handed
    BY <2>1 DEF Consumable, Granted, Paid, Handed, Released
  <2>3. grants'[g].consumed /\ grants'[g].state = "available"
    BY <2>1, <2>2 DEF Granted, GrantRow
  <2>4. Granted' = Granted /\ Paid' = Paid \cup {g} /\ Handed' = Handed
    BY <2>1, <2>2, <2>3 DEF Granted, Paid, Handed, Released
  <2>5. /\ \A p \in Policy, k \in Kind :
              usage'[p][k] = IF p = g.policy THEN usage[p][k] + g.charges[k].total
                                             ELSE usage[p][k]
        /\ \A k \in Kind : g.charges[k].total > 0 =>
              usage[g.policy][k] + g.charges[k].total <= g.policy.limit[k]
    BY <2>1, ReservedFacts DEF Consumable
  <2>6. /\ g.policy \in Policy
        /\ \A k \in Kind : g.charges[k].total \in Nat
        /\ \A p \in Policy, k \in Kind : usage[p][k] \in Nat /\ p.limit[k] \in Nat
    BY GrantFacts, ConstantsAssumption DEF TypeOK, PolicyRecord
  <2>7. \A k \in Kind : g.charges[k].total <= Left[g.policy][k]
    BY <2>5, <2>6 DEF Left, QuotaHeld
  <2>8. Left' = [Left EXCEPT ![g.policy] = [k \in Kind |-> @[k] - g.charges[k].total]]
    <3>1. \A p \in Policy, k \in Kind :
             p.limit[k] - usage'[p][k] =
                IF p = g.policy THEN p.limit[k] - usage[p][k] - g.charges[k].total
                                ELSE p.limit[k] - usage[p][k]
      BY <2>5, <2>6
    <3>. QED  BY <3>1, <2>6 DEF Left
  <2>. QED  BY <2>2, <2>4, <2>7, <2>8 DEF Authority!Pay, Granted, Paid, Handed, Left
<1>6. ASSUME NEW c \in Caller, RedeemReceipt(c)
      PROVE  \E g \in Grant : Authority!Release(g)
  <2>1. PICK g \in Grant :
             /\ Redeemable(g, op[c].now)
             /\ DOMAIN grants' = DOMAIN grants
             /\ \A h \in DOMAIN grants : h # g => grants'[h] = grants[h]
             /\ grants'[g] = [grants[g] EXCEPT !.state = "redeemed"]
             /\ UNCHANGED usage
    BY <1>6, RedeemStep
  <2>2. g \in Paid \ Handed
    BY <2>1 DEF Redeemable, Paid, Handed, Released
  <2>3. grants'[g].consumed /\ grants'[g].state = "redeemed"
    BY <2>1, <2>2 DEF Redeemable, Paid, GrantRow
  <2>4. Granted' = Granted /\ Paid' = Paid /\ Handed' = Handed \cup {g} /\ Left' = Left
    BY <2>1, <2>2, <2>3 DEF Granted, Paid, Handed, Left, Released
  <2>. QED  BY <2>2, <2>4 DEF Authority!Release, Granted, Paid, Handed, Left
<1>. QED  BY <1>1, <1>2, <1>3, <1>4, <1>5, <1>6, TableSteps DEF Authority!Next

(* The engine, with its database, its clock, its racing callers, its crashes
   and its migration, does nothing EffectAuthority does not allow.          *)
THEOREM EngineImplementsAuthority == DistinctKinds => (Spec => ImplementsAuthority)
<1>. SUFFICES ASSUME DistinctKinds PROVE Spec => ImplementsAuthority
  OBVIOUS
<1>1. Init /\ TypeOK /\ ApprovalNamesGrant /\ QuotaHeld => Authority!Init
  BY AuthorityInit
<1>2. TypeOK /\ ApprovalNamesGrant /\ QuotaHeld /\ [Next]_vars =>
         [Authority!Next]_(Authority!vars)
  BY AuthorityStep DEF Authority!vars, Granted, Paid, Handed, Left
<1>3. TypeOK /\ QuotaHeld /\ [Next]_vars => QuotaHeld'
  BY QuotaStep
<1>. QED
  BY <1>1, <1>2, <1>3, InitType, NextType, ApprovalInit, ApprovalStep, QuotaInit, PTL
     DEF Spec, ImplementsAuthority, Authority!Spec
-----------------------------------------------------------------------------
(* Every stored grant was authorized, and the audit log tells exactly what *)
(* the tables hold.  The second rests on the first: a plan cannot be       *)
(* logged after a grant made for it, because a stored grant's plan is      *)
(* stored already.                                                         *)

(* Authorization.                                                          *)

\* What issue_grant's checks before the transaction say of a grant for good.
Backed(g) ==
    /\ g.plan.owner = g.request.owner /\ g.plan.scope = g.request.scope
    /\ g.policy.owner = g.request.owner /\ g.plan.perms \subseteq g.policy.perms
    /\ WithinPolicy(g.charges, g.policy)
    /\ \E t \in Target : t.scope = g.request.scope /\ t.tier = g.tier
    /\ IF NeedsApproval(g.tier)
         THEN g.approval # None /\ g.approval.plan = g.plan /\ g.approval.owner = g.request.owner
         ELSE g.approval = None

\* What approve required of the plan object it was shown.
Confirmed(a) == \E d \in PlanObject : Presents(d, a) /\ Satisfies(a.strength, d)

AuthorizedInv ==
    /\ \A g \in DOMAIN grants :
          /\ Backed(g) /\ g.plan \in plans
          /\ g.approval # None => g.approval \in DOMAIN approvals
    /\ \A p \in plans : \E t \in Target : Describes(t, p)
    /\ \A a \in DOMAIN approvals : a.plan \in plans /\ Confirmed(a)
    /\ \A c \in Caller : op[c].kind = "issue" => Backed(op[c].grant)

LEMMA AuthorizedInit == Init => AuthorizedInv
<1>. SUFFICES ASSUME Init PROVE AuthorizedInv
  OBVIOUS
<1>1. \A c \in Caller : op[c].kind # "issue"
  BY DEF Init, Idle
<1>2. CASE NewStore
  BY <1>1, <1>2 DEF NewStore, AuthorizedInv
<1>3. ASSUME NEW g \in LegacyGrants, NEW consumed \in BOOLEAN,
             LegacyIssuable(g), LegacyStore(g, consumed)
      PROVE  AuthorizedInv
  <2>1. /\ Backed(g) /\ (g.approval # None => Confirmed(g.approval))
        /\ \E t \in Target : Describes(t, g.plan)
    BY <1>3 DEF LegacyIssuable, IssueAllowed, Backed, Confirmed
  <2>2. DOMAIN grants = {g} /\ plans = {g.plan} /\ DOMAIN approvals = {g.approval} \ {None}
    BY <1>3 DEF LegacyStore
  <2>3. g.approval # None => g.approval.plan = g.plan
    BY <2>1 DEF Backed
  <2>. QED BY <1>1, <2>1, <2>2, <2>3 DEF AuthorizedInv
<1>. QED BY <1>2, <1>3 DEF Init

\* The steps that read or refuse and leave the tables alone.
LEMMA QuietSteps ==
    ASSUME [Next]_vars
    PROVE  \/ UNCHANGED <<dbVars, op>>
           \/ \E c \in Caller : /\ UNCHANGED dbVars
                                /\ \/ Crash(c) \/ Refuse(c) \/ Busy(c)
                                   \/ \E a \in Approval, d \in PlanObject : ApproveRefused(c, a, d)
                                   \/ \E g \in Grant, t \in Target : IssueCall(c, g, t)
                                   \/ \E g \in Held, r \in Request, t \in Target, p \in Policy :
                                         \/ ConsumeCall(c, g, r, t, p)
                                         \/ RedeemCall(c, g, r, t, p)
                                         \/ VerifyRefused(c, g, r, t, p)
           \/ \E c \in Caller :
                \/ Open(c) \/ IssueGrant(c) \/ Consume(c) \/ RedeemReceipt(c) \/ RecordDenial(c)
                \/ \E r \in Request, t \in Target, p \in Plan : CreatePlan(c, r, t, p)
                \/ \E a \in Approval, d \in PlanObject : Approve(c, a, d)
<1>1. \A c \in Caller :
        /\ Crash(c) \/ Refuse(c) \/ Busy(c) => UNCHANGED dbVars
        /\ \A a \in Approval, d \in PlanObject : ApproveRefused(c, a, d) => UNCHANGED dbVars
        /\ \A g \in Grant, t \in Target : IssueCall(c, g, t) => UNCHANGED dbVars
        /\ \A g \in Held, r \in Request, t \in Target, p \in Policy :
              ConsumeCall(c, g, r, t, p) \/ RedeemCall(c, g, r, t, p) \/ VerifyRefused(c, g, r, t, p)
                 => UNCHANGED dbVars
  BY DEF Crash, Refuse, Busy, ApproveRefused, IssueCall, ConsumeCall, RedeemCall, Begin, VerifyRefused
<1>2. ClockMoves \/ UNCHANGED vars => UNCHANGED <<dbVars, op>>
  BY DEF ClockMoves, vars, dbVars
<1>3. CASE UNCHANGED vars \/ ClockMoves
  BY <1>2, <1>3
<1>4. CASE Next /\ ~ClockMoves
  BY <1>1, <1>4, Zenon DEF Next
<1>. QED BY <1>3, <1>4

\* A caller comes to issue only a grant that is backed.
LEMMA PendingBacked ==
    ASSUME TypeOK, AuthorizedInv, [Next]_vars
    PROVE  \A c \in Caller : op'[c].kind = "issue" => Backed(op'[c].grant)
<1>1. CASE UNCHANGED op
  BY <1>1 DEF AuthorizedInv
<1>2. ASSUME NEW d \in Caller, NEW to, op' = [op EXCEPT ![d] = to],
             to.kind = "issue" => Backed(to.grant)
      PROVE  \A c \in Caller : op'[c].kind = "issue" => Backed(op'[c].grant)
  BY <1>2 DEF AuthorizedInv, TypeOK
<1>3. ASSUME NEW d \in Caller, op' = [op EXCEPT ![d] = Idle]
      PROVE  \A c \in Caller : op'[c].kind = "issue" => Backed(op'[c].grant)
  BY <1>2, <1>3 DEF Idle
<1>4. ASSUME NEW d \in Caller, NEW o, op' = [op EXCEPT ![d] = Denying(o)]
      PROVE  \A c \in Caller : op'[c].kind = "issue" => Backed(op'[c].grant)
  BY <1>2, <1>4 DEF Denying
<1>5. ASSUME NEW d \in Caller, NEW g \in Grant, NEW t \in Target, IssueCall(d, g, t)
      PROVE  \A c \in Caller : op'[c].kind = "issue" => Backed(op'[c].grant)
  <2>1. CASE IssueAllowed(g, t, clock)
    <3>1. op' = [op EXCEPT ![d] = Pending("issue", g)] /\ Backed(g)
      BY <1>5, <2>1 DEF IssueCall, Begin, IssueAllowed, Backed
    <3>2. Pending("issue", g).grant = g
      BY DEF Pending
    <3>. QED BY <1>2, <3>1, <3>2
  <2>2. CASE ~IssueAllowed(g, t, clock)
    BY <1>4, <1>5, <2>2 DEF IssueCall, Begin
  <2>. QED BY <2>1, <2>2
<1>6. ASSUME NEW d \in Caller, NEW g, NEW kind \in {"consume", "redeem"}, NEW allowed \in BOOLEAN,
             NEW o, Begin(d, kind, g, allowed, o)
      PROVE  \A c \in Caller : op'[c].kind = "issue" => Backed(op'[c].grant)
  <2>1. CASE allowed
    <3>1. op' = [op EXCEPT ![d] = Pending(kind, g)]
      BY <1>6, <2>1 DEF Begin
    <3>2. Pending(kind, g).kind # "issue"
      BY DEF Pending
    <3>. QED BY <1>2, <3>1, <3>2
  <2>2. CASE ~allowed
    BY <1>4, <1>6, <2>2 DEF Begin
  <2>. QED BY <2>1, <2>2
<1>7. ASSUME NEW d \in Caller, NEW g \in Held, NEW r \in Request, NEW t \in Target, NEW p \in Policy,
             \/ ConsumeCall(d, g, r, t, p) \/ RedeemCall(d, g, r, t, p)
             \/ VerifyRefused(d, g, r, t, p)
      PROVE  \A c \in Caller : op'[c].kind = "issue" => Backed(op'[c].grant)
  <2>. DEFINE b == Binds(g, r, t, p)
  <2>1. b \in BOOLEAN
    BY DEF Binds
  <2>2. CASE ConsumeCall(d, g, r, t, p) \/ RedeemCall(d, g, r, t, p)
    <3>1. Begin(d, "consume", g, b, r.owner) \/ Begin(d, "redeem", g, b, r.owner)
      BY <2>2 DEF ConsumeCall, RedeemCall
    <3>. QED BY <1>6, <2>1, <3>1
  <2>3. CASE VerifyRefused(d, g, r, t, p)
    BY <1>4, <2>3 DEF VerifyRefused
  <2>. QED BY <1>7, <2>2, <2>3
<1>8. ASSUME NEW d \in Caller,
             \/ Crash(d) \/ Refuse(d) \/ Busy(d) \/ Open(d)
             \/ IssueGrant(d) \/ Consume(d) \/ RedeemReceipt(d) \/ RecordDenial(d)
             \/ \E a \in Approval, o \in PlanObject : ApproveRefused(d, a, o) \/ Approve(d, a, o)
             \/ \E r \in Request, t \in Target, p \in Plan : CreatePlan(d, r, t, p)
      PROVE  \A c \in Caller : op'[c].kind = "issue" => Backed(op'[c].grant)
  <2>1. \/ UNCHANGED op \/ op' = [op EXCEPT ![d] = Idle]
        \/ \E o : op' = [op EXCEPT ![d] = Denying(o)]
    BY <1>8 DEF Crash, Refuse, Busy, Open, IssueGrant, Consume, RedeemReceipt, RecordDenial,
                ApproveRefused, Approve, CreatePlan, Finish
  <2>. QED BY <1>1, <1>3, <1>4, <2>1
<1>. QED BY <1>1, <1>5, <1>7, <1>8, QuietSteps

LEMMA AuthorizedStep ==
    TypeOK /\ AuthorizedInv /\ [Next]_vars => AuthorizedInv'
<1>. SUFFICES ASSUME TypeOK, AuthorizedInv, [Next]_vars PROVE AuthorizedInv'
  OBVIOUS
<1>1. \A c \in Caller : op'[c].kind = "issue" => Backed(op'[c].grant)
  BY PendingBacked
<1>2. plans \subseteq plans'
  BY QuietSteps DEF dbVars, Open, CreatePlan, Approve, IssueGrant, Consume, RedeemReceipt,
                    RecordDenial
<1>3. \A p \in plans' : \E t \in Target : Describes(t, p)
  <2>1. \/ UNCHANGED plans
        \/ \E c \in Caller, r \in Request, t \in Target, p \in Plan : CreatePlan(c, r, t, p)
    BY QuietSteps DEF dbVars, Open, Approve, IssueGrant, Consume, RedeemReceipt, RecordDenial
  <2>. QED BY <2>1 DEF AuthorizedInv, CreatePlan
<1>4. CASE DOMAIN grants' = DOMAIN grants /\ DOMAIN approvals' = DOMAIN approvals
  BY <1>1, <1>2, <1>3, <1>4 DEF AuthorizedInv
<1>5. ASSUME NEW c \in Caller, NEW a \in Approval, NEW d \in PlanObject,
             Approve(c, a, d) PROVE AuthorizedInv'
  <2>1. /\ UNCHANGED <<grants, plans>> /\ DOMAIN approvals' = DOMAIN approvals \cup {a}
        /\ a.plan \in plans /\ Confirmed(a)
    BY <1>5 DEF Approve, Confirmed
  <2>. QED BY <1>1, <1>3, <2>1 DEF AuthorizedInv
<1>6. ASSUME NEW c \in Caller, IssueGrant(c) PROVE AuthorizedInv'
  <2>. DEFINE g == op[c].grant
  <2>1. Backed(g)
    BY <1>6 DEF IssueGrant, Running, AuthorizedInv
  <2>2. /\ UNCHANGED plans /\ DOMAIN grants' = DOMAIN grants \cup {g}
        /\ DOMAIN approvals' = DOMAIN approvals
        /\ g.plan \in plans /\ (g.approval # None => g.approval \in DOMAIN approvals)
    BY <1>6 DEF IssueGrant, Issuable
  <2>. HIDE DEF g
  <2>. QED BY <1>1, <1>3, <2>1, <2>2 DEF AuthorizedInv
<1>7. ASSUME NEW c \in Caller, Open(c) \/ Consume(c) \/ RedeemReceipt(c)
      PROVE  DOMAIN grants' = DOMAIN grants /\ DOMAIN approvals' = DOMAIN approvals
  BY <1>7, OpenStep, ConsumeStep, RedeemStep
<1>. QED BY <1>4, <1>5, <1>6, <1>7, TableSteps

(* What a stored grant rests on whatever its callers present: a stored plan
   of the same owner and scope, a policy of that owner that covers it, and,
   when the presented target needed one, a stored approval of that plan that
   was strong enough for the plan object approve was shown.                 *)
GrantBacked ==
    \A g \in DOMAIN grants :
        /\ Backed(g) /\ g.plan \in plans
        /\ NeedsApproval(g.tier) => g.approval \in DOMAIN approvals /\ Confirmed(g.approval)

(* No grant is ever stored without the plan, the policy and the approval it
   was presented with, whoever presents what.                               *)
THEOREM GrantsAlwaysBacked == Spec => []GrantBacked
<1>1. AuthorizedInv => GrantBacked
  BY DEF AuthorizedInv, Backed, GrantBacked
<1>. QED BY <1>1, InitType, NextType, AuthorizedInit, AuthorizedStep, PTL DEF Spec

(* Between honest callers no effectful grant is stored without its plan and,
   when its manifest says R2 or more, an approval of that plan, strong for
   R4: the tier a grant and its plan carry is then the manifest's, and the
   object that was approved says what that tier requires.                   *)
THEOREM GrantsAlwaysAuthorized == HonestCallers => (Spec => []GrantsAreAuthorized)
<1>. SUFFICES ASSUME HonestCallers PROVE Spec => []GrantsAreAuthorized
  OBVIOUS
<1>1. ASSUME TypeOK, AuthorizedInv PROVE GrantsAreAuthorized
  <2>. SUFFICES ASSUME NEW g \in DOMAIN grants
                PROVE  /\ g.plan \in plans
                       /\ g.plan.owner = g.request.owner /\ g.plan.scope = g.request.scope
                       /\ g.policy.owner = g.request.owner
                       /\ g.plan.perms \subseteq g.policy.perms
                       /\ WithinPolicy(g.charges, g.policy)
                       /\ IF NeedsApproval(Tier[g.request.scope])
                            THEN /\ g.approval \in DOMAIN approvals
                                 /\ g.approval.plan = g.plan
                                 /\ Tier[g.request.scope] = "R4" => g.approval.strength = "strong"
                            ELSE g.approval = None
    BY DEF GrantsAreAuthorized
  <2>1. Backed(g) /\ g.plan \in plans /\ (g.approval # None => g.approval \in DOMAIN approvals)
    BY <1>1 DEF AuthorizedInv
  <2>2. g.tier = Tier[g.request.scope]
    BY <2>1 DEF Backed, HonestCallers
  <2>3. g.plan.tier = Tier[g.request.scope]
    BY <1>1, <2>1 DEF AuthorizedInv, Describes, Backed, HonestCallers
  <2>4. ASSUME Tier[g.request.scope] = "R4", g.approval \in DOMAIN approvals, g.approval.plan = g.plan
        PROVE  g.approval.strength = "strong"
    <3>1. PICK d \in PlanObject : d.plan = g.plan /\ Satisfies(g.approval.strength, d)
      BY <1>1, <2>4 DEF AuthorizedInv, Confirmed, Presents
    <3>2. d.required = "strong"
      BY <2>3, <2>4, <3>1 DEF HonestCallers, KindFor
    <3>. QED BY <3>1, <3>2 DEF Satisfies
  <2>. QED BY <2>1, <2>2, <2>4 DEF Backed
<1>. QED BY <1>1, InitType, NextType, AuthorizedInit, AuthorizedStep, PTL DEF Spec

-----------------------------------------------------------------------------
(* Whatever its charge lists name, an overrun stays below twice the limit: *)
(* a list was summed when its grant was issued, so that it fits the limit, *)
(* and its largest charge, which is positive, fits what is left.           *)

LEMMA OverrunInit == Init => OverrunBounded
<1>. SUFFICES ASSUME Init PROVE OverrunBounded
  OBVIOUS
<1>1. QuotaHeld
  BY QuotaInit
<1>. QED BY <1>1 DEF QuotaHeld, OverrunBounded

LEMMA OverrunStep ==
    TypeOK /\ AuthorizedInv /\ OverrunBounded /\ [Next]_vars => OverrunBounded'
<1>. SUFFICES ASSUME TypeOK, AuthorizedInv, OverrunBounded, [Next]_vars PROVE OverrunBounded'
  OBVIOUS
<1>1. CASE UNCHANGED usage
  BY <1>1 DEF OverrunBounded
<1>2. ASSUME NEW c \in Caller, Consume(c) PROVE OverrunBounded'
  <2>1. PICK g \in Grant : QuotaLeft(g) /\ g \in DOMAIN grants /\ usage' = Reserved(g)
    BY <1>2, ConsumeStep DEF Consumable
  <2>2. g.policy \in Policy /\ g.charges \in ChargeList
    BY GrantFacts, ConstantsAssumption
  <2>3. ASSUME NEW p \in Policy, NEW k \in Kind
        PROVE  usage'[p][k] <= p.limit[k] \/ usage'[p][k] < 2 * p.limit[k]
    <3>1. usage'[p][k] = IF p = g.policy THEN usage[p][k] + g.charges[k].total ELSE usage[p][k]
      BY <2>1, <2>2 DEF Reserved, TypeOK
    <3>2. /\ usage[p][k] \in Nat /\ g.charges[k].largest \in Nat /\ g.charges[k].total \in Nat
          /\ p.limit[k] \in Nat
          /\ g.charges[k].largest = 0 => g.charges[k].total = 0
      <4>1. p.limit \in [Kind -> Nat]
        BY ConstantsAssumption DEF PolicyRecord
      <4>. QED BY <2>2, <4>1 DEF TypeOK, ChargeList
    <3>3. g.charges[k].total <= g.policy.limit[k]
      BY <2>1 DEF AuthorizedInv, Backed, WithinPolicy
    <3>4. g.charges[k].largest > 0 =>
             usage[g.policy][k] + g.charges[k].largest <= g.policy.limit[k]
      BY <2>1 DEF QuotaLeft
    <3>5. usage[p][k] <= p.limit[k] \/ usage[p][k] < 2 * p.limit[k]
      BY DEF OverrunBounded
    <3>. QED BY <3>1, <3>2, <3>3, <3>4, <3>5
  <2>. QED BY <2>3 DEF OverrunBounded
<1>. QED BY <1>1, <1>2, TableSteps, OpenStep, IssueStep, RedeemStep DEF Approve

\* Without any hypothesis on charge lists, no quota is ever used twice over.
THEOREM QuotaOverrunBounded == Spec => []OverrunBounded
  BY InitType, NextType, AuthorizedInit, AuthorizedStep, OverrunInit, OverrunStep, PTL DEF Spec

-----------------------------------------------------------------------------
(* Logs.  An event is appended to one log; what that does to the questions *)
(* that AuditMatchesTables asks of a log is settled here once.             *)

At(log, type, subject) == {i \in 1 .. Len(log) : log[i] = Event(type, subject)}
Once(log, type, subject) == \E i \in 1 .. Len(log) : At(log, type, subject) = {i}
Never(log, type, subject) == At(log, type, subject) = {}
Before(log, type1, subject1, type2, subject2) ==
    \A i \in At(log, type1, subject1), j \in At(log, type2, subject2) : i < j

LEMMA LogGrows ==
    ASSUME NEW log \in Seq(EventRecord), NEW t, NEW s, Event(t, s) \in EventRecord
    PROVE  LET longer == Append(log, Event(t, s)) IN
           /\ Never(log, t, s) => Once(longer, t, s)
           /\ \A u, v : u # t \/ v # s =>
                 /\ Never(log, u, v) => Never(longer, u, v)
                 /\ Once(log, u, v) => Once(longer, u, v)
           /\ \A u, v, x, y :
                 Before(log, u, v, x, y) /\ (u = t /\ v = s => Never(log, x, y) /\ x # t)
                    => Before(longer, u, v, x, y)
<1>. DEFINE longer == Append(log, Event(t, s))
            n == Len(log)
<1>1. /\ n \in Nat /\ Len(longer) = n + 1 /\ longer[n + 1] = Event(t, s)
      /\ \A i \in 1 .. n : longer[i] = log[i]
  OBVIOUS
<1>. HIDE DEF longer
<1>2. \A u, v : Event(u, v) = Event(t, s) <=> u = t /\ v = s
  BY DEF Event
<1>3. \A u, v : u # t \/ v # s => At(longer, u, v) = At(log, u, v)
  <2>. SUFFICES ASSUME NEW u, NEW v, u # t \/ v # s
                PROVE  At(longer, u, v) = At(log, u, v)
    OBVIOUS
  <2>1. Event(u, v) # Event(t, s)
    BY <1>2
  <2>2. \A i \in 1 .. n + 1 : longer[i] = Event(u, v) <=> i \in 1 .. n /\ log[i] = Event(u, v)
    BY <1>1, <2>1
  <2>. QED BY <1>1, <2>2 DEF At
<1>4. At(longer, t, s) = At(log, t, s) \cup {n + 1}
  BY <1>1 DEF At
<1>5. Never(log, t, s) => Once(longer, t, s)
  BY <1>1, <1>4 DEF Never, Once
<1>6. \A u, v : u # t \/ v # s =>
         /\ Never(log, u, v) => Never(longer, u, v)
         /\ Once(log, u, v) => Once(longer, u, v)
  BY <1>1, <1>3 DEF Never, Once
<1>7. ASSUME NEW u, NEW v, NEW x, NEW y, Before(log, u, v, x, y),
             u = t /\ v = s => Never(log, x, y) /\ x # t
      PROVE  Before(longer, u, v, x, y)
  <2>1. CASE u = t /\ v = s
    <3>1. At(longer, x, y) = {}
      BY <1>3, <1>7, <2>1 DEF Never
    <3>. QED BY <3>1 DEF Before
  <2>2. CASE ~(u = t /\ v = s)
    <3>1. At(longer, u, v) = At(log, u, v)
      BY <1>3, <2>2
    <3>2. \A i \in At(log, u, v) : i < n + 1
      BY <1>1 DEF At
    <3>3. \A j \in At(longer, x, y) : j \in At(log, x, y) \/ j = n + 1
      BY <1>3, <1>4
    <3>. QED BY <1>7, <3>1, <3>2, <3>3 DEF Before
  <2>. QED BY <2>1, <2>2
<1>. QED BY <1>5, <1>6, <1>7 DEF longer

\* The same of the owners' logs: one of them gets one event.
LEMMA AuditGrows ==
    ASSUME TypeOK, NEW o \in Owner, NEW t \in EventType,
           NEW s \in Plan \cup Approval \cup Grant \cup {None}, AuditAppend(o, t, s)
    PROVE  /\ Never(audit[o], t, s) => Once(audit'[o], t, s)
           /\ \A q \in Owner : \A u, v : q # o \/ u # t \/ v # s =>
                 /\ Never(audit[q], u, v) => Never(audit'[q], u, v)
                 /\ Once(audit[q], u, v) => Once(audit'[q], u, v)
           /\ \A q \in Owner : \A u, v, x, y :
                 /\ Before(audit[q], u, v, x, y)
                 /\ q = o /\ u = t /\ v = s => Never(audit[o], x, y) /\ x # t
                 => Before(audit'[q], u, v, x, y)
<1>1. audit[o] \in Seq(EventRecord) /\ Event(t, s) \in EventRecord
  BY DEF TypeOK, Event, EventRecord
<1>2. audit'[o] = Append(audit[o], Event(t, s)) /\ \A q \in Owner \ {o} : audit'[q] = audit[q]
  BY DEF AuditAppend, TypeOK
<1>3. LET longer == audit'[o] IN
      /\ Never(audit[o], t, s) => Once(longer, t, s)
      /\ \A u, v : u # t \/ v # s =>
            /\ Never(audit[o], u, v) => Never(longer, u, v)
            /\ Once(audit[o], u, v) => Once(longer, u, v)
      /\ \A u, v, x, y :
            Before(audit[o], u, v, x, y) /\ (u = t /\ v = s => Never(audit[o], x, y) /\ x # t)
               => Before(longer, u, v, x, y)
  BY <1>1, <1>2, LogGrows
<1>. QED BY <1>2, <1>3

-----------------------------------------------------------------------------
(* The log and the tables.                                                 *)

Taken(g) == g \in DOMAIN grants /\ grants[g].consumed
Spent(g) == g \in DOMAIN grants /\ grants[g].state = "redeemed"

Tells(log, type, subject, happened) ==
    IF happened THEN Once(log, type, subject) ELSE Never(log, type, subject)

LogsPlan(p) == Tells(audit[p.owner], "plan-created", p, p \in plans)

LogsApproval(a) ==
    LET log == audit[a.owner] IN
    /\ Tells(log, "approval-recorded", a, a \in DOMAIN approvals)
    /\ Before(log, "plan-created", a.plan, "approval-recorded", a)

LogsGrant(g) ==
    LET log == audit[g.request.owner] IN
    /\ Tells(log, "grant-issued", g, g \in DOMAIN grants)
    /\ Tells(log, "grant-consumed", g, Taken(g))
    /\ Tells(log, "receipt-redeemed", g, Spent(g))
    /\ Before(log, "plan-created", g.plan, "grant-issued", g)
    /\ Before(log, "approval-recorded", g.approval, "grant-issued", g)
    /\ Before(log, "grant-issued", g, "grant-consumed", g)
    /\ Before(log, "grant-consumed", g, "receipt-redeemed", g)

\* The last part, that no log records an approval None, is what lets a grant
\* without an approval take part in the order of events.
LogInv ==
    /\ \A p \in Plan : LogsPlan(p)
    /\ \A a \in Approval : LogsApproval(a)
    /\ \A g \in Grant : LogsGrant(g)
    /\ \A o \in Owner : Never(audit[o], "approval-recorded", None)

LEMMA LogTellsTables == LogInv => AuditMatchesTables
<1>1. \A o, t, s, b : Tells(audit[o], t, s, b) => Logged(o, t, s, b)
  BY DEF Tells, Logged, Once, Never, At, Occurrences
<1>2. \A o, t, s, u, v : Before(audit[o], t, s, u, v) => Precedes(o, t, s, u, v)
  BY DEF Before, Precedes, At, Occurrences
<1>. QED BY <1>1, <1>2 DEF LogInv, LogsPlan, LogsApproval, LogsGrant, Taken, Spent, AuditMatchesTables

\* A step that writes no event and changes no row's stage.
LEMMA LogStays ==
    ASSUME LogInv, UNCHANGED <<audit, plans>>, DOMAIN approvals' = DOMAIN approvals,
           DOMAIN grants' = DOMAIN grants,
           \A g \in DOMAIN grants : /\ grants'[g].consumed = grants[g].consumed
                                    /\ grants'[g].state = "redeemed" <=> grants[g].state = "redeemed"
    PROVE  LogInv'
<1>1. \A g \in Grant : Taken(g)' = Taken(g) /\ Spent(g)' = Spent(g)
  BY DEF Taken, Spent
<1>2. \A p \in Plan : LogsPlan(p)'
  BY DEF LogInv, LogsPlan
<1>3. \A a \in Approval : LogsApproval(a)'
  BY DEF LogInv, LogsApproval
<1>4. \A g \in Grant : LogsGrant(g)'
  BY <1>1 DEF LogInv, LogsGrant
<1>. QED BY <1>2, <1>3, <1>4 DEF LogInv

LEMMA OwnerFacts ==
    /\ \A p \in Plan : p.owner \in Owner
    /\ \A a \in Approval : a.plan \in Plan /\ a.owner \in Owner /\ a # None
    /\ \A g \in Grant : g.request.owner \in Owner
BY PlanFacts, ApprovalFacts, GrantFacts

LEMMA LogPlanCreated ==
    ASSUME TypeOK, AuthorizedInv, LogInv, NEW c \in Caller, NEW r \in Request, NEW t \in Target,
           NEW p \in Plan, CreatePlan(c, r, t, p)
    PROVE  LogInv'
<1>1. /\ p \notin plans /\ plans' = plans \cup {p} /\ UNCHANGED <<approvals, grants>>
      /\ AuditAppend(p.owner, "plan-created", p)
  BY DEF CreatePlan
<1>2. /\ Never(audit[p.owner], "plan-created", p) => Once(audit'[p.owner], "plan-created", p)
      /\ \A q \in Owner : \A u, v : q # p.owner \/ u # "plan-created" \/ v # p =>
            /\ Never(audit[q], u, v) => Never(audit'[q], u, v)
            /\ Once(audit[q], u, v) => Once(audit'[q], u, v)
      /\ \A q \in Owner : \A u, v, x, y :
            /\ Before(audit[q], u, v, x, y)
            /\ q = p.owner /\ u = "plan-created" /\ v = p =>
                  Never(audit[p.owner], x, y) /\ x # "plan-created"
            => Before(audit'[q], u, v, x, y)
  BY <1>1, OwnerFacts, AuditGrows DEF EventType
<1>3. \A q \in Plan : LogsPlan(q)'
  BY <1>1, <1>2, OwnerFacts DEF LogInv, LogsPlan, Tells
<1>4. ASSUME NEW a \in Approval PROVE LogsApproval(a)'
  <2>1. a.plan = p => a \notin DOMAIN approvals
    BY <1>1 DEF AuthorizedInv
  <2>. QED BY <1>1, <1>2, <2>1, OwnerFacts DEF LogInv, LogsApproval, Tells
<1>5. ASSUME NEW g \in Grant PROVE LogsGrant(g)'
  <2>1. g.plan = p => g \notin DOMAIN grants
    BY <1>1 DEF AuthorizedInv
  <2>2. Taken(g)' = Taken(g) /\ Spent(g)' = Spent(g)
    BY <1>1 DEF Taken, Spent
  <2>. QED BY <1>1, <1>2, <2>1, <2>2, OwnerFacts DEF LogInv, LogsGrant, Tells
<1>6. \A o \in Owner : Never(audit'[o], "approval-recorded", None)
  BY <1>2 DEF LogInv
<1>. QED BY <1>3, <1>4, <1>5, <1>6 DEF LogInv

LEMMA LogApproved ==
    ASSUME TypeOK, AuthorizedInv, LogInv, NEW c \in Caller, NEW a \in Approval, NEW d \in PlanObject,
             Approve(c, a, d)
    PROVE  LogInv'
<1>1. /\ a \notin DOMAIN approvals /\ DOMAIN approvals' = DOMAIN approvals \cup {a}
      /\ UNCHANGED <<plans, grants>>
      /\ AuditAppend(a.owner, "approval-recorded", a)
  BY DEF Approve, Presents
<1>. DEFINE o == a.owner
<1>2. /\ Never(audit[o], "approval-recorded", a) => Once(audit'[o], "approval-recorded", a)
      /\ \A q \in Owner : \A u, v : q # o \/ u # "approval-recorded" \/ v # a =>
            /\ Never(audit[q], u, v) => Never(audit'[q], u, v)
            /\ Once(audit[q], u, v) => Once(audit'[q], u, v)
      /\ \A q \in Owner : \A u, v, x, y :
            /\ Before(audit[q], u, v, x, y)
            /\ q = o /\ u = "approval-recorded" /\ v = a =>
                  Never(audit[o], x, y) /\ x # "approval-recorded"
            => Before(audit'[q], u, v, x, y)
  BY <1>1, OwnerFacts, AuditGrows DEF EventType
<1>3. \A q \in Plan : LogsPlan(q)'
  BY <1>1, <1>2, OwnerFacts DEF LogInv, LogsPlan, Tells
<1>4. ASSUME NEW b \in Approval PROVE LogsApproval(b)'
  BY <1>1, <1>2, OwnerFacts DEF LogInv, LogsApproval, Tells
<1>5. ASSUME NEW g \in Grant PROVE LogsGrant(g)'
  <2>1. g.approval = a => g \notin DOMAIN grants
    BY <1>1, OwnerFacts DEF AuthorizedInv
  <2>2. Taken(g)' = Taken(g) /\ Spent(g)' = Spent(g)
    BY <1>1 DEF Taken, Spent
  <2>. QED BY <1>1, <1>2, <2>1, <2>2, OwnerFacts DEF LogInv, LogsGrant, Tells
<1>6. \A q \in Owner : Never(audit'[q], "approval-recorded", None)
  BY <1>2, OwnerFacts DEF LogInv
<1>. QED BY <1>3, <1>4, <1>5, <1>6 DEF LogInv

\* An event of one grant, in its owner's log, concerns no other row.
LEMMA LogOfOneGrant ==
    ASSUME TypeOK, LogInv, NEW g \in Grant,
           NEW t \in {"grant-issued", "grant-consumed", "receipt-redeemed"},
           AuditAppend(g.request.owner, t, g),
           UNCHANGED plans, DOMAIN approvals' = DOMAIN approvals,
           \A h \in Grant \ {g} : /\ h \in DOMAIN grants' <=> h \in DOMAIN grants
                                  /\ Taken(h)' <=> Taken(h)
                                  /\ Spent(h)' <=> Spent(h),
           LogsGrant(g)'
    PROVE  LogInv'
<1>. DEFINE o == g.request.owner
<1>. t \in EventType
  BY DEF EventType
<1>1. /\ \A q \in Owner : \A u, v : q # o \/ u # t \/ v # g =>
            /\ Never(audit[q], u, v) => Never(audit'[q], u, v)
            /\ Once(audit[q], u, v) => Once(audit'[q], u, v)
      /\ \A q \in Owner : \A u, v, x, y :
            /\ Before(audit[q], u, v, x, y)
            /\ q = o /\ u = t /\ v = g => Never(audit[o], x, y) /\ x # t
            => Before(audit'[q], u, v, x, y)
  BY OwnerFacts, AuditGrows
<1>2. \A q \in Plan : LogsPlan(q)'
  BY <1>1, OwnerFacts DEF LogInv, LogsPlan, Tells
<1>3. ASSUME NEW b \in Approval PROVE LogsApproval(b)'
  BY <1>1, OwnerFacts DEF LogInv, LogsApproval, Tells
<1>4. ASSUME NEW h \in Grant \ {g} PROVE LogsGrant(h)'
  BY <1>1, OwnerFacts DEF LogInv, LogsGrant, Tells
<1>5. \A q \in Owner : Never(audit'[q], "approval-recorded", None)
  BY <1>1 DEF LogInv
<1>. QED BY <1>2, <1>3, <1>4, <1>5 DEF LogInv

\* What the appended event does to the log of its own grant.
LEMMA OwnLogGrows ==
    ASSUME TypeOK, NEW g \in Grant, NEW t \in EventType, AuditAppend(g.request.owner, t, g)
    PROVE  LET log == audit[g.request.owner]
               longer == audit'[g.request.owner] IN
           /\ Never(log, t, g) => Once(longer, t, g)
           /\ \A u, v : u # t \/ v # g =>
                 /\ Never(log, u, v) => Never(longer, u, v)
                 /\ Once(log, u, v) => Once(longer, u, v)
           /\ \A u, v, x, y :
                 /\ Before(log, u, v, x, y)
                 /\ u = t /\ v = g => Never(log, x, y) /\ x # t
                 => Before(longer, u, v, x, y)
BY OwnerFacts, AuditGrows

LEMMA LogIssued ==
    ASSUME TypeOK, LogInv, NEW c \in Caller, IssueGrant(c)
    PROVE  LogInv'
<1>1. PICK g \in Grant :
      /\ g \notin DOMAIN grants
      /\ AuditAppend(g.request.owner, "grant-issued", g)
      /\ DOMAIN grants' = DOMAIN grants \cup {g} /\ UNCHANGED plans
      /\ DOMAIN approvals' = DOMAIN approvals
      /\ \A h \in DOMAIN grants : grants'[h] = grants[h]
      /\ grants'[g] = [consumed |-> FALSE, state |-> "pending"]
  BY RunningFacts DEF IssueGrant, Issuable
<1>2. \A h \in Grant \ {g} : /\ h \in DOMAIN grants' <=> h \in DOMAIN grants
                             /\ (Taken(h)' <=> Taken(h)) /\ (Spent(h)' <=> Spent(h))
  BY <1>1 DEF Taken, Spent
<1>3. LogsGrant(g)'
  <2>1. LogsGrant(g) /\ ~Taken(g) /\ ~Spent(g) /\ ~Taken(g)' /\ ~Spent(g)'
    BY <1>1 DEF LogInv, Taken, Spent
  <2>. QED BY <1>1, <2>1, OwnLogGrows DEF LogsGrant, Tells, EventType
<1>. QED BY <1>1, <1>2, <1>3, LogOfOneGrant

LEMMA LogConsumed ==
    ASSUME TypeOK, LogInv, NEW c \in Caller, Consume(c)
    PROVE  LogInv'
<1>1. PICK g \in Grant :
      /\ g \in DOMAIN grants /\ ~grants[g].consumed /\ grants[g].state = "pending"
      /\ AuditAppend(g.request.owner, "grant-consumed", g)
      /\ UNCHANGED <<plans, approvals>>
      /\ grants' = [grants EXCEPT ![g] = [@ EXCEPT !.consumed = TRUE, !.state = "available"]]
  BY RunningFacts DEF Consume, Consumable
<1>2. /\ DOMAIN grants' = DOMAIN grants /\ \A h \in DOMAIN grants \ {g} : grants'[h] = grants[h]
      /\ grants'[g].consumed /\ grants'[g].state = "available"
  <2>1. grants[g] \in GrantRow /\ grants = [h \in DOMAIN grants |-> grants[h]]
    BY <1>1 DEF TypeOK
  <2>. QED BY <1>1, <2>1 DEF GrantRow
<1>3. \A h \in Grant \ {g} : /\ h \in DOMAIN grants' <=> h \in DOMAIN grants
                             /\ (Taken(h)' <=> Taken(h)) /\ (Spent(h)' <=> Spent(h))
  BY <1>2 DEF Taken, Spent
<1>4. LogsGrant(g)'
  <2>1. LogsGrant(g) /\ ~Taken(g) /\ ~Spent(g) /\ Taken(g)' /\ ~Spent(g)'
    BY <1>1, <1>2 DEF LogInv, Taken, Spent
  <2>. QED BY <1>1, <1>2, <2>1, OwnLogGrows DEF LogsGrant, Tells, EventType
<1>. QED BY <1>1, <1>3, <1>4, LogOfOneGrant

LEMMA LogRedeemed ==
    ASSUME TypeOK, LogInv, NEW c \in Caller, RedeemReceipt(c)
    PROVE  LogInv'
<1>1. PICK g \in Grant :
      /\ g \in DOMAIN grants /\ grants[g].consumed /\ grants[g].state = "available"
      /\ AuditAppend(g.request.owner, "receipt-redeemed", g)
      /\ UNCHANGED <<plans, approvals>>
      /\ grants' = [grants EXCEPT ![g] = [@ EXCEPT !.state = "redeemed"]]
  BY RunningFacts DEF RedeemReceipt, Redeemable
<1>2. /\ DOMAIN grants' = DOMAIN grants /\ \A h \in DOMAIN grants \ {g} : grants'[h] = grants[h]
      /\ grants'[g].consumed /\ grants'[g].state = "redeemed"
  <2>1. grants[g] \in GrantRow /\ grants = [h \in DOMAIN grants |-> grants[h]]
    BY <1>1 DEF TypeOK
  <2>. QED BY <1>1, <2>1 DEF GrantRow
<1>3. \A h \in Grant \ {g} : /\ h \in DOMAIN grants' <=> h \in DOMAIN grants
                             /\ (Taken(h)' <=> Taken(h)) /\ (Spent(h)' <=> Spent(h))
  BY <1>2 DEF Taken, Spent
<1>4. LogsGrant(g)'
  <2>1. LogsGrant(g) /\ Taken(g) /\ ~Spent(g) /\ Taken(g)' /\ Spent(g)'
    BY <1>1, <1>2 DEF LogInv, Taken, Spent
  <2>. QED BY <1>1, <1>2, <2>1, OwnLogGrows DEF LogsGrant, Tells, EventType
<1>. QED BY <1>1, <1>3, <1>4, LogOfOneGrant

LEMMA LogDenied ==
    ASSUME TypeOK, LogInv, NEW c \in Caller, RecordDenial(c)
    PROVE  LogInv'
<1>1. /\ op[c].owner \in Owner /\ UNCHANGED <<plans, approvals, grants>>
      /\ AuditAppend(op[c].owner, "authorization-denied", None)
  BY DenyFacts DEF RecordDenial
<1>2. /\ \A q \in Owner : \A u, v : u # "authorization-denied" =>
            /\ Never(audit[q], u, v) => Never(audit'[q], u, v)
            /\ Once(audit[q], u, v) => Once(audit'[q], u, v)
      /\ \A q \in Owner : \A u, v, x, y :
            Before(audit[q], u, v, x, y) /\ u # "authorization-denied"
               => Before(audit'[q], u, v, x, y)
  BY <1>1, AuditGrows DEF EventType
<1>3. \A q \in Plan : LogsPlan(q)'
  BY <1>1, <1>2, OwnerFacts DEF LogInv, LogsPlan, Tells
<1>4. ASSUME NEW b \in Approval PROVE LogsApproval(b)'
  BY <1>1, <1>2, OwnerFacts DEF LogInv, LogsApproval, Tells
<1>5. ASSUME NEW g \in Grant PROVE LogsGrant(g)'
  <2>1. Taken(g)' = Taken(g) /\ Spent(g)' = Spent(g)
    BY <1>1 DEF Taken, Spent
  <2>. QED BY <1>1, <1>2, <2>1, OwnerFacts DEF LogInv, LogsGrant, Tells
<1>6. \A q \in Owner : Never(audit'[q], "approval-recorded", None)
  BY <1>2 DEF LogInv
<1>. QED BY <1>3, <1>4, <1>5, <1>6 DEF LogInv

LEMMA LogOpened ==
    ASSUME TypeOK, LogInv, NEW c \in Caller, Open(c)
    PROVE  LogInv'
<1>1. ASSUME NEW g \in DOMAIN grants
      PROVE  /\ grants'[g].consumed = grants[g].consumed
             /\ grants'[g].state = "redeemed" <=> grants[g].state = "redeemed"
  <2>1. grants[g] \in GrantRow /\ (version = 1 => grants[g].state = "absent")
    BY DEF TypeOK
  <2>. QED BY <2>1, OpenStep DEF Migrated, GrantRow
<1>. QED BY <1>1, OpenStep, LogStays DEF Open

LEMMA LogStep ==
    TypeOK /\ AuthorizedInv /\ LogInv /\ [Next]_vars => LogInv'
<1>. SUFFICES ASSUME TypeOK, AuthorizedInv, LogInv, [Next]_vars PROVE LogInv'
  OBVIOUS
<1>1. CASE UNCHANGED dbVars
  BY <1>1, LogStays DEF dbVars
<1>. QED BY <1>1, QuietSteps, LogOpened, LogPlanCreated, LogApproved, LogIssued, LogConsumed,
            LogRedeemed, LogDenied

-----------------------------------------------------------------------------
(* The log of a version-1 store with one grant in it.                      *)

LEMMA JoinEvent ==
    ASSUME NEW S, NEW log \in Seq(S), NEW e \in S
    PROVE  log \o <<>> = log /\ log \o <<e>> = Append(log, e) /\ Append(log, e) \in Seq(S)
OBVIOUS

\* What the log of a grant, consumed or not, says.
TellsOf(log, g, consumed) ==
    /\ \A p : Tells(log, "plan-created", p, p = g.plan)
    /\ \A a : Tells(log, "approval-recorded", a, a = g.approval /\ a # None)
    /\ \A h : /\ Tells(log, "grant-issued", h, h = g)
              /\ Tells(log, "grant-consumed", h, h = g /\ consumed)
              /\ Never(log, "receipt-redeemed", h)
    /\ Before(log, "plan-created", g.plan, "approval-recorded", g.approval)
    /\ Before(log, "plan-created", g.plan, "grant-issued", g)
    /\ Before(log, "approval-recorded", g.approval, "grant-issued", g)
    /\ Before(log, "grant-issued", g, "grant-consumed", g)

LEMMA LegacyLogTells ==
    ASSUME NEW g \in Grant, NEW consumed \in BOOLEAN
    PROVE  TellsOf(LegacyLog(g, consumed), g, consumed)
<1>. DEFINE p == "plan-created"
            a == "approval-recorded"
            L1 == Append(<<>>, Event(p, g.plan))
            L2 == IF g.approval = None THEN L1 ELSE Append(L1, Event(a, g.approval))
            L3 == Append(L2, Event("grant-issued", g))
            L4 == IF consumed THEN Append(L3, Event("grant-consumed", g)) ELSE L3
<1>1. /\ Event(p, g.plan) \in EventRecord /\ Event("grant-issued", g) \in EventRecord
      /\ Event("grant-consumed", g) \in EventRecord
      /\ g.approval # None => Event(a, g.approval) \in EventRecord
  BY GrantFacts DEF Event, EventRecord, EventType
<1>2. <<>> \in Seq(EventRecord) /\ L1 \in Seq(EventRecord)
  BY <1>1, JoinEvent
<1>3. L2 \in Seq(EventRecord)
  BY <1>1, <1>2, JoinEvent
<1>4. L3 \in Seq(EventRecord)
  BY <1>1, <1>3, JoinEvent
<1>5. LegacyLog(g, consumed) = L4
  <2>1. <<Event(p, g.plan)>> = L1
    OBVIOUS
  <2>2. L1 \o (IF g.approval = None THEN <<>> ELSE <<Event(a, g.approval)>>) = L2
    BY <1>1, <1>2, JoinEvent
  <2>3. L2 \o <<Event("grant-issued", g)>> = L3
    BY <1>1, <1>3, JoinEvent
  <2>4. L3 \o (IF consumed THEN <<Event("grant-consumed", g)>> ELSE <<>>) = L4
    BY <1>1, <1>4, JoinEvent
  <2>. QED BY <2>1, <2>2, <2>3, <2>4 DEF LegacyLog
<1>6. \A u, v : Tells(L1, u, v, u = p /\ v = g.plan)
  <2>1. \A u, v : Never(<<>>, u, v)
    BY DEF Never, At
  <2>. QED BY <1>1, <1>2, <2>1, LogGrows DEF Tells
<1>. HIDE DEF L1
<1>7. /\ \A u, v : Tells(L2, u, v, (u = p /\ v = g.plan) \/ (u = a /\ v = g.approval /\ v # None))
      /\ Before(L2, p, g.plan, a, g.approval)
  <2>1. CASE g.approval = None
    <3>1. L2 = L1 /\ Never(L1, a, g.approval)
      BY <1>6, <2>1 DEF Tells
    <3>. QED BY <1>6, <2>1, <3>1 DEF Tells, Never, Before
  <2>2. CASE g.approval # None
    <3>1. L2 = Append(L1, Event(a, g.approval))
      BY <2>2
    <3>2. Never(L1, a, g.approval) /\ Before(L1, p, g.plan, a, g.approval)
      BY <1>6 DEF Tells, Never, Before
    <3>. QED BY <1>1, <1>2, <1>6, <2>2, <3>1, <3>2, LogGrows DEF Tells
  <2>. QED BY <2>1, <2>2
<1>. HIDE DEF L2
<1>8. /\ \A u, v : Tells(L3, u, v, \/ (u = p /\ v = g.plan) \/ (u = a /\ v = g.approval /\ v # None)
                                   \/ (u = "grant-issued" /\ v = g))
      /\ Before(L3, p, g.plan, a, g.approval)
      /\ Before(L3, p, g.plan, "grant-issued", g) /\ Before(L3, a, g.approval, "grant-issued", g)
  <2>1. /\ Never(L2, "grant-issued", g) /\ Before(L2, p, g.plan, "grant-issued", g)
        /\ Before(L2, a, g.approval, "grant-issued", g)
    BY <1>7 DEF Tells, Never, Before
  <2>. QED BY <1>1, <1>3, <1>7, <2>1, LogGrows DEF Tells
<1>. HIDE DEF L3
<1>9. /\ \A u, v : Tells(L4, u, v, \/ (u = p /\ v = g.plan) \/ (u = a /\ v = g.approval /\ v # None)
                                   \/ (u = "grant-issued" /\ v = g)
                                   \/ (u = "grant-consumed" /\ v = g /\ consumed))
      /\ Before(L4, p, g.plan, a, g.approval)
      /\ Before(L4, p, g.plan, "grant-issued", g) /\ Before(L4, a, g.approval, "grant-issued", g)
      /\ Before(L4, "grant-issued", g, "grant-consumed", g)
  <2>1. Never(L3, "grant-consumed", g) /\ Before(L3, "grant-issued", g, "grant-consumed", g)
    BY <1>8 DEF Tells, Never, Before
  <2>2. CASE consumed
    <3>1. L4 = Append(L3, Event("grant-consumed", g))
      BY <2>2
    <3>. QED BY <1>1, <1>4, <1>8, <2>1, <2>2, <3>1, LogGrows DEF Tells
  <2>3. CASE ~consumed
    BY <1>8, <2>1, <2>3 DEF Tells
  <2>. QED BY <2>2, <2>3
<1>. HIDE DEF L4
<1>. QED BY <1>5, <1>9 DEF Tells, TellsOf

LEMMA EmptyLogTells ==
    /\ \A u, v : Never(<<>>, u, v)
    /\ \A u, v, x, y : Before(<<>>, u, v, x, y)
BY DEF Never, Before, At

LEMMA LogInit == Init => LogInv
<1>. SUFFICES ASSUME Init PROVE LogInv
  OBVIOUS
<1>1. CASE NewStore
  <2>1. \A o \in Owner : audit[o] = <<>>
    BY <1>1 DEF NewStore
  <2>2. plans = {} /\ DOMAIN approvals = {} /\ DOMAIN grants = {}
    BY <1>1 DEF NewStore
  <2>. QED BY <2>1, <2>2, EmptyLogTells, OwnerFacts
           DEF LogInv, LogsPlan, LogsApproval, LogsGrant, Taken, Spent, Tells
<1>2. ASSUME NEW g \in LegacyGrants, NEW consumed \in BOOLEAN,
             LegacyIssuable(g), LegacyStore(g, consumed)
      PROVE  LogInv
  <2>. DEFINE log == LegacyLog(g, consumed)
  <2>1. /\ g \in Grant /\ g.plan.owner = g.request.owner
        /\ g.approval # None => g.approval.plan = g.plan /\ g.approval.owner = g.request.owner
    BY <1>2, ConstantsAssumption DEF LegacyIssuable, IssueAllowed
  <2>2. /\ plans = {g.plan} /\ DOMAIN approvals = {g.approval} \ {None} /\ DOMAIN grants = {g}
        /\ grants[g].consumed = consumed /\ grants[g].state # "redeemed"
        /\ \A o \in Owner : audit[o] = IF o = g.request.owner THEN log ELSE <<>>
    BY <1>2 DEF LegacyStore
  <2>3. TellsOf(log, g, consumed)
    BY <2>1, LegacyLogTells
  <2>. HIDE DEF log
  <2>4. \A u, v, x, y : Never(log, u, v) \/ Never(log, x, y) => Before(log, u, v, x, y)
    BY DEF Never, Before
  <2>5. ASSUME NEW p \in Plan PROVE LogsPlan(p)
    BY <2>1, <2>2, <2>3, EmptyLogTells, OwnerFacts DEF LogsPlan, Tells, TellsOf
  <2>6. ASSUME NEW a \in Approval PROVE LogsApproval(a)
    <3>1. CASE a = g.approval
      <4>1. audit[a.owner] = log /\ a \in DOMAIN approvals /\ a.plan = g.plan
        BY <2>1, <2>2, <3>1, OwnerFacts
      <4>. QED BY <2>3, <3>1, <4>1, OwnerFacts DEF LogsApproval, Tells, TellsOf
    <3>2. CASE a # g.approval
      <4>1. Never(log, "approval-recorded", a) /\ a \notin DOMAIN approvals
        BY <2>2, <2>3, <3>2 DEF Tells, TellsOf
      <4>2. audit[a.owner] = log \/ audit[a.owner] = <<>>
        BY <2>2, OwnerFacts
      <4>. QED BY <2>4, <4>1, <4>2, EmptyLogTells DEF LogsApproval, Tells
    <3>. QED BY <3>1, <3>2
  <2>7. ASSUME NEW h \in Grant PROVE LogsGrant(h)
    <3>1. CASE h = g
      <4>1. audit[h.request.owner] = log
        BY <2>1, <2>2, <3>1, OwnerFacts
      <4>. QED BY <2>2, <2>3, <2>4, <3>1, <4>1 DEF LogsGrant, Taken, Spent, Tells, TellsOf
    <3>2. CASE h # g
      <4>1. /\ Never(log, "grant-issued", h) /\ Never(log, "grant-consumed", h)
            /\ Never(log, "receipt-redeemed", h)
        BY <2>3, <3>2 DEF Tells, TellsOf
      <4>2. audit[h.request.owner] = log \/ audit[h.request.owner] = <<>>
        BY <2>2, OwnerFacts
      <4>3. h \notin DOMAIN grants /\ ~Taken(h) /\ ~Spent(h)
        BY <2>2, <3>2 DEF Taken, Spent
      <4>. QED BY <2>4, <4>1, <4>2, <4>3, EmptyLogTells DEF LogsGrant, Tells
    <3>. QED BY <3>1, <3>2
  <2>8. \A o \in Owner : Never(audit[o], "approval-recorded", None)
    BY <2>2, <2>3, EmptyLogTells DEF Tells, TellsOf
  <2>. QED BY <2>5, <2>6, <2>7, <2>8 DEF LogInv
<1>. QED BY <1>1, <1>2 DEF Init

\* The audit log and the tables tell the same story after any interleaving and
\* any crash: each stored row has its events, once each, in the order of its life.
THEOREM AuditAlwaysMatches == Spec => []AuditMatchesTables
BY InitType, NextType, AuthorizedInit, AuthorizedStep, LogInit, LogStep, LogTellsTables, PTL DEF Spec
-----------------------------------------------------------------------------
\* What a set of grants was charged of one kind, as QuotaAccounted adds it up.
Total(k, S) == MapThenSumSet(LAMBDA g : g.charges[k].total, S)

\* The recursion behind that sum: it takes away the elements that CHOOSE picks.
SumsUp(k, S, f) ==
    f = [s \in SUBSET S |->
            IF s = {} THEN 0
            ELSE (CHOOSE x \in s : TRUE).charges[k].total + f[s \ {CHOOSE x \in s : TRUE}]]

LEMMA TotalIsRecursion ==
    ASSUME NEW k, NEW S
    PROVE  Total(k, S) = (CHOOSE f : SumsUp(k, S, f))[S]
  BY DEF Total, SumsUp, MapThenSumSet, MapThenFoldSet

\* A sum that does not depend on an order: one more element adds its cost.
Additive(F, S, k) ==
    /\ F \in [SUBSET S -> Nat]
    /\ F[{}] = 0
    /\ \A T \in SUBSET S, x \in S : x \notin T => F[T \cup {x}] = F[T] + x.charges[k].total

\* Strict inclusion of finite sets is well founded.
LEMMA SmallestSet ==
    ASSUME NEW S, IsFiniteSet(S), NEW Bad \in SUBSET (SUBSET S), Bad # {}
    PROVE  \E T \in Bad : \A U \in Bad : U \subseteq T => U = T
<1>1. IsWellFoundedOn(StrictSubsetOrdering(S), SUBSET S)
  BY FS_StrictSubsetOrderingWellFounded, FS_FiniteSubsetsOfFinite
<1>2. PICK T \in Bad : \A U \in Bad : ~ (<<U, T>> \in StrictSubsetOrdering(S))
  BY <1>1, WFMin, Zenon
<1>3. ASSUME NEW U \in Bad, U \subseteq T PROVE U = T
  <2>1. <<U, T>> \in (SUBSET S) \X (SUBSET S)
    OBVIOUS
  <2>. QED BY <1>2, <1>3, <2>1 DEF StrictSubsetOrdering
<1>. QED BY <1>3

\* Induction over the subsets of a finite set.
LEMMA SubsetsByAdding ==
    ASSUME NEW S, IsFiniteSet(S), NEW Good, {} \in Good,
           \A T \in SUBSET S, x \in S : T \in Good /\ x \notin T => T \cup {x} \in Good
    PROVE  SUBSET S \subseteq Good
<1>. DEFINE Bad == (SUBSET S) \ Good
<1>. SUFFICES ASSUME Bad # {} PROVE FALSE
  OBVIOUS
<1>1. PICK T \in Bad : \A U \in Bad : U \subseteq T => U = T
  <2>1. Bad \in SUBSET (SUBSET S)
    OBVIOUS
  <2>. HIDE DEF Bad
  <2>. QED BY <2>1, SmallestSet
<1>2. PICK x \in T : TRUE
  OBVIOUS
<1>3. T \ {x} \in Good
  BY <1>1, <1>2
<1>4. (T \ {x}) \cup {x} = T
  BY <1>2
<1>. QED BY <1>3, <1>4

LEMMA AdditiveExists ==
    ASSUME NEW k \in Kind, NEW S \in SUBSET Grant, IsFiniteSet(S),
           \A g \in Grant : g.charges[k].total \in Nat
    PROVE  \E F : Additive(F, S, k)
<1>. DEFINE Good == {T \in SUBSET S : \E F : Additive(F, T, k)}
<1>1. {} \in Good
  <2>1. Additive([T \in SUBSET {} |-> 0], {}, k)
    BY DEF Additive
  <2>. QED BY <2>1
<1>2. ASSUME NEW T \in SUBSET S, NEW a \in S, T \in Good, a \notin T
      PROVE  T \cup {a} \in Good
  <2>1. PICK F : Additive(F, T, k)
    BY <1>2
  <2>. DEFINE G == [U \in SUBSET (T \cup {a}) |->
                      IF a \in U THEN F[U \ {a}] + a.charges[k].total ELSE F[U]]
  <2>2. \A U \in SUBSET (T \cup {a}) : /\ U \ {a} \in SUBSET T
                                       /\ a \notin U => U \in SUBSET T
    OBVIOUS
  <2>3. G \in [SUBSET (T \cup {a}) -> Nat] /\ G[{}] = 0
    BY <2>1, <2>2 DEF Additive
  <2>4. ASSUME NEW U \in SUBSET (T \cup {a}), NEW x \in T \cup {a}, x \notin U
        PROVE  G[U \cup {x}] = G[U] + x.charges[k].total
    <3>1. U \cup {x} \in SUBSET (T \cup {a})
      OBVIOUS
    <3>2. CASE x = a
      <4>1. (U \cup {x}) \ {a} = U
        BY <2>4, <3>2
      <4>. QED BY <2>4, <3>1, <3>2, <4>1
    <3>3. CASE x # a /\ a \in U
      <4>1. (U \cup {x}) \ {a} = (U \ {a}) \cup {x}
        BY <3>3
      <4>2. F[(U \ {a}) \cup {x}] = F[U \ {a}] + x.charges[k].total
        BY <2>1, <2>2, <2>4, <3>3 DEF Additive
      <4>3. F[U \ {a}] \in Nat /\ x.charges[k].total \in Nat /\ a.charges[k].total \in Nat
        BY <2>1, <2>2 DEF Additive
      <4>4. G[U \cup {x}] = F[(U \ {a}) \cup {x}] + a.charges[k].total
        BY <3>1, <3>3, <4>1
      <4>5. G[U] = F[U \ {a}] + a.charges[k].total
        BY <3>3
      <4>. HIDE DEF G
      <4>. QED BY <4>2, <4>3, <4>4, <4>5
    <3>4. CASE x # a /\ a \notin U
      <4>1. F[U \cup {x}] = F[U] + x.charges[k].total
        BY <2>1, <2>2, <2>4, <3>4 DEF Additive
      <4>. QED BY <3>1, <3>4, <4>1
    <3>. QED BY <3>2, <3>3, <3>4
  <2>5. Additive(G, T \cup {a}, k)
    <3>. HIDE DEF G
    <3>. QED BY <2>3, <2>4 DEF Additive
  <2>. QED BY <2>5
<1>3. SUBSET S \subseteq Good
  <2>. HIDE DEF Good
  <2>. QED BY <1>1, <1>2, SubsetsByAdding
<1>. QED BY <1>3

\* The recursion computes the additive sum, whatever CHOOSE picks.
LEMMA RecursionIsAdditive ==
    ASSUME NEW k \in Kind, NEW S \in SUBSET Grant, IsFiniteSet(S), NEW F, Additive(F, S, k)
    PROVE  Total(k, S) = F[S]
<1>. DEFINE Chosen(s) == CHOOSE x \in s : TRUE
<1>1. ASSUME NEW s \in SUBSET S, s # {}
      PROVE  /\ Chosen(s) \in s /\ s \ {Chosen(s)} \in SUBSET S
             /\ F[s] = Chosen(s).charges[k].total + F[s \ {Chosen(s)}]
  <2>1. Chosen(s) \in s
    BY <1>1
  <2>. HIDE DEF Chosen
  <2>2. s = (s \ {Chosen(s)}) \cup {Chosen(s)} /\ s \ {Chosen(s)} \in SUBSET S
    BY <2>1
  <2>3. F[s] = F[s \ {Chosen(s)}] + Chosen(s).charges[k].total
    BY <2>1, <2>2 DEF Additive
  <2>4. F[s \ {Chosen(s)}] \in Nat /\ Chosen(s).charges[k].total \in Nat
    BY <2>1, <2>2, GrantFacts DEF Additive
  <2>. QED BY <2>1, <2>2, <2>3, <2>4
<1>2. SumsUp(k, S, F)
  <2>1. F = [s \in SUBSET S |-> F[s]]
    BY DEF Additive
  <2>2. F[{}] = 0
    BY DEF Additive
  <2>. QED BY <1>1, <2>1, <2>2 DEF SumsUp
<1>. DEFINE iter == CHOOSE f : SumsUp(k, S, f)
<1>3. SumsUp(k, S, iter)
  BY <1>2
<1>. HIDE DEF iter, Chosen
<1>4. \A s \in SUBSET S : iter[s] = IF s = {} THEN 0 ELSE Chosen(s).charges[k].total + iter[s \ {Chosen(s)}]
  BY <1>3 DEF SumsUp, Chosen
<1>. DEFINE Bad == {s \in SUBSET S : iter[s] # F[s]}
<1>5. Bad = {}
  <2>. SUFFICES ASSUME Bad # {} PROVE FALSE
    OBVIOUS
  <2>1. PICK s \in Bad : \A U \in Bad : U \subseteq s => U = s
    <3>1. Bad \in SUBSET (SUBSET S)
      OBVIOUS
    <3>. HIDE DEF Bad
    <3>. QED BY <3>1, SmallestSet
  <2>2. s # {}
    BY <1>4 DEF Additive
  <2>3. iter[s \ {Chosen(s)}] = F[s \ {Chosen(s)}]
    BY <1>1, <2>1, <2>2
  <2>. QED BY <1>1, <1>4, <2>1, <2>2, <2>3
<1>6. iter[S] = F[S]
  BY <1>5
<1>. QED BY <1>6, TotalIsRecursion DEF iter

\* What one more grant adds to a sum.
LEMMA TotalGrows ==
    ASSUME NEW k \in Kind, NEW S \in SUBSET Grant, IsFiniteSet(S), NEW g \in Grant, g \notin S
    PROVE  /\ Total(k, S) \in Nat
           /\ Total(k, S \cup {g}) = Total(k, S) + g.charges[k].total
<1>. DEFINE S1 == S \cup {g}
<1>1. IsFiniteSet(S1) /\ S1 \in SUBSET Grant
  BY FS_AddElement
<1>2. PICK F : Additive(F, S1, k)
  <2>. HIDE DEF S1
  <2>. QED BY <1>1, AdditiveExists, GrantFacts
<1>. DEFINE F0 == [T \in SUBSET S |-> F[T]]
<1>3. Additive(F0, S, k)
  <2>1. \A T \in SUBSET S, x \in S : T \cup {x} \in SUBSET S /\ T \in SUBSET S1 /\ x \in S1
    OBVIOUS
  <2>. QED BY <1>2, <2>1 DEF Additive
<1>4. Total(k, S1) = F[S1] /\ Total(k, S) = F0[S]
  <2>. HIDE DEF S1, F0
  <2>. QED BY <1>1, <1>2, <1>3, RecursionIsAdditive
<1>5. F[S \cup {g}] = F[S] + g.charges[k].total /\ F[S] \in Nat
  BY <1>2 DEF Additive
<1>. QED BY <1>4, <1>5

LEMMA TotalOfNone ==
    ASSUME NEW k \in Kind
    PROVE  Total(k, {}) = 0
<1>1. Additive([T \in SUBSET {} |-> 0], {}, k)
  BY DEF Additive
<1>2. {} \in SUBSET Grant /\ IsFiniteSet({})
  BY FS_EmptySet
<1>. QED BY <1>1, <1>2, RecursionIsAdditive

-----------------------------------------------------------------------------
PaidTo(p) == {g \in DOMAIN grants : g.policy = p /\ grants[g].consumed}

AccountInv ==
    /\ IsFiniteSet(DOMAIN grants)
    /\ \A p \in Policy, k \in Kind : usage[p][k] = Total(k, PaidTo(p))

LEMMA AccountTells == AccountInv => QuotaAccounted
  BY DEF AccountInv, QuotaAccounted, PaidTo, Total



LEMMA AccountStays ==
    ASSUME AccountInv, UNCHANGED usage, IsFiniteSet(DOMAIN grants)',
           \A p \in Policy : PaidTo(p)' = PaidTo(p)
    PROVE  AccountInv'
<1>1. ASSUME NEW p \in Policy, NEW k \in Kind
      PROVE  Total(k, PaidTo(p))' = Total(k, PaidTo(p))
  <2>1. PaidTo(p)' = PaidTo(p)
    OBVIOUS
  <2>. QED BY <2>1
<1>. QED BY <1>1 DEF AccountInv

LEMMA AccountInit == Init => AccountInv
<1>. SUFFICES ASSUME Init PROVE AccountInv
  OBVIOUS
<1>1. CASE NewStore
  <2>1. DOMAIN grants = {} /\ IsFiniteSet(DOMAIN grants)
    BY <1>1, FS_EmptySet DEF NewStore
  <2>2. ASSUME NEW p \in Policy, NEW k \in Kind PROVE usage[p][k] = Total(k, PaidTo(p))
    <3>1. PaidTo(p) = {}
      BY <2>1 DEF PaidTo
    <3>. QED BY <1>1, <3>1, TotalOfNone DEF NewStore
  <2>. QED BY <2>1, <2>2 DEF AccountInv
<1>2. ASSUME NEW g \in LegacyGrants, NEW consumed \in BOOLEAN, LegacyStore(g, consumed)
      PROVE  AccountInv
  <2>1. g \in Grant
    BY ConstantsAssumption
  <2>2. DOMAIN grants = {g} /\ grants[g].consumed = consumed /\ IsFiniteSet(DOMAIN grants)
    BY <1>2, FS_Singleton DEF LegacyStore
  <2>3. ASSUME NEW p \in Policy, NEW k \in Kind PROVE usage[p][k] = Total(k, PaidTo(p))
    <3>1. usage[p][k] = IF p = g.policy /\ consumed THEN g.charges[k].total ELSE 0
      BY <1>2 DEF LegacyStore
    <3>2. CASE p = g.policy /\ consumed
      <4>1. PaidTo(p) = {} \cup {g}
        BY <2>2, <3>2 DEF PaidTo
      <4>2. Total(k, {} \cup {g}) = Total(k, {}) + g.charges[k].total
        <5>1. {} \in SUBSET Grant /\ IsFiniteSet({}) /\ g \notin {}
          BY FS_EmptySet
        <5>. QED BY <2>1, <5>1, TotalGrows
      <4>3. g.charges[k].total \in Nat
        BY <2>1, GrantFacts
      <4>. QED BY <3>1, <3>2, <4>1, <4>2, <4>3, TotalOfNone
    <3>3. CASE ~(p = g.policy /\ consumed)
      <4>1. PaidTo(p) = {}
        BY <2>2, <3>3 DEF PaidTo
      <4>. QED BY <3>1, <3>3, <4>1, TotalOfNone
    <3>. QED BY <3>2, <3>3
  <2>. QED BY <2>2, <2>3 DEF AccountInv
<1>. QED BY <1>1, <1>2 DEF Init

LEMMA AccountStep == TypeOK /\ AccountInv /\ [Next]_vars => AccountInv'
<1>. SUFFICES ASSUME TypeOK, AccountInv, [Next]_vars PROVE AccountInv'
  OBVIOUS
<1>0. IsFiniteSet(DOMAIN grants) /\ DOMAIN grants \subseteq Grant
  BY DEF AccountInv, TypeOK
<1>1. CASE UNCHANGED <<version, approvals, grants, usage>>
  <2>1. \A p \in Policy : PaidTo(p)' = PaidTo(p)
    BY <1>1 DEF PaidTo
  <2>. QED BY <1>0, <1>1, <2>1, AccountStays
<1>2. ASSUME NEW c \in Caller, Open(c) PROVE AccountInv'
  <2>1. \A g \in DOMAIN grants : Migrated(grants[g]).consumed = grants[g].consumed
    BY DEF Migrated, TypeOK, GrantRow
  <2>2. /\ UNCHANGED usage /\ DOMAIN grants' = DOMAIN grants
        /\ \A g \in DOMAIN grants : grants'[g].consumed = grants[g].consumed
    BY <1>2, <2>1, OpenStep
  <2>3. \A p \in Policy : PaidTo(p)' = PaidTo(p)
    BY <2>2 DEF PaidTo
  <2>. QED BY <1>0, <2>2, <2>3, AccountStays
<1>3. ASSUME NEW c \in Caller, NEW a \in Approval, NEW d \in PlanObject,
             Approve(c, a, d) PROVE AccountInv'
  <2>1. UNCHANGED <<grants, usage>>
    BY <1>3 DEF Approve
  <2>2. \A p \in Policy : PaidTo(p)' = PaidTo(p)
    BY <2>1 DEF PaidTo
  <2>. QED BY <1>0, <2>1, <2>2, AccountStays
<1>4. ASSUME NEW c \in Caller, IssueGrant(c) PROVE AccountInv'
  <2>1. PICK g \in Grant :
           /\ Issuable(g, op[c].now)
           /\ DOMAIN grants' = DOMAIN grants \cup {g}
           /\ \A h \in DOMAIN grants : grants'[h] = grants[h]
           /\ grants'[g] = [consumed |-> FALSE, state |-> "pending"]
           /\ UNCHANGED usage
    BY <1>4, IssueStep
  <2>2. g \notin DOMAIN grants /\ ~grants'[g].consumed
    BY <2>1 DEF Issuable
  <2>3. \A p \in Policy : PaidTo(p)' = PaidTo(p)
    BY <2>2, <2>1 DEF PaidTo
  <2>4. IsFiniteSet(DOMAIN grants)'
    BY <1>0, <2>1, FS_AddElement
  <2>. QED BY <2>1, <2>3, <2>4, AccountStays
<1>5. ASSUME NEW c \in Caller, Consume(c) PROVE AccountInv'
  <2>1. PICK g \in Grant :
           /\ g \in DOMAIN grants /\ ~grants[g].consumed
           /\ DOMAIN grants' = DOMAIN grants
           /\ \A h \in DOMAIN grants : h # g => grants'[h] = grants[h]
           /\ grants'[g] = [grants[g] EXCEPT !.consumed = TRUE, !.state = "available"]
           /\ usage' = Reserved(g)
    BY <1>5, ConsumeStep DEF Consumable
  <2>2. grants'[g].consumed
    BY <2>1 DEF TypeOK, GrantRow
  <2>3. g.policy \in Policy
    BY GrantFacts
  <2>4. ASSUME NEW p \in Policy, NEW k \in Kind PROVE usage'[p][k] = Total(k, PaidTo(p))'
    <3>1. usage'[p][k] = IF p = g.policy THEN usage[p][k] + g.charges[k].total ELSE usage[p][k]
      BY <2>1, <2>3 DEF Reserved, TypeOK
    <3>2. usage[p][k] = Total(k, PaidTo(p))
      BY DEF AccountInv
    <3>3. CASE p = g.policy
      <4>1. PaidTo(p)' = PaidTo(p) \cup {g} /\ g \notin PaidTo(p)
        BY <2>1, <2>2, <3>3 DEF PaidTo
      <4>2. PaidTo(p) \in SUBSET DOMAIN grants
        BY DEF PaidTo
      <4>3. PaidTo(p) \in SUBSET Grant /\ IsFiniteSet(PaidTo(p))
        BY <1>0, <4>2, FS_Subset
      <4>4. Total(k, PaidTo(p) \cup {g}) = Total(k, PaidTo(p)) + g.charges[k].total
        BY <4>1, <4>3, TotalGrows
      <4>5. Total(k, PaidTo(p))' = Total(k, PaidTo(p) \cup {g})
        BY <4>1
      <4>. QED BY <3>1, <3>2, <3>3, <4>4, <4>5
    <3>4. CASE p # g.policy
      <4>1. PaidTo(p)' = PaidTo(p)
        BY <2>1, <3>4 DEF PaidTo
      <4>2. Total(k, PaidTo(p))' = Total(k, PaidTo(p))
        BY <4>1
      <4>. QED BY <3>1, <3>2, <3>4, <4>2
    <3>. QED BY <3>3, <3>4
  <2>5. IsFiniteSet(DOMAIN grants)'
    BY <1>0, <2>1
  <2>. QED BY <2>4, <2>5 DEF AccountInv
<1>6. ASSUME NEW c \in Caller, RedeemReceipt(c) PROVE AccountInv'
  <2>1. PICK g \in Grant :
           /\ UNCHANGED usage /\ DOMAIN grants' = DOMAIN grants /\ g \in DOMAIN grants
           /\ \A h \in DOMAIN grants : h # g => grants'[h] = grants[h]
           /\ grants'[g] = [grants[g] EXCEPT !.state = "redeemed"]
    BY <1>6, RedeemStep DEF Redeemable
  <2>2. ASSUME NEW h \in DOMAIN grants PROVE grants'[h].consumed = grants[h].consumed
    <3>1. grants[g] \in GrantRow
      BY <2>1 DEF TypeOK
    <3>2. grants'[g].consumed = grants[g].consumed
      BY <2>1, <3>1 DEF GrantRow
    <3>. QED BY <2>1, <3>2
  <2>3. \A p \in Policy : PaidTo(p)' = PaidTo(p)
    BY <2>1, <2>2 DEF PaidTo
  <2>. QED BY <1>0, <2>1, <2>3, AccountStays
<1>. QED BY <1>1, <1>2, <1>3, <1>4, <1>5, <1>6, TableSteps

\* Whatever interleaves, crashes or is migrated, the usage of a policy is the sum
\* of what its consumed grants were charged.
THEOREM QuotaAlwaysAccounted == Spec => []QuotaAccounted
<1>. QED BY AccountTells, AccountInit, AccountStep, InitType, NextType, PTL DEF Spec
=============================================================================
