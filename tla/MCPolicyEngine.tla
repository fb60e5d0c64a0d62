--------------------------- MODULE MCPolicyEngine ---------------------------
(* Small instances of PolicyEngine for TLC: alice has a destructive (R4)    *)
(* and a local-write (R1) request, bob a request of his own.                *)
EXTENDS PolicyEngine, TLC

Owners == {"alice", "bob"}
Denials == [o \in Owners |-> IF o = "bob" THEN 1 ELSE 0]
Permissions == {"write"}
CallerSymmetry == Permutations(Caller)

Scopes == {"destructive", "local-write"}
Tiers == [s \in Scopes |-> IF s = "destructive" THEN "R4" ELSE "R1"]
Targets == {[scope |-> s, tier |-> Tiers[s]] : s \in Scopes}

Req(owner, scope) == [id |-> scope, owner |-> owner, scope |-> scope]
Foreign == Req("bob", "local-write")
Requests == {Foreign} \cup {Req("alice", s) : s \in Scopes}

PlanOf(scope) == [id |-> scope, owner |-> "alice", scope |-> scope, tier |-> Tiers[scope],
                  perms |-> Permissions]
Plans == {PlanOf(s) : s \in Scopes}
Shown(plan, required) == [plan |-> plan, owner |-> plan.owner, required |-> required]
Exact == {Shown(p, KindFor(p.tier)) : p \in Plans}
\* ... and an object that has the R4 plan's reference and another document.
Altered == Exact \cup {Shown(PlanOf("destructive"), "standard")}

Approved(strength) == [plan |-> PlanOf("destructive"), owner |-> "alice",
                       strength |-> strength, from |-> 0, until |-> 1]
Approvals == {Approved(s) : s \in Strength}

Full == [id |-> "full", owner |-> "alice", perms |-> Permissions,
         limit |-> [k \in {"calls"} |-> 2]]
Policies == {Full}
ChargeOf(largest, total) == [k \in {"calls"} |-> [largest |-> largest, total |-> total]]
Distinct == {ChargeOf(n, n) : n \in {1, 2}}
\* ... and a list of two charges of the same kind, one unit each.
Repeating == {ChargeOf(1, n) : n \in {1, 2}}

Ask(scope, approval, charges) ==
    [request |-> Req("alice", scope), plan |-> PlanOf(scope), policy |-> Full,
     tier |-> Tiers[scope], approval |-> approval, charges |-> charges]

\* Two grants race for one strong approval, the local one races both for the
\* quota; and grants that are to be refused: one with a standard approval, one
\* with none, one of bob's request under alice's plan and policy.
Legacy == {Ask("destructive", Approved("strong"), ChargeOf(1, 1))}
Grants == Legacy \cup
    {Ask("destructive", Approved("strong"), ChargeOf(2, 2)),
     Ask("local-write", None, ChargeOf(1, 1)),
     Ask("destructive", Approved("standard"), ChargeOf(1, 1)),
     Ask("destructive", None, ChargeOf(1, 1)),
     [Ask("local-write", None, ChargeOf(1, 1)) EXCEPT !.request = Foreign]}

RepeatedKind == {Ask("local-write", None, c) : c \in Repeating}
NoGrants == {}
=============================================================================
