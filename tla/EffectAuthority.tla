-------------------------- MODULE EffectAuthority --------------------------
(***************************************************************************)
(* What the authorization runtime promises a host, with no database, no    *)
(* clock and no concurrency in it: an approval lets at most one effect be  *)
(* granted; a granted effect is paid for once, out of what is left of its  *)
(* policy's quotas, and all of its charges together; a paid effect is      *)
(* released to its handler at most once.  When a store of the previous     *)
(* release is taken over, what was paid for before is never released.      *)
(***************************************************************************)
EXTENDS Integers

CONSTANTS
    Grant,       \* the effects that can be granted
    Policy,      \* the policies they are charged to
    Kind,        \* quota kinds
    NoApproval   \* the approval of an effect that needs none

VARIABLES
    granted,     \* effects granted so far
    paid,        \* those of them whose charges have been taken
    released,    \* those of them handed to their handler
    left         \* policy -> kind -> units still available

vars == <<granted, paid, released, left>>

Init ==
    /\ granted \subseteq Grant
    /\ \A g, h \in granted : g.approval # NoApproval /\ g.approval = h.approval => g = h
    /\ paid \subseteq granted
    /\ released = paid
    /\ left \in [Policy -> [Kind -> Nat]]

GrantEffect(g) ==
    /\ g \notin granted
    /\ g.approval # NoApproval => \A h \in granted : h.approval # g.approval
    /\ granted' = granted \cup {g}
    /\ UNCHANGED <<paid, released, left>>

Pay(g) ==
    /\ g \in granted \ paid
    /\ \A k \in Kind : g.charges[k].total <= left[g.policy][k]
    /\ paid' = paid \cup {g}
    /\ left' = [left EXCEPT ![g.policy] = [k \in Kind |-> @[k] - g.charges[k].total]]
    /\ UNCHANGED <<granted, released>>

Release(g) ==
    /\ g \in paid \ released
    /\ released' = released \cup {g}
    /\ UNCHANGED <<granted, paid, left>>

Next == \E g \in Grant : GrantEffect(g) \/ Pay(g) \/ Release(g)

Spec == Init /\ [][Next]_vars
=============================================================================
