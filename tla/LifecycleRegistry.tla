------------------------- MODULE LifecycleRegistry -------------------------
(***************************************************************************)
(* The in-memory registration and activation state of lifecycle.py.  Every *)
(* method takes the registry's lock for its whole body, so it is one step; *)
(* a method that fails may still have advanced the turn and dropped leases *)
(* before it raised, and that part of it is kept.                          *)
(***************************************************************************)
EXTENDS Integers, FiniteSets

CONSTANTS
    Manifest,     \* loaded manifests  [plugin, version, caps]
    Capability,   \* capability identifiers, ordered by CapabilityOrder
    CapabilityOrder, \* CapabilityOrder[c]: the rank of c among the identifiers
    MaxActive,    \* policy.max_active_capabilities
    MaxLease,     \* policy.max_lease_turns
    MaxTurn       \* bound on the logical turns a host presents

ASSUME LifecycleAssumption ==
    /\ \A m \in Manifest : m.caps \subseteq Capability
    /\ IsFiniteSet(Capability)
    /\ CapabilityOrder \in [Capability -> Nat]
    /\ \A c, d \in Capability : CapabilityOrder[c] = CapabilityOrder[d] => c = d
    /\ MaxActive \in Nat \ {0}
    /\ MaxLease \in Nat \ {0}
    /\ MaxTurn \in Nat

\* registration_ref is the digest of plugin, version and manifest bytes: a
\* manifest registered again has the reference it had before.
Registration == Manifest
Turn == 0 .. MaxTurn
Activation == [registration : Registration, since : Turn, expires : Nat]

VARIABLES
    registrations, \* manifests now registered, one per plugin
    capabilities,  \* capability -> the registration that owns it
    active,        \* capability -> its activation
    lastTurn

lifecycleVars == <<registrations, capabilities, active, lastTurn>>

Restricted(f, S) == [x \in DOMAIN f \cap S |-> f[x]]

-----------------------------------------------------------------------------
(* Registration.                                                           *)

RegisterOverlapping(m) ==
    /\ m \notin registrations
    /\ \A n \in registrations : n.plugin # m.plugin
    /\ registrations' = registrations \cup {m}
    /\ capabilities' = [c \in DOMAIN capabilities \cup m.caps |->
                           IF c \in m.caps THEN m ELSE capabilities[c]]
    /\ UNCHANGED <<active, lastTurn>>

\* A manifest already registered is returned as it is; another snapshot of the
\* plugin, or a capability another plugin owns, is refused.
Register(m) ==
    /\ m \notin registrations
    /\ \A n \in registrations : n.plugin # m.plugin
    /\ m.caps \cap DOMAIN capabilities = {}
    /\ registrations' = registrations \cup {m}
    /\ capabilities' = [c \in DOMAIN capabilities \cup m.caps |->
                           IF c \in m.caps THEN m ELSE capabilities[c]]
    /\ UNCHANGED <<active, lastTurn>>

UnregisterActive(m) ==
    /\ m \in registrations
    /\ registrations' = registrations \ {m}
    /\ capabilities' = Restricted(capabilities, Capability \ m.caps)
    /\ UNCHANGED <<active, lastTurn>>

Unregister(m) ==
    /\ m \in registrations
    /\ m.caps \cap DOMAIN active = {}
    /\ registrations' = registrations \ {m}
    /\ capabilities' = Restricted(capabilities, Capability \ m.caps)
    /\ UNCHANGED <<active, lastTurn>>

-----------------------------------------------------------------------------
(* Turns and leases.                                                       *)

LiveLate(turn) ==
    Restricted(active, {c \in DOMAIN active : active[c].expires >= turn})

\* What _advance leaves of the active set at a turn.
Live(turn) ==
    Restricted(active, {c \in DOMAIN active : active[c].expires > turn})

\* _advance alone: active() does just this, and so does a call that advances
\* the turn and then fails.
Advance(turn) ==
    /\ turn >= lastTurn
    /\ lastTurn' = turn
    /\ active' = Live(turn)
    /\ UNCHANGED <<registrations, capabilities>>

Earlier(table, c, d) ==
    \/ table[c].expires < table[d].expires
    \/ table[c].expires = table[d].expires /\ CapabilityOrder[c] < CapabilityOrder[d]

IsLatest(table, v) ==
    v \in DOMAIN table /\ \A c \in DOMAIN table \ {v} : Earlier(table, c, v)
IsVictim(table, v) ==
    v \in DOMAIN table /\ \A c \in DOMAIN table \ {v} : Earlier(table, v, c)

\* The active capabilities that stay when c is activated: all of them when
\* there is room or c is one of them, else all but the victim.
Staying(table, c) ==
    IF c \in DOMAIN table \/ Cardinality(DOMAIN table) < MaxActive
      THEN DOMAIN table
      ELSE {d \in DOMAIN table : ~IsVictim(table, d)}

Activate(c, turn, lease) ==
    /\ turn >= lastTurn
    /\ lease <= MaxLease
    /\ c \in DOMAIN capabilities
    /\ lastTurn' = turn
    /\ active' = [d \in Staying(Live(turn), c) \cup {c} |->
                     IF d = c
                       THEN [registration |-> capabilities[c], since |-> turn,
                             expires |-> turn + lease]
                       ELSE active[d]]
    /\ UNCHANGED <<registrations, capabilities>>

Deactivate(c, turn) ==
    /\ turn >= lastTurn
    /\ c \in DOMAIN Live(turn)
    /\ lastTurn' = turn
    /\ active' = Restricted(Live(turn), Capability \ {c})
    /\ UNCHANGED <<registrations, capabilities>>

\* resolve_active advances the turn and then answers whether c is live for
\* exactly that registration.
ResolvesActive(c, registration, turn) ==
    /\ turn >= lastTurn
    /\ c \in DOMAIN capabilities /\ capabilities[c] = registration
    /\ c \in DOMAIN Live(turn) /\ active[c].registration = registration

-----------------------------------------------------------------------------
LifecycleInit ==
    /\ registrations = {}
    /\ capabilities = <<>>
    /\ active = <<>>
    /\ lastTurn = 0

LifecycleNext ==
    \/ \E m \in Manifest : Register(m) \/ Unregister(m)
    \/ \E turn \in Turn :
          \/ Advance(turn)
          \/ \E c \in Capability :
                \/ Deactivate(c, turn)
                \/ \E lease \in 1 .. MaxLease : Activate(c, turn, lease)

LifecycleSpec == LifecycleInit /\ [][LifecycleNext]_lifecycleVars

-----------------------------------------------------------------------------
(* Properties.                                                             *)

\* Shapes of the four tables.
LifecycleTypeOK ==
    /\ registrations \subseteq Manifest
    /\ DOMAIN capabilities \subseteq Capability
    /\ capabilities \in [DOMAIN capabilities -> Registration]
    /\ DOMAIN active \subseteq Capability
    /\ active \in [DOMAIN active -> Activation]
    /\ lastTurn \in Turn

\* register and unregister keep the two registration tables telling the same
\* story: a capability is owned by exactly the one registered manifest naming it.
OwnershipExact ==
    /\ \A m \in registrations : \A c \in m.caps : c \in DOMAIN capabilities /\ capabilities[c] = m
    /\ \A c \in DOMAIN capabilities : capabilities[c] \in registrations /\ c \in capabilities[c].caps

\* Across any sequence of activations, renewals, evictions and re-registrations
\* the active set stays within the policy, no expired lease is left in it, and
\* no lease outlives the registration it was taken on.
ActiveSetSound ==
    /\ Cardinality(DOMAIN active) <= MaxActive
    /\ \A c \in DOMAIN active :
          /\ lastTurn < active[c].expires
          /\ c \in DOMAIN capabilities /\ active[c].registration = capabilities[c]

\* A live lease ends early only by deactivation, renewal or an eviction, and an
\* eviction takes the earliest expiry, from a full active set, one at a time.
Lost == {c \in DOMAIN active \ DOMAIN active' : active[c].expires > lastTurn'}
Gained == DOMAIN active' \ DOMAIN active

LossExplained ==
    \/ Lost = {}
    \/ \E c \in DOMAIN active :
          Lost = {c} /\ \A d \in DOMAIN active' : d \in DOMAIN active /\ active'[d] = active[d]
    \/ \E v \in DOMAIN active :
          /\ Lost = {v} /\ Cardinality(Gained) = 1
          /\ Cardinality(DOMAIN active') = MaxActive
          /\ \A c \in DOMAIN active \cap DOMAIN active' : Earlier(active, v, c)

LeaseLossExplained == [][LossExplained]_lifecycleVars
=============================================================================
