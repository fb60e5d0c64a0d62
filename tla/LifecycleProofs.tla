--------------------------- MODULE LifecycleProofs ---------------------------
(***************************************************************************)
(* For any manifests, any number of capabilities and any policy, the       *)
(* registry's two tables agree and its active set is sound.  The one step  *)
(* that takes an argument of its own is the eviction: a full active set    *)
(* has exactly one victim, the least in the lexicographic order of expiry  *)
(* and rank, so that one activation takes one lease away.                  *)
(***************************************************************************)
EXTENDS LifecycleRegistry, TLAPS, FiniteSetTheorems, WellFoundedInduction

\* The tables have their shape, and the two safety properties hold.  Each needs
\* the others: a live lease names an owned capability (ActiveSetSound), which
\* only its registered owner can take away (OwnershipExact).
LifecycleInv == LifecycleTypeOK /\ OwnershipExact /\ ActiveSetSound

-----------------------------------------------------------------------------
(* A set of naturals that is not empty has a least element.                *)

\* The order is well founded, so a minimal element exists; it is the least
\* because the order is total.
LEMMA NatHasLeast ==
  ASSUME NEW S \in SUBSET Nat, S # {}
  PROVE  \E n \in S : \A m \in S : n <= m
<1>. DEFINE R == {ss \in Nat \X Nat : ss[1] < ss[2]}
<1>1. IsWellFoundedOn(R, Nat)
  BY NatLessThanWellFounded DEF OpToRel
<1>2. \A a, b \in Nat : a < b => <<a, b>> \in R
  OBVIOUS
<1>. HIDE DEF R
<1>3. \E x \in S : \A y \in S : ~ (<<y, x>> \in R)
  BY <1>1, WFMin, Zenon
<1>4. PICK x \in S : \A y \in S : ~ (<<y, x>> \in R)
  BY <1>3
<1>5. \A y \in S : ~ (y < x)
  BY <1>2, <1>4
<1>. QED BY <1>5

\* activate's eviction finds its victim: of a non-empty set of leases, one has
\* the earliest expiry and, among those, the least capability, and only one.
LEMMA VictimExists ==
  ASSUME NEW table, DOMAIN table \subseteq Capability, DOMAIN table # {},
         \A c \in DOMAIN table : table[c].expires \in Nat
  PROVE  \E v \in DOMAIN table :
            /\ IsVictim(table, v)
            /\ \A d \in DOMAIN table : IsVictim(table, d) => d = v
<1>. DEFINE Expiries == {table[c].expires : c \in DOMAIN table}
<1>1. PICK e \in Expiries : \A f \in Expiries : e <= f
  <2>1. Expiries \in SUBSET Nat /\ Expiries # {}
    OBVIOUS
  <2>. HIDE DEF Expiries
  <2>. QED BY <2>1, NatHasLeast
<1>. DEFINE First == {c \in DOMAIN table : table[c].expires = e}
            Ranks == {CapabilityOrder[c] : c \in First}
<1>2. PICK n \in Ranks : \A r \in Ranks : n <= r
  <2>1. Ranks \in SUBSET Nat /\ Ranks # {}
    BY LifecycleAssumption
  <2>. HIDE DEF Ranks
  <2>. QED BY <2>1, NatHasLeast
<1>3. PICK v \in First : CapabilityOrder[v] = n
  OBVIOUS
<1>4. IsVictim(table, v)
  <2>. SUFFICES ASSUME NEW c \in DOMAIN table, c # v
                PROVE  Earlier(table, v, c)
    BY DEF IsVictim
  <2>1. table[v].expires = e /\ e <= table[c].expires
    BY <1>1
  <2>2. e \in Nat /\ table[c].expires \in Nat
    OBVIOUS
  <2>3. CASE table[c].expires = e
    <3>1. c \in First
      BY <2>3
    <3>2. n <= CapabilityOrder[c]
      BY <3>1, <1>2
    <3>3. CapabilityOrder[c] # CapabilityOrder[v]
      BY LifecycleAssumption
    <3>. QED BY <3>2, <3>3, <1>3, <2>1, <2>3, LifecycleAssumption DEF Earlier
  <2>4. CASE table[c].expires # e
    BY <2>1, <2>2, <2>4 DEF Earlier
  <2>. QED BY <2>3, <2>4
<1>5. ASSUME NEW d \in DOMAIN table, IsVictim(table, d)
      PROVE  d = v
  <2>. SUFFICES ASSUME d # v PROVE FALSE
    OBVIOUS
  <2>1. Earlier(table, d, v) /\ Earlier(table, v, d)
    BY <1>4, <1>5 DEF IsVictim
  <2>. QED BY <2>1, LifecycleAssumption DEF Earlier
<1>. QED BY <1>4, <1>5

-----------------------------------------------------------------------------
(* Cardinality of what _advance and activate leave active.                 *)

\* _advance only drops leases.
LEMMA LiveIsFewer ==
  ASSUME LifecycleInv, NEW turn
  PROVE  /\ DOMAIN Live(turn) \subseteq DOMAIN active
         /\ \A c \in DOMAIN Live(turn) :
               Live(turn)[c] = active[c] /\ active[c].expires > turn
         /\ IsFiniteSet(DOMAIN Live(turn))
         /\ Cardinality(DOMAIN Live(turn)) <= MaxActive
<1>1. DOMAIN Live(turn) \subseteq DOMAIN active
  BY DEF Live, Restricted
<1>2. \A c \in DOMAIN Live(turn) : Live(turn)[c] = active[c] /\ active[c].expires > turn
  BY DEF Live, Restricted
<1>3. IsFiniteSet(DOMAIN active)
  BY FS_Subset, LifecycleAssumption DEF LifecycleInv, LifecycleTypeOK
<1>4. /\ IsFiniteSet(DOMAIN Live(turn))
      /\ Cardinality(DOMAIN Live(turn)) <= Cardinality(DOMAIN active)
  BY <1>1, <1>3, FS_Subset
<1>5. Cardinality(DOMAIN Live(turn)) \in Nat /\ Cardinality(DOMAIN active) \in Nat
  BY <1>3, <1>4, FS_CardinalityType
<1>. QED BY <1>1, <1>2, <1>4, <1>5, LifecycleAssumption DEF LifecycleInv, ActiveSetSound

\* An activation leaves room for its own lease: whatever the table holds, what
\* stays of it together with the new capability is within the policy.
LEMMA ActivationFits ==
  ASSUME NEW table, DOMAIN table \subseteq Capability,
         \A d \in DOMAIN table : table[d].expires \in Nat,
         Cardinality(DOMAIN table) <= MaxActive, NEW c \in Capability
  PROVE  Cardinality(Staying(table, c) \cup {c}) <= MaxActive
<1>. DEFINE D == DOMAIN table
<1>1. IsFiniteSet(D)
  BY FS_Subset, LifecycleAssumption
<1>2. Cardinality(D) \in Nat /\ MaxActive \in Nat \ {0}
  BY <1>1, FS_CardinalityType, LifecycleAssumption
<1>3. CASE c \in D
  <2>1. Staying(table, c) \cup {c} = D
    BY <1>3 DEF Staying
  <2>. QED BY <2>1
<1>4. CASE c \notin D /\ Cardinality(D) < MaxActive
  <2>1. Staying(table, c) = D
    BY <1>4 DEF Staying
  <2>2. Cardinality(D \cup {c}) = Cardinality(D) + 1
    BY <1>1, <1>4, FS_AddElement
  <2>. QED BY <2>1, <2>2, <1>2, <1>4
<1>5. CASE c \notin D /\ ~(Cardinality(D) < MaxActive)
  <2>1. Cardinality(D) = MaxActive
    BY <1>2, <1>5
  <2>2. D # {}
    BY <2>1, <1>2, FS_EmptySet
  <2>3. PICK v \in D : IsVictim(table, v) /\ \A d \in D : IsVictim(table, d) => d = v
    BY <2>2, VictimExists
  <2>4. Staying(table, c) = D \ {v}
    BY <1>5, <2>3 DEF Staying
  <2>5. IsFiniteSet(D \ {v}) /\ Cardinality(D \ {v}) = Cardinality(D) - 1
    BY <1>1, FS_RemoveElement
  <2>6. Cardinality((D \ {v}) \cup {c}) = Cardinality(D \ {v}) + 1
    BY <1>5, <2>5, FS_AddElement
  <2>. QED BY <2>1, <2>4, <2>5, <2>6, <1>2
<1>. QED BY <1>3, <1>4, <1>5

-----------------------------------------------------------------------------
(* The invariant.                                                          *)

\* At first nothing is registered and nothing is active.
LEMMA LifecycleInvInit == LifecycleInit => LifecycleInv
<1>. SUFFICES ASSUME LifecycleInit PROVE LifecycleInv
  OBVIOUS
<1>1. DOMAIN active = {} /\ DOMAIN capabilities = {} /\ registrations = {}
  BY DEF LifecycleInit
<1>2. LifecycleTypeOK
  BY <1>1, LifecycleAssumption DEF LifecycleInit, LifecycleTypeOK, Turn
<1>3. OwnershipExact
  BY <1>1 DEF OwnershipExact
<1>4. Cardinality(DOMAIN active) = 0
  BY <1>1, FS_EmptySet
<1>5. ActiveSetSound
  BY <1>1, <1>4, LifecycleAssumption DEF ActiveSetSound
<1>. QED BY <1>2, <1>3, <1>5 DEF LifecycleInv

\* register: the new owner's capabilities had no owner and so no lease.
LEMMA RegisterStep ==
  ASSUME LifecycleInv, NEW m \in Manifest, Register(m)
  PROVE  LifecycleInv'
<1>1. /\ DOMAIN capabilities' = DOMAIN capabilities \cup m.caps
      /\ \A c \in m.caps : capabilities'[c] = m
      /\ \A c \in DOMAIN capabilities : c \notin m.caps /\ capabilities'[c] = capabilities[c]
  BY DEF Register
<1>2. LifecycleTypeOK'
  BY <1>1, LifecycleAssumption DEF LifecycleInv, LifecycleTypeOK, Register, Registration
<1>3. OwnershipExact'
  BY <1>1 DEF LifecycleInv, OwnershipExact, Register
<1>4. ActiveSetSound'
  BY <1>1 DEF LifecycleInv, ActiveSetSound, Register
<1>. QED BY <1>2, <1>3, <1>4 DEF LifecycleInv

\* unregister: none of the owner's capabilities is active.
LEMMA UnregisterStep ==
  ASSUME LifecycleInv, NEW m \in Manifest, Unregister(m)
  PROVE  LifecycleInv'
<1>1. /\ DOMAIN capabilities' = DOMAIN capabilities \ m.caps
      /\ \A c \in DOMAIN capabilities' : capabilities'[c] = capabilities[c]
  BY DEF Unregister, Restricted, LifecycleInv, LifecycleTypeOK
<1>2. LifecycleTypeOK'
  BY <1>1 DEF LifecycleInv, LifecycleTypeOK, Unregister, Restricted
<1>3. OwnershipExact'
  <2>1. ASSUME NEW n \in registrations', NEW c \in n.caps
        PROVE  c \in DOMAIN capabilities' /\ capabilities'[c] = n
    <3>1. n \in registrations /\ n # m /\ m \in registrations
      BY DEF Unregister
    <3>2. c \in DOMAIN capabilities /\ capabilities[c] = n /\ c \notin m.caps
      BY <3>1 DEF LifecycleInv, OwnershipExact
    <3>. QED BY <1>1, <3>2
  <2>2. ASSUME NEW c \in DOMAIN capabilities'
        PROVE  capabilities'[c] \in registrations' /\ c \in capabilities'[c].caps
    <3>1. capabilities[c] \in registrations /\ c \in capabilities[c].caps
      BY <1>1 DEF LifecycleInv, OwnershipExact
    <3>2. capabilities[c] # m
      BY <1>1, <3>1
    <3>. QED BY <1>1, <3>1, <3>2 DEF Unregister
  <2>. QED BY <2>1, <2>2 DEF OwnershipExact
<1>4. ActiveSetSound'
  BY <1>1 DEF LifecycleInv, ActiveSetSound, Unregister
<1>. QED BY <1>2, <1>3, <1>4 DEF LifecycleInv

\* A step that changes only leases keeps the registration tables as they are.
LEMMA OwnershipKept ==
  ASSUME LifecycleInv, UNCHANGED <<registrations, capabilities>>
  PROVE  OwnershipExact'
BY DEF LifecycleInv, OwnershipExact

\* _advance: what has expired is dropped before anyone sees the turn.
LEMMA AdvanceStep ==
  ASSUME LifecycleInv, NEW turn \in Turn, Advance(turn)
  PROVE  LifecycleInv'
<1>1. active' = Live(turn) /\ lastTurn' = turn /\ UNCHANGED <<registrations, capabilities>>
  BY DEF Advance
<1>2. LifecycleTypeOK'
  BY <1>1 DEF LifecycleInv, LifecycleTypeOK, Live, Restricted
<1>3. ActiveSetSound'
  <2>1. Cardinality(DOMAIN active') <= MaxActive
    BY <1>1, LiveIsFewer
  <2>2. ASSUME NEW c \in DOMAIN active'
        PROVE  /\ lastTurn' < active'[c].expires
               /\ c \in DOMAIN capabilities' /\ active'[c].registration = capabilities'[c]
    <3>1. c \in DOMAIN active /\ active'[c] = active[c] /\ active[c].expires > turn
      BY <1>1, LiveIsFewer
    <3>2. active[c].expires \in Nat
      BY <3>1 DEF LifecycleInv, LifecycleTypeOK, Activation
    <3>. QED BY <1>1, <3>1, <3>2 DEF LifecycleInv, ActiveSetSound, LifecycleTypeOK, Turn
  <2>. QED BY <2>1, <2>2 DEF ActiveSetSound
<1>. QED BY <1>1, <1>2, <1>3, OwnershipKept DEF LifecycleInv

\* deactivate: an _advance that drops one more.
LEMMA DeactivateStep ==
  ASSUME LifecycleInv, NEW turn \in Turn, NEW c \in Capability, Deactivate(c, turn)
  PROVE  LifecycleInv'
<1>1. lastTurn' = turn /\ UNCHANGED <<registrations, capabilities>>
  BY DEF Deactivate
<1>2. /\ DOMAIN active' \subseteq DOMAIN Live(turn)
      /\ \A d \in DOMAIN active' : active'[d] = Live(turn)[d]
      /\ active' \in [DOMAIN active' -> {Live(turn)[d] : d \in DOMAIN Live(turn)}]
  BY DEF Deactivate, Restricted
<1>3. \A d \in DOMAIN active' : d \in DOMAIN active /\ active'[d] = active[d] /\ active[d].expires > turn
  BY <1>2, LiveIsFewer
<1>4. LifecycleTypeOK'
  BY <1>1, <1>2, <1>3 DEF LifecycleInv, LifecycleTypeOK
<1>5. ActiveSetSound'
  <2>1. Cardinality(DOMAIN active') <= MaxActive
    <3>1. IsFiniteSet(DOMAIN Live(turn)) /\ Cardinality(DOMAIN Live(turn)) <= MaxActive
      BY LiveIsFewer
    <3>2. /\ IsFiniteSet(DOMAIN active')
          /\ Cardinality(DOMAIN active') <= Cardinality(DOMAIN Live(turn))
      BY <1>2, <3>1, FS_Subset
    <3>3. Cardinality(DOMAIN active') \in Nat /\ Cardinality(DOMAIN Live(turn)) \in Nat
      BY <3>1, <3>2, FS_CardinalityType
    <3>. QED BY <3>1, <3>2, <3>3, LifecycleAssumption
  <2>2. ASSUME NEW d \in DOMAIN active'
        PROVE  /\ lastTurn' < active'[d].expires
               /\ d \in DOMAIN capabilities' /\ active'[d].registration = capabilities'[d]
    <3>1. active[d].expires \in Nat
      BY <1>3 DEF LifecycleInv, LifecycleTypeOK, Activation
    <3>. QED BY <1>1, <1>3, <3>1 DEF LifecycleInv, ActiveSetSound, Turn
  <2>. QED BY <2>1, <2>2 DEF ActiveSetSound
<1>. QED BY <1>1, <1>4, <1>5, OwnershipKept DEF LifecycleInv

\* activate: the new lease names the capability's owner of that moment, and the
\* victim makes room for it.
LEMMA ActivateStep ==
  ASSUME LifecycleInv, NEW turn \in Turn, NEW c \in Capability,
         NEW lease \in Nat \ {0}, Activate(c, turn, lease)
  PROVE  LifecycleInv'
<1>. DEFINE table == Live(turn)
<1>1. lastTurn' = turn /\ UNCHANGED <<registrations, capabilities>> /\ c \in DOMAIN capabilities
  BY DEF Activate
<1>2. /\ DOMAIN active' = Staying(table, c) \cup {c}
      /\ \A d \in DOMAIN active' :
            active'[d] = IF d = c THEN [registration |-> capabilities[c], since |-> turn,
                                        expires |-> turn + lease]
                                  ELSE active[d]
  BY DEF Activate
<1>3. Staying(table, c) \subseteq DOMAIN table
  BY DEF Staying
<1>4. \A d \in DOMAIN table : d \in DOMAIN active /\ table[d] = active[d] /\ active[d].expires > turn
  BY LiveIsFewer
<1>5. \A d \in DOMAIN active : active[d] \in Activation
  BY DEF LifecycleInv, LifecycleTypeOK
<1>6. turn \in Nat /\ turn + lease \in Nat /\ turn < turn + lease
  BY LifecycleAssumption DEF Turn
<1>7. capabilities[c] \in Registration
  BY <1>1 DEF LifecycleInv, LifecycleTypeOK
<1>8. LifecycleTypeOK'
  <2>1. DOMAIN active' \subseteq Capability
    BY <1>2, <1>3, <1>4 DEF LifecycleInv, LifecycleTypeOK
  <2>2. \A d \in DOMAIN active' : active'[d] \in Activation
    BY <1>2, <1>3, <1>4, <1>5, <1>6, <1>7 DEF Activation
  <2>3. active' \in [DOMAIN active' -> Activation]
    BY <2>2 DEF Activate
  <2>. QED BY <1>1, <2>1, <2>3 DEF LifecycleInv, LifecycleTypeOK
<1>9. ActiveSetSound'
  <2>1. Cardinality(DOMAIN active') <= MaxActive
    <3>1. DOMAIN table \subseteq Capability
      BY <1>4 DEF LifecycleInv, LifecycleTypeOK
    <3>2. \A d \in DOMAIN table : table[d].expires \in Nat
      BY <1>4, <1>5 DEF Activation
    <3>3. Cardinality(DOMAIN table) <= MaxActive
      BY LiveIsFewer
    <3>. HIDE DEF table
    <3>. QED BY <1>2, <3>1, <3>2, <3>3, ActivationFits
  <2>2. ASSUME NEW d \in DOMAIN active'
        PROVE  /\ lastTurn' < active'[d].expires
               /\ d \in DOMAIN capabilities' /\ active'[d].registration = capabilities'[d]
    <3>1. CASE d = c
      BY <1>1, <1>2, <1>6, <3>1
    <3>2. CASE d # c
      <4>1. d \in DOMAIN active /\ active'[d] = active[d] /\ active[d].expires > turn
        BY <1>2, <1>3, <1>4, <3>2
      <4>2. active[d].expires \in Nat
        BY <4>1, <1>5 DEF Activation
      <4>. QED BY <1>1, <1>6, <4>1, <4>2 DEF LifecycleInv, ActiveSetSound
    <3>. QED BY <3>1, <3>2
  <2>. QED BY <2>1, <2>2 DEF ActiveSetSound
<1>. QED BY <1>1, <1>8, <1>9, OwnershipKept DEF LifecycleInv

LEMMA LifecycleInvStep == LifecycleInv /\ [LifecycleNext]_lifecycleVars => LifecycleInv'
<1>. SUFFICES ASSUME LifecycleInv, [LifecycleNext]_lifecycleVars
              PROVE  LifecycleInv'
  OBVIOUS
<1>1. ASSUME NEW m \in Manifest, Register(m) PROVE LifecycleInv'
  BY <1>1, RegisterStep
<1>2. ASSUME NEW m \in Manifest, Unregister(m) PROVE LifecycleInv'
  BY <1>2, UnregisterStep
<1>3. ASSUME NEW turn \in Turn, Advance(turn) PROVE LifecycleInv'
  BY <1>3, AdvanceStep
<1>4. ASSUME NEW turn \in Turn, NEW c \in Capability, Deactivate(c, turn) PROVE LifecycleInv'
  BY <1>4, DeactivateStep
<1>5. ASSUME NEW turn \in Turn, NEW c \in Capability, NEW lease \in 1 .. MaxLease,
             Activate(c, turn, lease)
      PROVE  LifecycleInv'
  <2>1. lease \in Nat \ {0}
    BY LifecycleAssumption
  <2>. QED BY <1>5, <2>1, ActivateStep
<1>6. CASE UNCHANGED lifecycleVars
  BY <1>6 DEF lifecycleVars, LifecycleInv, LifecycleTypeOK, OwnershipExact, ActiveSetSound
<1>. QED BY <1>1, <1>2, <1>3, <1>4, <1>5, <1>6 DEF LifecycleNext

-----------------------------------------------------------------------------
(* What a step may do to a live lease.                                     *)

\* activate with room, or of a capability that is live already, ends no lease.
LEMMA RenewalLosesNothing ==
  ASSUME LifecycleInv, NEW turn \in Turn, NEW c \in Capability, NEW lease \in Nat \ {0},
         Activate(c, turn, lease),
         c \in DOMAIN Live(turn) \/ Cardinality(DOMAIN Live(turn)) < MaxActive
  PROVE  Lost = {}
<1>1. DOMAIN Live(turn) \subseteq DOMAIN active' /\ lastTurn' = turn
  BY DEF Activate, Staying
<1>2. \A d \in DOMAIN active : active[d].expires > turn => d \in DOMAIN Live(turn)
  BY DEF Live, Restricted, LifecycleInv, LifecycleTypeOK
<1>. QED BY <1>1, <1>2 DEF Lost

\* activate with a full active set ends the victim's lease and no other.  The
\* new capability had no lease, not even an expired one: with one expired the
\* set would not be full.
LEMMA EvictionTakesTheVictim ==
  ASSUME LifecycleInv, NEW turn \in Turn, NEW c \in Capability, NEW lease \in Nat \ {0},
         Activate(c, turn, lease),
         c \notin DOMAIN Live(turn), ~(Cardinality(DOMAIN Live(turn)) < MaxActive)
  PROVE  \E v \in DOMAIN active :
            /\ Lost = {v} /\ Cardinality(Gained) = 1
            /\ Cardinality(DOMAIN active') = MaxActive
            /\ \A d \in DOMAIN active \cap DOMAIN active' : Earlier(active, v, d)
<1>. DEFINE D == DOMAIN Live(turn)
<1>1. /\ D \subseteq DOMAIN active
      /\ \A d \in D : Live(turn)[d] = active[d] /\ active[d].expires > turn
      /\ IsFiniteSet(D) /\ Cardinality(D) <= MaxActive
  BY LiveIsFewer
<1>2. /\ DOMAIN active \subseteq Capability /\ IsFiniteSet(DOMAIN active)
      /\ Cardinality(DOMAIN active) <= MaxActive
      /\ \A d \in DOMAIN active : active[d].expires \in Nat
  BY FS_Subset, LifecycleAssumption
     DEF LifecycleInv, LifecycleTypeOK, ActiveSetSound, Activation
<1>3. /\ Cardinality(D) \in Nat /\ Cardinality(DOMAIN active) \in Nat
      /\ MaxActive \in Nat \ {0}
  BY <1>1, <1>2, FS_CardinalityType, LifecycleAssumption
<1>4. Cardinality(D) = MaxActive
  BY <1>1, <1>3
<1>5. D = DOMAIN active
  <2>1. Cardinality(D) <= Cardinality(DOMAIN active)
    BY <1>1, <1>2, FS_Subset
  <2>2. Cardinality(D) = Cardinality(DOMAIN active)
    BY <2>1, <1>2, <1>3, <1>4
  <2>. QED BY <2>2, <1>1, <1>2, FS_Subset
<1>6. PICK v \in D : IsVictim(Live(turn), v) /\ \A d \in D : IsVictim(Live(turn), d) => d = v
  <2>1. D # {}
    BY <1>3, <1>4, FS_EmptySet
  <2>. QED BY <2>1, <1>1, <1>2, VictimExists
<1>7. lastTurn' = turn /\ DOMAIN active' = (D \ {v}) \cup {c}
  BY <1>6 DEF Activate, Staying
<1>8. Lost = {v}
  BY <1>1, <1>5, <1>7 DEF Lost
<1>9. Cardinality(Gained) = 1
  <2>1. Gained = {c}
    BY <1>5, <1>7 DEF Gained
  <2>. QED BY <2>1, FS_Singleton
<1>10. Cardinality(DOMAIN active') = MaxActive
  <2>1. IsFiniteSet(D \ {v}) /\ Cardinality(D \ {v}) = Cardinality(D) - 1
    BY <1>1, <1>6, FS_RemoveElement
  <2>2. Cardinality((D \ {v}) \cup {c}) = Cardinality(D \ {v}) + 1
    BY <2>1, FS_AddElement
  <2>. QED BY <2>1, <2>2, <1>3, <1>4, <1>7
<1>11. \A d \in DOMAIN active \cap DOMAIN active' : Earlier(active, v, d)
  <2>. SUFFICES ASSUME NEW d \in DOMAIN active \cap DOMAIN active'
                PROVE  Earlier(active, v, d)
    OBVIOUS
  <2>1. d \in D \ {v}
    BY <1>5, <1>7
  <2>2. Earlier(Live(turn), v, d)
    BY <2>1, <1>6 DEF IsVictim
  <2>. QED BY <2>1, <2>2, <1>1, <1>6 DEF Earlier
<1>. QED BY <1>5, <1>6, <1>8, <1>9, <1>10, <1>11

LEMMA LossStep == LifecycleInv /\ [LifecycleNext]_lifecycleVars => [LossExplained]_lifecycleVars
<1>. SUFFICES ASSUME LifecycleInv, LifecycleNext PROVE LossExplained
  OBVIOUS
<1>1. ASSUME UNCHANGED active PROVE LossExplained
  BY <1>1 DEF Lost, LossExplained
<1>2. ASSUME NEW m \in Manifest, Register(m) \/ Unregister(m) PROVE LossExplained
  BY <1>1, <1>2 DEF Register, Unregister
<1>3. ASSUME NEW turn \in Turn, Advance(turn) PROVE LossExplained
  <2>1. Lost = {}
    BY <1>3 DEF Advance, Live, Restricted, Lost
  <2>. QED BY <2>1 DEF LossExplained
<1>4. ASSUME NEW turn \in Turn, NEW c \in Capability, Deactivate(c, turn) PROVE LossExplained
  <2>1. /\ lastTurn' = turn /\ c \in DOMAIN active /\ active[c].expires > turn
        /\ DOMAIN active' = {d \in DOMAIN active : active[d].expires > turn /\ d # c}
        /\ \A d \in DOMAIN active' : active'[d] = active[d]
    BY <1>4 DEF Deactivate, Live, Restricted, LifecycleInv, LifecycleTypeOK
  <2>2. Lost = {c}
    BY <2>1 DEF Lost
  <2>. QED BY <2>1, <2>2 DEF LossExplained
<1>5. ASSUME NEW turn \in Turn, NEW c \in Capability, NEW lease \in 1 .. MaxLease,
             Activate(c, turn, lease)
      PROVE  LossExplained
  <2>1. lease \in Nat \ {0}
    BY LifecycleAssumption
  <2>2. CASE c \in DOMAIN Live(turn) \/ Cardinality(DOMAIN Live(turn)) < MaxActive
    BY <1>5, <2>1, <2>2, RenewalLosesNothing DEF LossExplained
  <2>3. CASE c \notin DOMAIN Live(turn) /\ ~(Cardinality(DOMAIN Live(turn)) < MaxActive)
    BY <1>5, <2>1, <2>3, EvictionTakesTheVictim DEF LossExplained
  <2>. QED BY <2>2, <2>3
<1>. QED BY <1>2, <1>3, <1>4, <1>5 DEF LifecycleNext

-----------------------------------------------------------------------------
(* register and unregister never leave a capability without its one        *)
(* registered owner, nor an owner without one of its capabilities.         *)
THEOREM OwnershipAlwaysExact == LifecycleSpec => []OwnershipExact
<1>1. LifecycleInv => OwnershipExact
  BY DEF LifecycleInv
<1>. QED BY <1>1, LifecycleInvInit, LifecycleInvStep, PTL DEF LifecycleSpec

(* However long the host runs, the active set is within the policy, holds  *)
(* no expired lease, and no lease outlives its registration.               *)
THEOREM ActiveSetAlwaysSound == LifecycleSpec => []ActiveSetSound
<1>1. LifecycleInv => ActiveSetSound
  BY DEF LifecycleInv
<1>. QED BY <1>1, LifecycleInvInit, LifecycleInvStep, PTL DEF LifecycleSpec

(* A live lease ends early only by deactivation, or as the earliest of a   *)
(* full active set, one lease for one activation.                          *)
THEOREM LeaseLossAlwaysExplained == LifecycleSpec => LeaseLossExplained
<1>. QED BY LifecycleInvInit, LifecycleInvStep, LossStep, PTL DEF LifecycleSpec, LeaseLossExplained
=============================================================================
