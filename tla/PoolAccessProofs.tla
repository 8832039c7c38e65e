-------------------------- MODULE PoolAccessProofs --------------------------
(***************************************************************************)
(* Type correctness of PoolAccess, and the order in which a pool opens:    *)
(* first the alpha vault can be joined, then it trades alone, then all do. *)
(***************************************************************************)
EXTENDS PoolAccess, TLAPS

Configs ==
    [config_type : {"Static", "Dynamic"}, has_alpha_vault : BOOLEAN,
     pool_creator_authority : Users \cup {NoUser},
     activation_type : ActivationTypes]

Pools ==
    [token_a : Mints, token_b : Mints, has_alpha_vault : BOOLEAN,
     partner : Users \cup {NoUser}, activation_type : ActivationTypes,
     activation_point : Nat, pool_status : {"Enable", "Disable"}, created : Nat]

\* The activation point of a pool lies within the delays its creation
\* accepts, and that of one with a vault leaves room for what comes before.
Delayed(pool) ==
    LET type == pool.activation_type
        delay == pool.activation_point - pool.created
    IN /\ delay \in 0 .. MAX_ACTIVATION[type]
       /\ pool.has_alpha_vault => delay >= BUFFER[type] + 2 * FIVE_MINUTES[type]

AccessInv ==
    /\ TypeOK
    /\ \A k \in Existing : Delayed(pools[k])

LEMMA TypeParts ==
    ASSUME TypeOK
    PROVE  /\ point \in [ActivationTypes -> Nat]
           /\ configs \in [Indexes -> {NoConfig} \cup Configs]
           /\ badges \subseteq Mints \ SupportedMints
           /\ pools \in [Keys -> {NoPool} \cup Pools]
           /\ \A k \in Existing : pools[k] \in Pools /\ pools[k].created <= Now(k)
  BY DEF TypeOK, Configs, Pools, Existing, Exists

LEMMA AccessInit == Init => AccessInv
  BY DEF Init, AccessInv, TypeOK, Existing, Exists

\* A step that stores or changes one pool, and nothing else.
LEMMA OnePool ==
    ASSUME AccessInv, NEW k \in Keys, NEW pool \in Pools, Delayed(pool),
           pool.created <= point[pool.activation_type],
           pools' = [pools EXCEPT ![k] = pool],
           UNCHANGED <<point, configs, badges>>
    PROVE  AccessInv'
<1>1. pools \in [Keys -> {NoPool} \cup Pools]
  BY TypeParts DEF AccessInv
<1>2. pools' \in [Keys -> {NoPool} \cup Pools]
  BY <1>1
<1>3. \A j \in Existing' : pools'[j].created <= Now(j)' /\ Delayed(pools'[j])
  <2> SUFFICES ASSUME NEW j \in Keys, pools'[j] # NoPool
               PROVE  /\ pools'[j].created <= point[pools'[j].activation_type]
                      /\ Delayed(pools'[j])
    BY DEF Existing, Exists, Now
  <2>1. CASE j = k
    <3>1. pools'[j] = pool
      BY <2>1, <1>1
    <3> QED
      BY <3>1
  <2>2. CASE j # k
    <3>1. pools'[j] = pools[j]
      BY <2>2, <1>1
    <3>2. j \in Existing
      BY <3>1 DEF Existing, Exists
    <3> QED
      BY <3>1, <3>2, TypeParts DEF AccessInv, Now
  <2> QED
    BY <2>1, <2>2
<1>4. \A j \in Existing' :
        /\ pools'[j].created <= Now(j)'
        /\ pools'[j].activation_point - pools'[j].created
             \in 0 .. MAX_ACTIVATION[pools'[j].activation_type]
        /\ Delayed(pools[j])'
  BY <1>3 DEF Delayed
<1>5. TypeOK'
  BY <1>2, <1>4, TypeParts DEF AccessInv, TypeOK, Pools, Configs
<1> QED
  BY <1>4, <1>5 DEF AccessInv

LEMMA StatusStep ==
    ASSUME AccessInv, NEW k \in Keys, SetPoolStatus(k)
    PROVE  AccessInv'
<1> DEFINE status == IF pools[k].pool_status = "Enable" THEN "Disable" ELSE "Enable"
           pool == [pools[k] EXCEPT !.pool_status = status]
<1>1. pools[k] \in Pools /\ pools[k].created <= point[pools[k].activation_type]
  BY TypeParts DEF AccessInv, SetPoolStatus, Existing, Now
<1>2. Delayed(pools[k])
  BY DEF AccessInv, SetPoolStatus, Existing
<1>3. pools' = [pools EXCEPT ![k] = pool] /\ UNCHANGED <<point, configs, badges>>
  BY DEF SetPoolStatus
<1>4. status \in {"Enable", "Disable"}
  OBVIOUS
<1> HIDE DEF status
<1>5. /\ pool \in Pools /\ pool.activation_type = pools[k].activation_type
      /\ pool.activation_point = pools[k].activation_point
      /\ pool.created = pools[k].created
      /\ pool.has_alpha_vault = pools[k].has_alpha_vault
  BY <1>1, <1>4 DEF Pools
<1>6. Delayed(pool)
  BY <1>2, <1>5 DEF Delayed
<1> HIDE DEF pool
<1> QED
  BY <1>1, <1>3, <1>5, <1>6, OnePool

LEMMA CreateStep ==
    ASSUME AccessInv, NEW k \in Keys, NEW pair \in Pairs,
           NEW type \in ActivationTypes, NEW activation \in Activations,
           NEW vault \in BOOLEAN, NEW partner \in Users \cup {NoUser},
           CreatePool(k, pair, type, activation, vault, partner)
    PROVE  AccessInv'
<1> DEFINE at == ActivationPoint(type, activation)
           pool == [token_a |-> pair[1], token_b |-> pair[2],
                    has_alpha_vault |-> vault, partner |-> partner,
                    activation_type |-> type, activation_point |-> at,
                    pool_status |-> "Enable", created |-> point[type]]
<1>1. /\ ValidActivation(type, activation, vault)
      /\ pools' = [pools EXCEPT ![k] = pool]
      /\ UNCHANGED <<point, configs, badges>>
  BY DEF CreatePool
<1>2. point[type] \in Nat
  BY TypeParts DEF AccessInv
<1>3. BUFFER[type] \in Nat /\ FIVE_MINUTES[type] \in Nat /\ MAX_ACTIVATION[type] \in Nat
  BY AccessAssumption
<1>4. ASSUME activation # {}
      PROVE  /\ at \in Nat /\ at - point[type] \in 0 .. MAX_ACTIVATION[type]
             /\ vault => at - point[type] >= BUFFER[type] + 2 * FIVE_MINUTES[type]
  <2>1. PICK p \in 0 .. MaxPoint + 1 : activation = {p}
    BY <1>4 DEF Activations
  <2>2. at = p /\ p \in Nat
    BY <2>1, AccessAssumption DEF ActivationPoint
  <2> HIDE DEF at
  <2>3. CASE vault
    BY <2>1, <2>2, <2>3, <1>1, <1>2, <1>3 DEF ValidActivation
  <2>4. CASE ~vault
    BY <2>1, <2>2, <2>4, <1>1, <1>2, <1>3 DEF ValidActivation
  <2> QED
    BY <2>3, <2>4
<1>5. /\ at \in Nat /\ at - point[type] \in 0 .. MAX_ACTIVATION[type]
      /\ vault => at - point[type] >= BUFFER[type] + 2 * FIVE_MINUTES[type]
  <2>1. CASE activation = {}
    <3>1. ~vault /\ at = point[type]
      BY <1>1, <2>1 DEF ValidActivation, ActivationPoint
    <3> QED
      BY <3>1, <1>2, <1>3
  <2> QED
    BY <2>1, <1>4
<1>6. pair[1] \in Mints /\ pair[2] \in Mints
  BY DEF Pairs
<1> HIDE DEF at
<1>7. pool \in Pools
  BY <1>2, <1>5, <1>6 DEF Pools
<1>8. Delayed(pool) /\ pool.created <= point[pool.activation_type]
  BY <1>2, <1>5 DEF Delayed
<1> HIDE DEF pool
<1> QED
  BY <1>1, <1>7, <1>8, OnePool

\* A step of the configs and badges leaves the pools alone.
LEMMA AdminAccounts ==
    ASSUME AccessInv, UNCHANGED <<point, pools>>,
           configs' \in [Indexes -> {NoConfig} \cup Configs],
           badges' \subseteq Mints \ SupportedMints
    PROVE  AccessInv'
  BY DEF AccessInv, TypeOK, Configs, Existing, Exists, Now, Delayed

LEMMA AdminKeeps == ASSUME AccessInv, AdminStep PROVE AccessInv'
<1>1. /\ configs \in [Indexes -> {NoConfig} \cup Configs]
      /\ badges \subseteq Mints \ SupportedMints
  BY TypeParts DEF AccessInv
<1>2. ASSUME NEW i \in Indexes, NEW vault \in BOOLEAN,
             NEW authority \in Users \cup {NoUser}, NEW type \in ActivationTypes,
             CreateStaticConfig(i, vault, authority, type)
      PROVE  AccessInv'
  BY <1>1, <1>2, AdminAccounts DEF CreateStaticConfig, Configs
<1>3. ASSUME NEW i \in Indexes, NEW authority \in Users,
             CreateDynamicConfig(i, authority)
      PROVE  AccessInv'
  BY <1>1, <1>3, AdminAccounts DEF CreateDynamicConfig, Configs, ActivationTypes
<1>4. ASSUME NEW i \in Indexes, CloseConfig(i) PROVE AccessInv'
  BY <1>1, <1>4, AdminAccounts DEF CloseConfig
<1>5. ASSUME NEW m \in Mints, CreateTokenBadge(m) \/ CloseTokenBadge(m)
      PROVE  AccessInv'
  BY <1>1, <1>5, AdminAccounts DEF CreateTokenBadge, CloseTokenBadge
<1>6. ASSUME NEW k \in Keys, SetPoolStatus(k) PROVE AccessInv'
  BY <1>6, StatusStep
<1> QED
  BY <1>2, <1>3, <1>4, <1>5, <1>6 DEF AdminStep

LEMMA CreatorKeeps == ASSUME AccessInv, CreatorStep PROVE AccessInv'
<1>1. PICK pair \in Pairs, activation \in Activations :
        \/ \E i \in Indexes, user \in Users :
             \/ InitializePool(i, user, pair, activation)
             \/ \E type \in ActivationTypes, vault \in BOOLEAN :
                  InitializePoolWithDynamicConfig(i, user, pair, type, activation, vault)
        \/ \E type \in ActivationTypes, vault \in BOOLEAN :
             InitializeCustomizablePool(pair, type, activation, vault)
  BY DEF CreatorStep
<1>2. \A c \in Indexes \cup {Customizable} : Key(c, pair) \in Keys
  BY DEF Keys
<1>3. ASSUME NEW i \in Indexes, NEW user \in Users,
             InitializePool(i, user, pair, activation)
      PROVE  AccessInv'
  <2>1. configs[i] \in Configs
    BY <1>3, TypeParts DEF AccessInv, InitializePool
  <2>2. /\ configs[i].activation_type \in ActivationTypes
        /\ configs[i].has_alpha_vault \in BOOLEAN
        /\ configs[i].pool_creator_authority \in Users \cup {NoUser}
    BY <2>1 DEF Configs
  <2> QED
    BY <1>2, <1>3, <2>2, CreateStep DEF InitializePool
<1>4. ASSUME NEW i \in Indexes, NEW user \in Users, NEW type \in ActivationTypes,
             NEW vault \in BOOLEAN,
             InitializePoolWithDynamicConfig(i, user, pair, type, activation, vault)
      PROVE  AccessInv'
  BY <1>2, <1>4, CreateStep DEF InitializePoolWithDynamicConfig
<1>5. ASSUME NEW type \in ActivationTypes, NEW vault \in BOOLEAN,
             InitializeCustomizablePool(pair, type, activation, vault)
      PROVE  AccessInv'
  BY <1>2, <1>5, CreateStep DEF InitializeCustomizablePool
<1> QED
  BY <1>1, <1>3, <1>4, <1>5

LEMMA ClocksKeep ==
    ASSUME AccessInv, NextSlot \/ TimePasses
    PROVE  AccessInv'
<1>1. point \in [ActivationTypes -> Nat]
  BY TypeParts DEF AccessInv
<1>2. /\ point' \in [ActivationTypes -> Nat]
      /\ \A t \in ActivationTypes : point[t] <= point'[t]
      /\ UNCHANGED <<configs, badges, pools>>
  BY <1>1 DEF NextSlot, TimePasses, ActivationTypes
<1>3. \A k \in Existing : pools[k].activation_type \in ActivationTypes
                            /\ pools[k].created \in Nat
  BY TypeParts DEF AccessInv, Pools
<1>4. \A k \in Existing' : k \in Existing /\ pools'[k] = pools[k]
  BY <1>2 DEF Existing, Exists
<1>5. \A k \in Existing' : pools'[k].created <= Now(k)'
  <2> SUFFICES ASSUME NEW k \in Existing' PROVE pools'[k].created <= Now(k)'
    OBVIOUS
  <2> DEFINE t == pools[k].activation_type
  <2>1. k \in Existing /\ t \in ActivationTypes /\ pools[k].created \in Nat
    BY <1>3, <1>4
  <2>2. pools[k].created <= point[t]
    BY <2>1, TypeParts DEF AccessInv, Now
  <2>3. point[t] \in Nat /\ point'[t] \in Nat /\ point[t] <= point'[t]
    BY <1>1, <1>2, <2>1
  <2>4. pools[k].created <= point'[t]
    BY <2>1, <2>2, <2>3
  <2> QED
    BY <1>2, <2>4 DEF Now
<1>6. \A k \in Existing' : Delayed(pools[k])' /\ Delayed(pools[k])
  BY <1>2, <1>4 DEF AccessInv, Delayed
<1> QED
  BY <1>2, <1>5, <1>6 DEF AccessInv, TypeOK, Delayed

LEMMA AccessStep == AccessInv /\ [Next]_vars => AccessInv'
<1> SUFFICES ASSUME AccessInv, [Next]_vars PROVE AccessInv'
  OBVIOUS
<1>1. CASE UNCHANGED vars
  BY <1>1 DEF vars, AccessInv, TypeOK, Existing, Exists, Now, Delayed
<1> QED
  BY <1>1, AdminKeeps, CreatorKeeps, ClocksKeep DEF Next

LEMMA AccessInvariant == Spec => []AccessInv
  BY AccessInit, AccessStep, PTL DEF Spec

\* No pool is ever created whose activation point lies before its creation
\* or later than the greatest delay, on whichever clock it counts.
THEOREM TypeCorrect == Spec => []TypeOK
<1>1. AccessInv => TypeOK
  BY DEF AccessInv
<1> QED
  BY <1>1, AccessInvariant, PTL

LEMMA DelayMeansOrder == AccessInv => VaultTradesFirst
<1> SUFFICES ASSUME AccessInv, NEW k \in Existing
             PROVE  LET type == pools[k].activation_type
                        age == Now(k) - pools[k].created
                    IN IF pools[k].has_alpha_vault
                       THEN /\ CanSwap(k, TRUE) => age >= 2 * FIVE_MINUTES[type]
                            /\ CanSwap(k, FALSE) =>
                                 age >= 2 * FIVE_MINUTES[type] + BUFFER[type]
                       ELSE CanSwap(k, FALSE) => CanRemoveLiquidity(k)
  BY DEF VaultTradesFirst
<1> DEFINE type == pools[k].activation_type
           now == Now(k)
           created == pools[k].created
           at == pools[k].activation_point
           buffer == BUFFER[type]
           five == FIVE_MINUTES[type]
<1>1. type \in ActivationTypes /\ created \in Nat /\ at \in Nat
  BY TypeParts DEF AccessInv, Pools
<1>2. now \in Nat /\ buffer \in Nat /\ five \in Nat
  BY <1>1, TypeParts, AccessAssumption DEF AccessInv, Now
<1>3. pools[k].has_alpha_vault => at - created >= buffer + 2 * five
  BY DEF AccessInv, Delayed
<1>4. CanSwap(k, FALSE) => now >= at
  BY DEF CanSwap
<1>5. CanSwap(k, TRUE) => now >= IF at >= buffer THEN at - buffer ELSE 0
  BY DEF CanSwap, PreActivationPoint
<1>6. CanRemoveLiquidity(k) <=> now >= at
  BY DEF CanRemoveLiquidity
<1> HIDE DEF now, created, at, buffer, five
<1>7. pools[k].has_alpha_vault /\ CanSwap(k, TRUE) => now - created >= 2 * five
  BY <1>1, <1>2, <1>3, <1>5
<1>8. pools[k].has_alpha_vault /\ CanSwap(k, FALSE)
        => now - created >= 2 * five + buffer
  BY <1>1, <1>2, <1>3, <1>4
<1> QED
  BY <1>4, <1>6, <1>7, <1>8 DEF now, created, at, buffer, five

\* For all buffers and delays, by each of the three ways to create a pool:
\* a vault can be joined before it trades, and trades before everybody.
THEOREM VaultGoesFirst == Spec => []VaultTradesFirst
  BY AccessInvariant, DelayMeansOrder, PTL
=============================================================================
