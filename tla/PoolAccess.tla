------------------------------ MODULE PoolAccess ------------------------------
(***************************************************************************)
(* Which pools of cp-amm come to exist, and when they may be used: configs *)
(* and token badges (admin instructions), the three ways to create a pool, *)
(* the activation point each of them accepts, and the access rules that    *)
(* read it.  CpAmmPool starts from a pool that is already there.           *)
(*                                                                         *)
(* A pool counts in slots or in seconds, and the two clocks are advanced   *)
(* independently.  Left out: prices, liquidity and fees of the parameters  *)
(* (CpAmmPool and CpAmmFees validate them), and the native mint of         *)
(* Token-2022, which is refused everywhere.                                *)
(***************************************************************************)
EXTENDS Integers, FiniteSets

CONSTANTS
    Users,
    NoUser,             \* Pubkey::default()
    Mints,
    SupportedMints,     \* is_supported_mint: no badge is needed
    QuoteMints,         \* DEFAULT_QUOTE_MINTS
    Indexes,            \* of configs
    BUFFER,             \* SLOT_BUFFER and TIME_BUFFER
    FIVE_MINUTES,       \* BUFFER / 12
    MAX_ACTIVATION,     \* MAX_ACTIVATION_SLOT_DURATION, ..._TIME_DURATION
    MaxPools,           \* bound on the pools
    LastCreation,       \* bound on the clocks when a pool is created
    MaxPoint,           \* bound on the clocks
    NoConfig, NoPool    \* stand for accounts that are not there

ActivationTypes == {"Slot", "Timestamp"}
Pairs == {pair \in Mints \X Mints : pair[1] # pair[2]}
Customizable == "customizable"

\* The seeds of a pool's address: its config, or none, and the two mints
\* without their order.
Key(config, pair) == [config |-> config, mints |-> {pair[1], pair[2]}]
Keys == {Key(config, pair) : config \in Indexes \cup {Customizable}, pair \in Pairs}

ASSUME AccessAssumption ==
    /\ NoUser \notin Users
    /\ SupportedMints \subseteq Mints /\ QuoteMints \subseteq Mints
    /\ BUFFER \in [ActivationTypes -> Nat]
    /\ FIVE_MINUTES \in [ActivationTypes -> Nat]
    /\ MAX_ACTIVATION \in [ActivationTypes -> Nat]
    /\ MaxPools \in Nat /\ LastCreation \in Nat /\ MaxPoint \in Nat
    /\ \A t \in ActivationTypes : LastCreation + MAX_ACTIVATION[t] <= MaxPoint

VARIABLES
    point,      \* slot and unix_timestamp of the Clock
    configs,    \* the Config accounts, by index
    badges,     \* the mints that have a TokenBadge
    pools       \* the Pool accounts

vars == <<point, configs, badges, pools>>

Exists(k) == pools[k] # NoPool
Existing == {k \in Keys : Exists(k)}
Now(k) == point[pools[k].activation_type]

-----------------------------------------------------------------------------
(* params/activation.rs.  An activation point is an Option: {} or {p}.     *)

ValidActivation_NoJoinTime(type, activation, has_alpha_vault) ==
    LET now == point[type]
    IN IF has_alpha_vault
       THEN \E p \in activation :
              p > now /\ p - now \in BUFFER[type] .. MAX_ACTIVATION[type]
       ELSE \A p \in activation : p >= now /\ p <= now + MAX_ACTIVATION[type]

ValidActivation_NoLimit(type, activation, has_alpha_vault) ==
    LET now == point[type]
    IN IF has_alpha_vault
       THEN \E p \in activation :
              p > now /\ p - BUFFER[type] - 2 * FIVE_MINUTES[type] >= now
       ELSE \A p \in activation : p >= now

\* ActivationParams::validate.  The last joining point of the vault is five
\* minutes before it may buy, and joining must last as long.
ValidActivation(type, activation, has_alpha_vault) ==
    LET now == point[type]
    IN IF has_alpha_vault
       THEN \E p \in activation :
              /\ p > now
              /\ p - now \in BUFFER[type] .. MAX_ACTIVATION[type]
              /\ (p - BUFFER[type] - FIVE_MINUTES[type]) - FIVE_MINUTES[type] >= now
       ELSE \A p \in activation : p >= now /\ p <= now + MAX_ACTIVATION[type]

ActivationPoint_Default(type, activation) ==
    IF activation = {} THEN 0 ELSE CHOOSE p \in activation : TRUE

\* activation_point.unwrap_or(get_current_point)
ActivationPoint(type, activation) ==
    IF activation = {} THEN point[type] ELSE CHOOSE p \in activation : TRUE

-----------------------------------------------------------------------------
(* Configs and badges, each instruction signed by one of ADMINS            *)

\* The check with the latest point allowed refuses a config with an alpha
\* vault that no pool could use.
CreateStaticConfig(i, vault, authority, type) ==
    /\ configs[i] = NoConfig
    /\ ValidActivation(type, {point[type] + MAX_ACTIVATION[type]}, vault)
    /\ configs' = [configs EXCEPT ![i] =
          [config_type |-> "Static", has_alpha_vault |-> vault,
           pool_creator_authority |-> authority, activation_type |-> type]]
    /\ UNCHANGED <<point, badges, pools>>

\* The other fields stay zero: no vault, and Slot.
CreateDynamicConfig(i, authority) ==
    /\ configs[i] = NoConfig
    /\ authority # NoUser
    /\ configs' = [configs EXCEPT ![i] =
          [config_type |-> "Dynamic", has_alpha_vault |-> FALSE,
           pool_creator_authority |-> authority, activation_type |-> "Slot"]]
    /\ UNCHANGED <<point, badges, pools>>

CloseConfig(i) ==
    /\ configs[i] # NoConfig
    /\ configs' = [configs EXCEPT ![i] = NoConfig]
    /\ UNCHANGED <<point, badges, pools>>

CreateTokenBadge(m) ==
    /\ m \notin SupportedMints /\ m \notin badges
    /\ badges' = badges \cup {m}
    /\ UNCHANGED <<point, configs, pools>>

CloseTokenBadge(m) ==
    /\ m \in badges
    /\ badges' = badges \ {m}
    /\ UNCHANGED <<point, configs, pools>>

SetPoolStatus(k) ==
    /\ Exists(k)
    /\ pools' = [pools EXCEPT ![k].pool_status =
                     IF @ = "Enable" THEN "Disable" ELSE "Enable"]
    /\ UNCHANGED <<point, configs, badges>>

-----------------------------------------------------------------------------
(* Pools                                                                   *)

MintsAllowed(pair) == \A n \in {1, 2} : pair[n] \in SupportedMints \cup badges

\* validate_quote_token
ValidQuoteToken(pair, has_alpha_vault) ==
    /\ pair[1] \notin QuoteMints
    /\ has_alpha_vault => pair[2] \in QuoteMints

\* What the three ways have in common: the account is `init', both mints
\* are allowed, and the pool is stored with what validate accepted.
CreatePool(k, pair, type, activation, vault, partner) ==
    /\ ~Exists(k)
    /\ Cardinality(Existing) < MaxPools
    /\ point[type] <= LastCreation
    /\ MintsAllowed(pair)
    /\ ValidActivation(type, activation, vault)
    /\ pools' = [pools EXCEPT ![k] =
          [token_a |-> pair[1], token_b |-> pair[2],
           has_alpha_vault |-> vault, partner |-> partner,
           activation_type |-> type,
           activation_point |-> ActivationPoint(type, activation),
           pool_status |-> "Enable",
           created |-> point[type]]]
    /\ UNCHANGED <<point, configs, badges>>

\* initialize_pool: a static config decides on clock, vault and creator
InitializePool(i, payer, pair, activation) ==
    /\ configs[i] # NoConfig
    /\ configs[i].config_type = "Static"
    /\ configs[i].pool_creator_authority \in {NoUser, payer}
    /\ CreatePool(Key(i, pair), pair, configs[i].activation_type, activation,
                  configs[i].has_alpha_vault, configs[i].pool_creator_authority)

\* initialize_pool_with_dynamic_config: the config's authority signs, and
\* chooses the rest
InitializePoolWithDynamicConfig(i, authority, pair, type, activation, vault) ==
    /\ configs[i] # NoConfig
    /\ configs[i].config_type = "Dynamic"
    /\ configs[i].pool_creator_authority = authority
    /\ ValidQuoteToken(pair, vault)
    /\ CreatePool(Key(i, pair), pair, type, activation, vault, authority)

\* initialize_customizable_pool: anybody, one pool for two mints
InitializeCustomizablePool(pair, type, activation, vault) ==
    /\ ValidQuoteToken(pair, vault)
    /\ CreatePool(Key(Customizable, pair), pair, type, activation, vault, NoUser)

-----------------------------------------------------------------------------
(* pool_action_access/permissionless.rs                                    *)

PreActivationPoint(k) ==
    IF pools[k].activation_point >= BUFFER[pools[k].activation_type]
    THEN pools[k].activation_point - BUFFER[pools[k].activation_type]
    ELSE 0

CanRemoveLiquidity(k) == Now(k) >= pools[k].activation_point

\* sender_is_vault: the sender is the whitelisted vault; without an alpha
\* vault that is Pubkey::default(), which signs nothing.
CanSwap(k, sender_is_vault) ==
    /\ pools[k].pool_status = "Enable"
    /\ Now(k) >= IF sender_is_vault THEN PreActivationPoint(k)
                                    ELSE pools[k].activation_point

-----------------------------------------------------------------------------
NextSlot ==
    /\ point["Slot"] < MaxPoint
    /\ point' = [point EXCEPT !["Slot"] = @ + 1]
    /\ UNCHANGED <<configs, badges, pools>>

TimePasses ==
    /\ point["Timestamp"] < MaxPoint
    /\ point' = [point EXCEPT !["Timestamp"] = @ + 1]
    /\ UNCHANGED <<configs, badges, pools>>

Init ==
    /\ point = [t \in ActivationTypes |-> 0]
    /\ configs = [i \in Indexes |-> NoConfig]
    /\ badges = {}
    /\ pools = [k \in Keys |-> NoPool]

AdminStep ==
    \/ \E i \in Indexes :
         \/ \E vault \in BOOLEAN, authority \in Users \cup {NoUser},
               type \in ActivationTypes :
              CreateStaticConfig(i, vault, authority, type)
         \/ \E authority \in Users : CreateDynamicConfig(i, authority)
         \/ CloseConfig(i)
    \/ \E m \in Mints : CreateTokenBadge(m) \/ CloseTokenBadge(m)
    \/ \E k \in Keys : SetPoolStatus(k)

Activations == {{}} \cup {{p} : p \in 0 .. MaxPoint + 1}

CreatorStep ==
    \E pair \in Pairs, activation \in Activations :
      \/ \E i \in Indexes, user \in Users :
           \/ InitializePool(i, user, pair, activation)
           \/ \E type \in ActivationTypes, vault \in BOOLEAN :
                InitializePoolWithDynamicConfig(i, user, pair, type, activation, vault)
      \/ \E type \in ActivationTypes, vault \in BOOLEAN :
           InitializeCustomizablePool(pair, type, activation, vault)

Next == AdminStep \/ CreatorStep \/ NextSlot \/ TimePasses

Spec == Init /\ [][Next]_vars

\* Slots are produced and time passes; nobody is obliged to anything.
FairSpec == Spec /\ WF_vars(NextSlot) /\ WF_vars(TimePasses)

-----------------------------------------------------------------------------
(* What must hold.                                                         *)

\* The type invariant.  A pool's activation point is one of its own clock:
\* neither before its creation nor later than the greatest delay.
TypeOK ==
    /\ point \in [ActivationTypes -> Nat]
    /\ configs \in [Indexes -> {NoConfig} \cup
         [config_type : {"Static", "Dynamic"}, has_alpha_vault : BOOLEAN,
          pool_creator_authority : Users \cup {NoUser},
          activation_type : ActivationTypes]]
    /\ badges \subseteq Mints \ SupportedMints
    /\ pools \in [Keys -> {NoPool} \cup
         [token_a : Mints, token_b : Mints, has_alpha_vault : BOOLEAN,
          partner : Users \cup {NoUser}, activation_type : ActivationTypes,
          activation_point : Nat, pool_status : {"Enable", "Disable"}, created : Nat]]
    /\ \A k \in Existing :
         /\ pools[k].created <= Now(k)
         /\ pools[k].activation_point - pools[k].created
              \in 0 .. MAX_ACTIVATION[pools[k].activation_type]

\* A pool with an alpha vault, by whichever of the three ways and from
\* whatever config it was created, first leaves five minutes to join the
\* vault, then five minutes more, then trades with the vault alone for the
\* buffer.  Without one nobody trades before its activation.
VaultTradesFirst ==
    \A k \in Existing :
        LET type == pools[k].activation_type
            age == Now(k) - pools[k].created
        IN IF pools[k].has_alpha_vault
           THEN /\ CanSwap(k, TRUE) => age >= 2 * FIVE_MINUTES[type]
                /\ CanSwap(k, FALSE) => age >= 2 * FIVE_MINUTES[type] + BUFFER[type]
           ELSE CanSwap(k, FALSE) => CanRemoveLiquidity(k)

\* activation.rs:70 "Prevent creation of forever untradable pool": from some
\* time on, liquidity can be removed from any pool, whatever the admins do
\* with it, with its config or with the badges of its mints.
EveryPoolOpens ==
    \A k \in Keys : Exists(k) ~> [](Exists(k) /\ CanRemoveLiquidity(k))
=============================================================================
