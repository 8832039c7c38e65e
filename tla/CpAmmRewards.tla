---------------------------- MODULE CpAmmRewards ----------------------------
(***************************************************************************)
(* One farming reward of a cp-amm pool: RewardInfo with its vault, and     *)
(* what each position earns of it.  The two rewards of a pool do not read  *)
(* each other's state; a pool where only the other one is initialised      *)
(* behaves, for this one, as one without rewards.                          *)
(*                                                                         *)
(* Of the rest of the pool only the liquidity matters here; it changes     *)
(* when positions add, remove and split theirs (CpAmmPool has the rest).   *)
(* The reward's mint may have a transfer fee; its freeze authority may     *)
(* freeze the vault, and thaw it.  X_Mistake next to X is X with a mistake *)
(* one could make.                                                         *)
(***************************************************************************)
EXTENDS TransferFees, FiniteSets

CONSTANTS
    Positions,          \* the positions there may be
    First,              \* the position the pool is created with
    Admins,             \* assert_eq_admin
    Creator,            \* Pool.creator
    Funders,            \* who may be made the reward's funder
    NoFunder,           \* before there is one
    REWARD_INDEX,       \* which of the pool's rewards this is
    RewardFee,          \* the transfer fee of the reward's mint
    RATE_UNIT,          \* 2^REWARD_RATE_SCALE = 2^64
    LIQUIDITY_UNIT,     \* 2^LIQUIDITY_SCALE = 2^128
    SPLIT_DENOMINATOR,  \* SPLIT_POSITION_DENOMINATOR
    Durations,          \* from MIN_REWARD_DURATION to MAX_REWARD_DURATION
    Amounts,            \* what a funder may bring
    Liquidities,        \* what a position may add or remove
    SplitNumerators,    \* [liquidity, reward] of split_position2
    MaxLiquidity,       \* bound on the pool's liquidity
    MaxFundings,        \* bound on fund_reward
    MaxMoves,           \* bound on additions, removals and splits
    MaxTime,            \* bound on the clock
    SHARES              \* a common multiple of 1 .. MaxLiquidity (history)

ASSUME RewardsAssumption ==
    /\ IsFiniteSet(Positions) /\ First \in Positions
    /\ RewardFee \in TransferFees
    /\ RATE_UNIT \in Nat \ {0} /\ LIQUIDITY_UNIT \in Nat \ {0}
    /\ SPLIT_DENOMINATOR \in Nat \ {0}
    /\ Durations \subseteq Nat \ {0} /\ Amounts \subseteq Nat \ {0}
    /\ MaxLiquidity \in Nat /\ Liquidities \subseteq 1 .. MaxLiquidity
    /\ \A n \in SplitNumerators : {n.liquidity, n.reward} \subseteq 0 .. SPLIT_DENOMINATOR
    /\ SHARES \in Nat \ {0} /\ \A l \in 1 .. MaxLiquidity : SHARES % l = 0

VARIABLES
    reward,     \* the RewardInfo
    liquidity,  \* Pool.liquidity
    open,       \* the positions that exist
    position,   \* of each position: its liquidity and its UserRewardInfo
    vault,      \* the reward vault
    frozen,     \* is the vault frozen
    now,        \* the unix timestamp
    fundings,   \* fund_reward so far
    moves,      \* additions, removals and splits so far
    claimed,    \* history: rewards paid to each position
    share       \* history: what each position has earned, second by second,
                \* in units of 1 / (RATE_UNIT * SHARES)

vars == <<reward, liquidity, open, position, vault, frozen, now, fundings, moves, claimed, share>>

-----------------------------------------------------------------------------
(* RewardInfo, UserRewardInfo                                              *)

RewardInfo ==
    [initialized : BOOLEAN, funder : Funders \cup {NoFunder},
     reward_duration : Durations \cup {0}, reward_duration_end : Nat,
     reward_rate : Nat, reward_per_token_stored : Nat,
     last_update_time : Nat, empty_seconds : Nat]

\* With the liquidity of its position
UserRewardInfo == [liquidity : Nat, pending : Nat, checkpoint : Nat]

ElapsedSince(r, time) == Least(time, r.reward_duration_end) - r.last_update_time

LastUpdate_Now(r, time) == time
\* update_last_update_time
LastUpdate(r, time) == Least(time, r.reward_duration_end)

\* RewardInfo::update_rewards: to the liquidity, or to the seconds nobody earned
UpdatePool(r, supply, time) ==
    LET elapsed == ElapsedSince(r, time)
    IN IF ~r.initialized THEN r
       ELSE IF supply > 0
       THEN [r EXCEPT !.reward_per_token_stored =
                        @ + (elapsed * r.reward_rate * LIQUIDITY_UNIT) \div supply,
                      !.last_update_time = LastUpdate(r, time)]
       ELSE [r EXCEPT !.empty_seconds = @ + elapsed,
                      !.last_update_time = LastUpdate(r, time)]

NewReward(pos, stored) ==
    (pos.liquidity * (stored - pos.checkpoint)) \div (LIQUIDITY_UNIT * RATE_UNIT)

UpdatePosition_Overwrites(r, pos) ==
    IF ~r.initialized THEN pos
    ELSE [pos EXCEPT !.pending = NewReward(pos, r.reward_per_token_stored),
                     !.checkpoint = r.reward_per_token_stored]

UpdatePosition_SkipsEmpty(r, pos) ==
    IF ~r.initialized \/ pos.liquidity = 0 THEN pos
    ELSE [pos EXCEPT !.pending = @ + NewReward(pos, r.reward_per_token_stored),
                     !.checkpoint = r.reward_per_token_stored]

\* update_position_reward
UpdatePosition(r, pos) ==
    IF ~r.initialized THEN pos
    ELSE [pos EXCEPT !.pending = @ + NewReward(pos, r.reward_per_token_stored),
                     !.checkpoint = r.reward_per_token_stored]

\* The RewardInfo brought up to date, as every instruction does first
Current == UpdatePool(reward, liquidity, now)

\* What the seconds without liquidity are worth at the present rate
Ineligible(r) == (r.empty_seconds * r.reward_rate) \div RATE_UNIT

\* fund_reward refuses to mix those seconds with a new rate
NothingIneligible_Unchecked(r) == TRUE
NothingIneligible(r) == r.empty_seconds = 0

\* update_rate_after_funding
Funded(r, amount, time) ==
    LET leftover == IF time >= r.reward_duration_end THEN 0
                    ELSE (r.reward_rate * (r.reward_duration_end - time)) \div RATE_UNIT
    IN [r EXCEPT !.reward_rate =
                   ((amount + leftover) * RATE_UNIT) \div r.reward_duration,
                 !.last_update_time = time,
                 !.reward_duration_end = time + r.reward_duration]

-----------------------------------------------------------------------------
(* Who may do what                                                         *)

\* validate_authority_to_edit_reward: a creator is held to the first reward,
\* even one who is an admin.
CanEdit(signer) == IF signer = Creator THEN REWARD_INDEX = 0 ELSE signer \in Admins

IsValidFunder(signer) == signer \in Admins \/ signer = reward.funder

Signers == Admins \cup {Creator} \cup Funders

-----------------------------------------------------------------------------
(* The instructions                                                        *)

\* Position::initialize: nothing, checkpointed at the start of time
NewPosition == [liquidity |-> 0, pending |-> 0, checkpoint |-> 0]

Init ==
    /\ reward = [initialized |-> FALSE, funder |-> NoFunder, reward_duration |-> 0,
                 reward_duration_end |-> 0, reward_rate |-> 0,
                 reward_per_token_stored |-> 0, last_update_time |-> 0,
                 empty_seconds |-> 0]
    /\ liquidity \in Liquidities
    /\ open = {First}
    /\ position = [[p \in Positions |-> NewPosition] EXCEPT ![First].liquidity = liquidity]
    /\ vault = 0
    /\ frozen = FALSE
    /\ now = 1
    /\ fundings = 0
    /\ moves = 0
    /\ claimed = [p \in Positions |-> 0]
    /\ share = [p \in Positions |-> 0]

CreatePosition(p) ==
    /\ p \notin open
    /\ open' = open \cup {p}
    /\ position' = [position EXCEPT ![p] = NewPosition]
    /\ UNCHANGED <<reward, liquidity, vault, frozen, now, fundings, moves, claimed, share>>

IsEmpty_IgnoresRewards(pos) == pos.liquidity = 0
\* Position::is_empty, as far as liquidity and this reward go
IsEmpty(pos) == pos.pending = 0 /\ pos.liquidity = 0

\* Nothing is settled here.
ClosePosition(p) ==
    /\ p \in open /\ IsEmpty(position[p])
    /\ open' = open \ {p}
    /\ position' = [position EXCEPT ![p] = NewPosition]
    /\ UNCHANGED <<reward, liquidity, vault, frozen, now, fundings, moves, claimed, share>>

InitializeReward(signer, duration, funder) ==
    /\ ~reward.initialized
    /\ CanEdit(signer)
    /\ reward' = [reward EXCEPT !.initialized = TRUE, !.funder = funder,
                                !.reward_duration = duration]
    /\ UNCHANGED <<liquidity, open, position, vault, frozen, now, fundings, moves, claimed, share>>

UpdateRewardFunder(signer, funder) ==
    /\ reward.initialized
    /\ reward.funder # funder
    /\ CanEdit(signer)
    /\ reward' = [reward EXCEPT !.funder = funder]
    /\ UNCHANGED <<liquidity, open, position, vault, frozen, now, fundings, moves, claimed, share>>

\* Only after the end, lest the leftover is divided by another duration
UpdateRewardDuration(signer, duration) ==
    /\ reward.initialized
    /\ duration # reward.reward_duration
    /\ reward.reward_duration_end < now
    /\ CanEdit(signer)
    /\ reward' = [reward EXCEPT !.reward_duration = duration]
    /\ UNCHANGED <<liquidity, open, position, vault, frozen, now, fundings, moves, claimed, share>>

\* What is divided is what arrives, and what was already in the vault.
Brought_Whole(amount) == amount
Brought(amount) == Excluded(RewardFee, amount)

FundReward(signer, amount, carry_forward) ==
    /\ reward.initialized /\ IsValidFunder(signer)
    /\ ~frozen
    /\ Brought(amount) > 0
    /\ fundings < MaxFundings
    /\ LET r == Current
       IN IF carry_forward
          THEN reward' = Funded([r EXCEPT !.empty_seconds = 0],
                                Brought(amount) + Ineligible(r), now)
          ELSE /\ NothingIneligible(r)
               /\ reward' = Funded(r, Brought(amount), now)
    /\ vault' = vault + Excluded(RewardFee, amount)
    /\ fundings' = fundings + 1
    /\ UNCHANGED <<liquidity, open, position, frozen, now, moves, claimed, share>>

\* add_liquidity (delta > 0) and remove_liquidity (delta < 0)
ChangeLiquidity(p, delta) ==
    /\ p \in open
    /\ position[p].liquidity + delta >= 0
    /\ liquidity + delta <= MaxLiquidity
    /\ moves < MaxMoves
    /\ reward' = Current
    /\ LET pos == UpdatePosition(Current, position[p])
           new == [pos EXCEPT !.liquidity = @ + delta]
       IN position' = [position EXCEPT ![p] = new]
    /\ liquidity' = liquidity + delta
    /\ moves' = moves + 1
    /\ UNCHANGED <<open, vault, frozen, now, fundings, claimed, share>>

\* split_position2: both settle, then liquidity and pending rewards move
SplitPosition(first, second, n) ==
    /\ first \in open /\ second \in open
    /\ first # second
    /\ n.liquidity + n.reward > 0
    /\ moves < MaxMoves
    /\ LET from == UpdatePosition(Current, position[first])
           to   == UpdatePosition(Current, position[second])
           l == (from.liquidity * n.liquidity) \div SPLIT_DENOMINATOR
           w == (from.pending * n.reward) \div SPLIT_DENOMINATOR
           less == [from EXCEPT !.liquidity = @ - l, !.pending = @ - w]
           more == [to EXCEPT !.liquidity = @ + l, !.pending = @ + w]
           worth == w * RATE_UNIT * SHARES
       IN /\ position' = [position EXCEPT ![first] = less, ![second] = more]
          /\ share' = [share EXCEPT ![first] = @ - worth, ![second] = @ + worth]
    /\ reward' = Current
    /\ moves' = moves + 1
    /\ UNCHANGED <<liquidity, open, vault, frozen, now, fundings, claimed>>

\* With a frozen vault the owner has to agree (skip_reward) to lose the reward.
ClaimReward(p, skip) ==
    /\ reward.initialized
    /\ p \in open
    /\ reward' = Current
    /\ LET pos == UpdatePosition(Current, position[p])
           paid == [pos EXCEPT !.pending = 0]
       IN /\ position' = [position EXCEPT ![p] = paid]
          /\ IF frozen /\ pos.pending > 0
             THEN skip /\ UNCHANGED <<vault, claimed>>
             ELSE /\ pos.pending <= vault
                  /\ vault' = vault - pos.pending
                  /\ claimed' = [claimed EXCEPT ![p] = @ + pos.pending]
    /\ UNCHANGED <<liquidity, open, frozen, now, fundings, moves, share>>

\* Whoever is the funder now, not who was when the seconds were missed
WithdrawIneligibleReward(signer) ==
    /\ reward.initialized /\ IsValidFunder(signer)
    /\ now > reward.reward_duration_end
    /\ LET amount == Ineligible(Current)
       IN /\ amount <= vault
          /\ amount > 0 => ~frozen
          /\ vault' = vault - amount
    /\ reward' = [Current EXCEPT !.empty_seconds = 0]
    /\ UNCHANGED <<liquidity, open, position, frozen, now, fundings, moves, claimed, share>>

FreezeOrThaw ==
    /\ frozen' = ~frozen
    /\ UNCHANGED <<reward, liquidity, open, position, vault, now, fundings, moves, claimed, share>>

\* A second passes; before the end of the reward, the positions share its rate.
Tick ==
    /\ now < MaxTime
    /\ now' = now + 1
    /\ share' = IF now < reward.reward_duration_end /\ liquidity > 0
                THEN [p \in Positions |-> share[p] +
                        reward.reward_rate * position[p].liquidity
                          * (SHARES \div liquidity)]
                ELSE share
    /\ UNCHANGED <<reward, liquidity, open, position, vault, frozen, fundings, moves, claimed>>

Split == \E first, second \in Positions, n \in SplitNumerators :
            SplitPosition(first, second, n)

OwnerStep(p) ==
    \/ CreatePosition(p)
    \/ ClosePosition(p)
    \/ \E delta \in Liquidities : ChangeLiquidity(p, delta) \/ ChangeLiquidity(p, -delta)
    \/ \E skip \in BOOLEAN : ClaimReward(p, skip)

EditorStep(signer) ==
    \/ \E d \in Durations, f \in Funders : InitializeReward(signer, d, f)
    \/ \E d \in Durations : UpdateRewardDuration(signer, d)
    \/ \E f \in Funders : UpdateRewardFunder(signer, f)

FunderStep(signer) ==
    \/ \E amount \in Amounts, carry_forward \in BOOLEAN :
          FundReward(signer, amount, carry_forward)
    \/ WithdrawIneligibleReward(signer)

Next ==
    \/ \E p \in Positions : OwnerStep(p)
    \/ Split
    \/ \E signer \in Signers : EditorStep(signer) \/ FunderStep(signer)
    \/ FreezeOrThaw
    \/ Tick

Spec == Init /\ [][Next]_vars

-----------------------------------------------------------------------------
(* What must hold.                                                         *)

\* The type invariant.  The elapsed time is a checked subtraction: were it
\* negative, every instruction of the pool would fail from then on.
TypeOK ==
    /\ reward \in RewardInfo
    /\ open \subseteq Positions
    /\ ElapsedSince(reward, now) >= 0
    /\ position \in [Positions -> UserRewardInfo]
    /\ liquidity \in Nat /\ vault \in Nat /\ frozen \in BOOLEAN
    /\ now \in Nat /\ fundings \in Nat /\ moves \in Nat
    /\ claimed \in [Positions -> Nat] /\ share \in [Positions -> Nat]

\* What a position would be paid if it claimed now
Owed(p) == UpdatePosition(Current, position[p]).pending
Entitled(p) == Owed(p) + claimed[p]

\* The reward vault covers, at any second, what every position may claim,
\* what the present rate will still hand out until its end, and what the
\* funder may take back of the seconds without liquidity: across refunding
\* before the end, carrying forward, withdrawing, changes of duration.
RewardsCovered ==
    vault * RATE_UNIT >=
        RATE_UNIT * Total([p \in Positions |-> Owed(p)], Positions)
          + Current.reward_rate * (Current.empty_seconds
              + IF now < Current.reward_duration_end
                THEN Current.reward_duration_end - now ELSE 0)

\* No position gets more than its part of each second it was there for:
\* liquidity added late earns nothing of the time before, liquidity removed
\* nothing of the time after, and nobody is paid past the end.
EarnsOnlyItsTime ==
    \A p \in Positions : Entitled(p) * RATE_UNIT * SHARES <= share[p]

\* What a position has earned stays with it until it claims: fundings,
\* changes of rate or duration, others' moves take nothing from it.  Only a
\* split moves it, and a claim with skip_reward from a frozen vault waives it.
RewardsStay ==
    [][\/ Split
       \/ \A p \in Positions :
            \/ Entitled(p)' >= Entitled(p)
            \/ frozen /\ ClaimReward(p, TRUE)]_vars
=============================================================================
