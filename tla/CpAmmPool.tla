------------------------------ MODULE CpAmmPool ------------------------------
(***************************************************************************)
(* One cp-amm pool with its positions, vesting locks and token vaults:     *)
(* liquidity operations, locks, splits, swaps and claims.  An instruction  *)
(* is one action: the chain serialises instructions on the same pool, and  *)
(* one that fails changes nothing.                                         *)
(*                                                                         *)
(* Left out: rewards (a pool without them; update_rewards then does        *)
(* nothing), the dynamic fee and the rate limiter, metrics (nothing reads  *)
(* them).  Slippage limits are the caller's: one that is not met makes the *)
(* instruction fail, so that the steps here are those of callers who       *)
(* accept any price.                                                       *)
(***************************************************************************)
EXTENDS CpAmmCurve, TransferFees, FiniteSets

CONSTANTS
    Positions,          \* the position accounts that may come to exist
    Creator,            \* the position initialize_pool creates
    VestingAccounts,
    LIQUIDITY_UNIT,     \* 2^LIQUIDITY_SCALE = 2^128
    SPLIT_DENOMINATOR,  \* SPLIT_POSITION_DENOMINATOR
    MaxVestingDuration,
    PreActivationBuffer,\* SLOT_BUFFER or TIME_BUFFER
    MaxFeeNumerator,    \* get_max_fee_numerator
    TransferFee,        \* of the mints of the two tokens
    PoolConfigs,        \* what initialize_pool may be called with
    Liquidities,        \* amounts of liquidity added, removed, locked
    SwapAmounts,        \* amount_0 of swaps
    SplitNumerators,    \* [unlocked, permanent, fee] of split_position2
    VestingSchedules,   \* VestingParameters of lock_position
    ClaimCaps,          \* max_amount of the protocol and partner claims
    MaxMoves,           \* bound on swaps, additions and splits
    MaxPoint,           \* bound on the clock, and on the end of schedules
    NoVesting           \* stands for an account that is not there

Tokens == {"a", "b"}
Amount == [Tokens -> Nat]
None == [t \in Tokens |-> 0]
Plus(f, g) == [t \in Tokens |-> f[t] + g[t]]
Minus(f, g) == [t \in Tokens |-> f[t] - g[t]]

-----------------------------------------------------------------------------
(* The accounts.                                                           *)

CollectFeeModes == {"BothToken", "OnlyB"}

\* PoolFeesStruct, with a linear FeeScheduler
PoolFees ==
    [cliff_fee_numerator : Nat, number_of_period : Nat, period_frequency : Nat,
     reduction_factor : Nat, protocol_fee_percent : 0 .. PERCENT,
     referral_fee_percent : 0 .. PERCENT, partner_fee_percent : 0 .. PERCENT,
     has_partner : BOOLEAN]

\* FeeScheduler::validate computes the fee of the last period with a checked
\* subtraction.
ValidPoolFees ==
    {f \in PoolFees : f.reduction_factor * f.number_of_period <= f.cliff_fee_numerator}

\* struct Pool
PoolAccount ==
    [liquidity : Nat, permanent_lock_liquidity : Nat, sqrt_price : Nat,
     sqrt_min_price : Nat \ {0}, sqrt_max_price : Nat, activation_point : Nat,
     collect_fee_mode : CollectFeeModes, pool_status : {"Enable", "Disable"},
     fees : ValidPoolFees, fee_per_liquidity : Amount,
     protocol_fee : Amount, partner_fee : Amount]

\* struct Position: its unlocked, vested and permanently locked liquidity,
\* its pending fees and its fee_per_token checkpoints
PositionAccount ==
    [unlocked : Nat, vested : Nat, permanent : Nat,
     pending : Amount, checkpoint : Amount]

\* struct Vesting
VestingAccount ==
    [position : Positions, cliff : Nat, frequency : Nat, cliff_unlock : Nat,
     per_period : Nat, periods : Nat, released : Nat]

ASSUME PoolAssumption ==
    /\ IsFiniteSet(Positions) /\ IsFiniteSet(VestingAccounts)
    /\ Creator \in Positions
    /\ NoVesting \notin VestingAccount
    /\ LIQUIDITY_UNIT \in Nat \ {0}
    /\ SPLIT_DENOMINATOR \in Nat \ {0}
    /\ MaxFeeNumerator \in 0 .. FEE_DENOMINATOR - 1
    /\ PoolConfigs \subseteq
         [liquidity : Nat, sqrt_price : Nat, sqrt_min_price : Nat \ {0},
          sqrt_max_price : Nat, activation_point : Nat,
          collect_fee_mode : CollectFeeModes, fees : ValidPoolFees]
    /\ ClaimCaps \subseteq Amount
    /\ VestingSchedules \subseteq
         [cliff : SUBSET Nat, frequency : Nat, cliff_unlock : Nat,
          per_period : Nat, periods : Nat]
    /\ Liquidities \subseteq Nat \ {0}
    /\ SwapAmounts \subseteq Nat \ {0}
    /\ TransferFee \in [Tokens -> TransferFees]
    /\ \A n \in SplitNumerators :
          {n.unlocked, n.permanent, n.fee} \subseteq 0 .. SPLIT_DENOMINATOR

VARIABLES
    pool,       \* the Pool account
    open,       \* the positions that exist
    position,   \* the Position accounts
    vesting,    \* the Vesting accounts
    vault,      \* the two token vaults
    point,      \* the clock: slot or timestamp, as activation_type says
    moves,      \* swaps, additions and splits so far
    earned,     \* history: trading fees charged on behalf of the positions
    claimed     \* history: what claim_position_fee has paid, per position

vars == <<pool, open, position, vesting, vault, point, moves, earned, claimed>>

-----------------------------------------------------------------------------
(* state/position.rs                                                       *)

NewPosition(liquidity) ==
    [unlocked |-> liquidity, vested |-> 0, permanent |-> 0,
     pending |-> None, checkpoint |-> None]

TotalLiquidity(pos) == pos.unlocked + pos.vested + pos.permanent

\* What the position has earned since its checkpoint
Accrued(pos, fee_per_liquidity) ==
    [t \in Tokens |->
        (TotalLiquidity(pos) * (fee_per_liquidity[t] - pos.checkpoint[t]))
            \div LIQUIDITY_UNIT]

UpdateFee_SkipsEmpty(pos, fee_per_liquidity) ==
    IF TotalLiquidity(pos) = 0 THEN pos
    ELSE [pos EXCEPT !.pending = Plus(@, Accrued(pos, fee_per_liquidity)),
                     !.checkpoint = fee_per_liquidity]

\* update_fee
UpdateFee(pos, fee_per_liquidity) ==
    [pos EXCEPT !.pending = Plus(@, Accrued(pos, fee_per_liquidity)),
                !.checkpoint = fee_per_liquidity]

IsEmpty_IgnoresLocks(pos) == pos.unlocked = 0 /\ pos.pending = None

\* is_empty
IsEmpty(pos) == TotalLiquidity(pos) = 0 /\ pos.pending = None

\* get_..._by_numerator
ByNumerator(amount, numerator) == (amount * numerator) \div SPLIT_DENOMINATOR

-----------------------------------------------------------------------------
(* state/vesting.rs                                                        *)

TotalLock(v) == v.cliff_unlock + v.per_period * v.periods

MaxUnlocked_Unbounded(v, now) ==
    IF now < v.cliff THEN 0
    ELSE IF v.frequency = 0 THEN v.cliff_unlock
    ELSE v.cliff_unlock + v.per_period * ((now - v.cliff) \div v.frequency)

\* get_max_unlocked_liquidity
MaxUnlocked(v, now) ==
    IF now < v.cliff THEN 0
    ELSE IF v.frequency = 0 THEN v.cliff_unlock
    ELSE LET passed == (now - v.cliff) \div v.frequency
         IN v.cliff_unlock
              + v.per_period * (IF passed < v.periods THEN passed ELSE v.periods)

\* VestingParameters::validate
ValidSchedule(s, cliff, now) ==
    /\ cliff >= now
    /\ cliff = now => s.periods > 0
    /\ s.periods > 0 => s.frequency > 0 /\ s.per_period > 0
    /\ cliff - now + s.frequency * s.periods <= MaxVestingDuration
    /\ TotalLock(s) > 0

-----------------------------------------------------------------------------
(* pool_action_access/permissionless.rs                                    *)

Enabled == pool.pool_status = "Enable"
CanRemoveLiquidity == point >= pool.activation_point
CanSwap(whitelisted) ==
    /\ Enabled
    /\ point >= IF whitelisted /\ pool.activation_point >= PreActivationBuffer
                THEN pool.activation_point - PreActivationBuffer
                ELSE IF whitelisted THEN 0
                ELSE pool.activation_point

\* FeeScheduler::get_base_fee_numerator (linear), capped
FeeNumerator ==
    LET s == pool.fees
        passed == (point - pool.activation_point) \div s.period_frequency
        period == IF point < pool.activation_point \/ passed > s.number_of_period
                  THEN s.number_of_period ELSE passed
        base == IF s.period_frequency = 0 THEN s.cliff_fee_numerator
                ELSE s.cliff_fee_numerator - s.reduction_factor * period
    IN IF base > MaxFeeNumerator THEN MaxFeeNumerator ELSE base

-----------------------------------------------------------------------------
(* Transfers into the vaults.  What leaves them leaves in full.            *)

Arriving(t, sent) == Excluded(TransferFee[t], sent)
Asked(t, amount) == Included(TransferFee[t], amount)
CanAsk(t, amount) == InverseIsCorrect(TransferFee[t], amount)

\* What the vaults get when the owner is asked for enough
Deposit(amounts) == [t \in Tokens |-> Arriving(t, Asked(t, amounts[t]))]

-----------------------------------------------------------------------------
(* Creation                                                                *)

\* initialize_pool: the pool with its first position
NewPool(c) ==
    [liquidity |-> c.liquidity, permanent_lock_liquidity |-> 0,
     sqrt_price |-> c.sqrt_price, sqrt_min_price |-> c.sqrt_min_price,
     sqrt_max_price |-> c.sqrt_max_price, activation_point |-> c.activation_point,
     collect_fee_mode |-> c.collect_fee_mode, pool_status |-> "Enable",
     fees |-> c.fees, fee_per_liquidity |-> None,
     protocol_fee |-> None, partner_fee |-> None]

Init ==
    /\ \E c \in PoolConfigs :
         /\ c.liquidity > 0
         /\ c.sqrt_min_price <= c.sqrt_price /\ c.sqrt_price <= c.sqrt_max_price
         /\ pool = NewPool(c)
         /\ LET amounts == [t \in Tokens |->
                    IF t = "a" THEN AmountA(NewPool(c), c.liquidity, "Up")
                               ELSE AmountB(NewPool(c), c.liquidity, "Up")]
            IN /\ amounts # None
               /\ \A t \in Tokens : CanAsk(t, amounts[t])
               /\ vault = Deposit(amounts)
         /\ position = [p \in Positions |->
                          NewPosition(IF p = Creator THEN c.liquidity ELSE 0)]
    /\ open = {Creator}
    /\ vesting = [v \in VestingAccounts |-> NoVesting]
    /\ point = 0
    /\ moves = 0
    /\ earned = None
    /\ claimed = [p \in Positions |-> None]

CreatePosition(p) ==
    /\ Enabled
    /\ p \notin open
    /\ open' = open \cup {p}
    /\ position' = [position EXCEPT ![p] = NewPosition(0)]
    /\ UNCHANGED <<pool, vesting, vault, point, moves, earned, claimed>>

\* close_position: the account goes, its rent returns to the owner
ClosePosition(p) ==
    /\ p \in open
    /\ IsEmpty(position[p])
    /\ open' = open \ {p}
    /\ position' = [position EXCEPT ![p] = NewPosition(0)]
    /\ UNCHANGED <<pool, vesting, vault, point, moves, earned, claimed>>

-----------------------------------------------------------------------------
(* Liquidity                                                               *)

\* get_amounts_for_modify_liquidity
Amounts(liquidity, round) ==
    [t \in Tokens |-> IF t = "a" THEN AmountA(pool, liquidity, round)
                                 ELSE AmountB(pool, liquidity, round)]

\* apply_add_liquidity and apply_remove_liquidity on the position
Unlocked(pos, liquidity) ==
    [UpdateFee(pos, pool.fee_per_liquidity) EXCEPT !.unlocked = liquidity]

AddLiquidity(p, delta) ==
    /\ Enabled
    /\ p \in open
    /\ moves < MaxMoves
    /\ LET amounts == Amounts(delta, "Up")
       IN /\ amounts # None
          /\ \A t \in Tokens : CanAsk(t, amounts[t])
          /\ vault' = Plus(vault, Deposit(amounts))
    /\ position' = [position EXCEPT ![p] = Unlocked(@, @.unlocked + delta)]
    /\ pool' = [pool EXCEPT !.liquidity = @ + delta]
    /\ moves' = moves + 1
    /\ UNCHANGED <<open, vesting, point, earned, claimed>>

\* remove_liquidity and remove_all_liquidity (delta = all that is unlocked)
RemoveLiquidity(p, delta) ==
    /\ CanRemoveLiquidity
    /\ p \in open
    /\ delta <= position[p].unlocked /\ delta > 0
    /\ LET amounts == Amounts(delta, "Down")
       IN /\ amounts # None
          /\ \A t \in Tokens : amounts[t] <= vault[t]
          /\ vault' = Minus(vault, amounts)
    /\ position' = [position EXCEPT ![p] = Unlocked(@, @.unlocked - delta)]
    /\ pool' = [pool EXCEPT !.liquidity = @ - delta]
    /\ UNCHANGED <<open, vesting, point, moves, earned, claimed>>

PermanentLockPosition(p, amount) ==
    /\ Enabled
    /\ p \in open
    /\ amount <= position[p].unlocked
    /\ position' = [position EXCEPT ![p].unlocked = @ - amount,
                                    ![p].permanent = @ + amount]
    /\ pool' = [pool EXCEPT !.permanent_lock_liquidity = @ + amount]
    /\ UNCHANGED <<open, vesting, vault, point, moves, earned, claimed>>

\* lock_position with a new vesting account.  s.cliff is an Option: {} for
\* "now", else the cliff as an offset from now.
LockPosition(p, v, s) ==
    LET cliff == IF s.cliff = {} THEN point ELSE point + CHOOSE c \in s.cliff : TRUE
    IN /\ Enabled
       /\ p \in open
       /\ vesting[v] = NoVesting
       /\ ValidSchedule(s, cliff, point)
       /\ cliff + s.frequency * s.periods <= MaxPoint   \* a bound, not a check
       /\ TotalLock(s) <= position[p].unlocked
       /\ vesting' = [vesting EXCEPT ![v] =
              [position |-> p, cliff |-> cliff, frequency |-> s.frequency,
               cliff_unlock |-> s.cliff_unlock, per_period |-> s.per_period,
               periods |-> s.periods, released |-> 0]]
       /\ position' = [position EXCEPT ![p].unlocked = @ - TotalLock(s),
                                       ![p].vested = @ + TotalLock(s)]
       /\ UNCHANGED <<pool, open, vault, point, moves, earned, claimed>>

\* refresh_vesting for one vesting account; done() closes it
RefreshVesting(v) ==
    /\ vesting[v] # NoVesting
    /\ LET account == vesting[v]
           released == MaxUnlocked(account, point) - account.released
           after == [account EXCEPT !.released = @ + released]
       IN /\ account.position \in open
          /\ released <= position[account.position].vested
          /\ position' = [position EXCEPT
                            ![account.position].vested = @ - released,
                            ![account.position].unlocked = @ + released]
          /\ vesting' = [vesting EXCEPT ![v] =
                           IF after.released = TotalLock(after) THEN NoVesting
                                                                ELSE after]
    /\ UNCHANGED <<pool, open, vault, point, moves, earned, claimed>>

\* split_position2 (split_position with percentages): both sides settle
\* their fees, then parts of the first position move to the second.
SplitPosition(first, second, n) ==
    /\ Enabled
    /\ {first, second} \subseteq open /\ first # second
    /\ moves < MaxMoves
    /\ position[first].vested = 0
    /\ n.unlocked + n.permanent + n.fee > 0
    /\ LET from == UpdateFee(position[first], pool.fee_per_liquidity)
           to   == UpdateFee(position[second], pool.fee_per_liquidity)
           u == ByNumerator(from.unlocked, n.unlocked)
           m == ByNumerator(from.permanent, n.permanent)
           f == [t \in Tokens |-> ByNumerator(from.pending[t], n.fee)]
       IN position' = [position EXCEPT
            ![first]  = [from EXCEPT !.unlocked = @ - u, !.permanent = @ - m,
                                     !.pending = Minus(@, f)],
            ![second] = [to EXCEPT !.unlocked = @ + u, !.permanent = @ + m,
                                   !.pending = Plus(@, f)]]
    /\ moves' = moves + 1
    /\ UNCHANGED <<pool, open, vesting, vault, point, earned, claimed>>

-----------------------------------------------------------------------------
(* Swaps                                                                   *)

TokenIn(dir) == IF dir = "AtoB" THEN "a" ELSE "b"
TokenOut(dir) == IF dir = "AtoB" THEN "b" ELSE "a"

\* process_swap_exact_in, _partial_fill, _exact_out: the pool quotes what
\* arrives of the amount, or what must leave for it to arrive.
Quotes(mode, dir, amount) ==
    LET in == Arriving(TokenIn(dir), amount)
        out == Asked(TokenOut(dir), amount)
        numerators == [any_amount \in Nat |-> {FeeNumerator}]
    IN IF mode = "ExactOut"
       THEN IF CanAsk(TokenOut(dir), amount) THEN ExactOutput(pool, dir, out, numerators)
                                             ELSE {}
       ELSE IF in = 0 THEN {}
       ELSE IF mode = "ExactIn" THEN ExactInput(pool, dir, in, FeeNumerator)
       ELSE {q \in PartialInput(pool, dir, in, FeeNumerator, numerators) : q.paid > 0}

\* included_transfer_fee_amount_in: what the trader sends
Sent_Consumed(mode, dir, amount, q) ==
    IF mode = "ExactIn" THEN amount
    ELSE IF mode = "PartialFill" THEN q.paid
    ELSE Asked(TokenIn(dir), q.paid)
Sent(mode, dir, amount, q) ==
    IF mode = "ExactIn" THEN amount ELSE Asked(TokenIn(dir), q.paid)

Only(t, amount) == [None EXCEPT ![t] = amount]

\* Fee per unit of liquidity, as apply_swap_result adds it
PerLiquidity_RoundUp(fee, liquidity) == CeilDiv(fee * LIQUIDITY_UNIT, liquidity)
PerLiquidity(fee, liquidity) == (fee * LIQUIDITY_UNIT) \div liquidity

\* swap2: the pool's account, then the three transfers
Swap(mode, dir, amount, whitelisted, has_referral) ==
    /\ CanSwap(whitelisted)
    /\ pool.liquidity > 0
    /\ moves < MaxMoves
    /\ \E q \in Quotes(mode, dir, amount) :
         LET t == FeeToken(pool.collect_fee_mode, dir)
             split == SplitFees(pool.fees, q.fee, has_referral)
             in == TokenIn(dir)
             arrives == Arriving(in, Sent(mode, dir, amount, q))
             balance == Minus(Minus(Plus(vault, Only(in, arrives)),
                                    Only(TokenOut(dir), q.received)),
                              Only(t, split.referral))
         IN /\ mode # "ExactIn" => CanAsk(in, q.paid)
            /\ \A s \in Tokens : balance[s] >= 0
            /\ vault' = balance
            /\ pool' = [pool EXCEPT
                          !.sqrt_price = q.next_sqrt_price,
                          !.fee_per_liquidity[t] =
                              @ + PerLiquidity(split.trading, pool.liquidity),
                          !.protocol_fee[t] = @ + split.protocol,
                          !.partner_fee[t] = @ + split.partner]
            /\ earned' = Plus(earned, Only(t, split.trading))
    /\ moves' = moves + 1
    /\ UNCHANGED <<open, position, vesting, point, claimed>>

-----------------------------------------------------------------------------
(* Claims                                                                  *)

ClaimPositionFee(p) ==
    /\ p \in open
    /\ LET settled == UpdateFee(position[p], pool.fee_per_liquidity)
       IN /\ \A t \in Tokens : settled.pending[t] <= vault[t]
          /\ vault' = Minus(vault, settled.pending)
          /\ claimed' = [claimed EXCEPT ![p] = Plus(@, settled.pending)]
          /\ position' = [position EXCEPT ![p] = [settled EXCEPT !.pending = None]]
    /\ UNCHANGED <<pool, open, vesting, point, moves, earned>>

\* The part of a ledger that a claim with these limits takes
Capped(ledger, caps) ==
    [t \in Tokens |-> IF ledger[t] < caps[t] THEN ledger[t] ELSE caps[t]]

ClaimProtocolFee(caps) ==
    LET amounts == Capped(pool.protocol_fee, caps)
    IN /\ \A t \in Tokens : amounts[t] <= vault[t]
       /\ vault' = Minus(vault, amounts)
       /\ pool' = [pool EXCEPT !.protocol_fee = Minus(@, amounts)]
       /\ UNCHANGED <<open, position, vesting, point, moves, earned, claimed>>

ClaimPartnerFee(caps) ==
    LET amounts == Capped(pool.partner_fee, caps)
    IN /\ \A t \in Tokens : amounts[t] <= vault[t]
       /\ vault' = Minus(vault, amounts)
       /\ pool' = [pool EXCEPT !.partner_fee = Minus(@, amounts)]
       /\ UNCHANGED <<open, position, vesting, point, moves, earned, claimed>>

SetPoolStatus ==
    /\ pool' = [pool EXCEPT !.pool_status = IF Enabled THEN "Disable" ELSE "Enable"]
    /\ UNCHANGED <<open, position, vesting, vault, point, moves, earned, claimed>>

Tick ==
    /\ point < MaxPoint
    /\ point' = point + 1
    /\ UNCHANGED <<pool, open, position, vesting, vault, moves, earned, claimed>>

Modes == {"ExactIn", "PartialFill", "ExactOut"}

Trade ==
    \E mode \in Modes, dir \in Directions, amount \in SwapAmounts,
       whitelisted, has_referral \in BOOLEAN :
        Swap(mode, dir, amount, whitelisted, has_referral)

Split == \E first, second \in Positions, n \in SplitNumerators :
            SplitPosition(first, second, n)

\* What the owner of a position may do with it
OwnerStep(p) ==
    \/ CreatePosition(p)
    \/ ClosePosition(p)
    \/ ClaimPositionFee(p)
    \/ \E delta \in Liquidities :
         \/ AddLiquidity(p, delta)
         \/ PermanentLockPosition(p, delta)
    \/ \E delta \in Liquidities \cup {position[p].unlocked} :
         RemoveLiquidity(p, delta)
    \/ \E v \in VestingAccounts, s \in VestingSchedules : LockPosition(p, v, s)

\* What concerns the pool as a whole, or what anybody may do
PoolStep ==
    \/ \E v \in VestingAccounts : RefreshVesting(v)
    \/ Trade
    \/ \E caps \in ClaimCaps : ClaimProtocolFee(caps) \/ ClaimPartnerFee(caps)
    \/ SetPoolStatus
    \/ Tick

Next ==
    \/ \E p \in Positions : OwnerStep(p)
    \/ Split
    \/ PoolStep

Spec == Init /\ [][Next]_vars

\* Time passes, and the owner of a locked position refreshes its vestings.
FairSpec ==
    /\ Spec
    /\ WF_vars(Tick)
    /\ \A v \in VestingAccounts : WF_vars(RefreshVesting(v))

-----------------------------------------------------------------------------
(* What must hold.                                                         *)

\* The type invariant: no ledger, balance or share of liquidity is negative.
TypeOK ==
    /\ pool \in PoolAccount
    /\ pool.sqrt_price \in pool.sqrt_min_price .. pool.sqrt_max_price
    /\ open \subseteq Positions
    /\ position \in [Positions -> PositionAccount]
    /\ vesting \in [VestingAccounts -> VestingAccount \cup {NoVesting}]
    /\ \A v \in VestingAccounts :
         vesting[v] # NoVesting => vesting[v].position \in open
    /\ vault \in Amount
    /\ point \in Nat /\ moves \in Nat
    /\ earned \in Amount /\ claimed \in [Positions -> Amount]

\* The pool's liquidity, which prices swaps and divides fees, is the sum of
\* the positions' unlocked, vested and permanently locked liquidity, and so
\* is its permanently locked part: the instructions change pool and
\* positions on separate lines, splits only positions.
LiquidityBacked ==
    /\ pool.liquidity =
         Total([p \in Positions |-> TotalLiquidity(position[p])], open)
    /\ pool.permanent_lock_liquidity =
         Total([p \in Positions |-> position[p].permanent], open)
    /\ \A p \in Positions \ open : position[p] = NewPosition(0)

Locks(p) == {v \in VestingAccounts : vesting[v] # NoVesting /\ vesting[v].position = p}

\* The vested liquidity of a position is what its vesting accounts have not
\* released yet, however many there are and whenever they are refreshed, and
\* none has released more than its schedule allows at this point, or stays
\* when it has released everything.
VestedBacked ==
    /\ \A p \in Positions :
         position[p].vested =
           Total([v \in Locks(p) |-> TotalLock(vesting[v]) - vesting[v].released],
                 Locks(p))
    /\ \A p \in Positions : \A v \in Locks(p) :
         /\ vesting[v].released \in 0 .. TotalLock(vesting[v]) - 1
         /\ vesting[v].released <= MaxUnlocked(vesting[v], point)

\* What a position may claim now, and what it has claimed before.
Owed(p) == Plus(position[p].pending, Accrued(position[p], pool.fee_per_liquidity))
Entitled(p) == Plus(Owed(p), claimed[p])

\* Held back for the positions and not yet paid
FeesHeld == [t \in Tokens |->
    earned[t] - Total([p \in Positions |-> claimed[p][t]], Positions)]

\* The positions can claim no more than the trading fees charged for them,
\* in whatever order they settle, add, remove, split and claim.
FeesCovered ==
    \A t \in Tokens :
        Total([p \in Positions |-> Owed(p)[t]], Positions) <= FeesHeld[t]

\* The same without the rounding of what is not yet settled: pending and
\* claimed fees, and the growth of fee_per_liquidity on a position's
\* liquidity, are backed by fees charged.  This is what every step preserves,
\* and FeesCovered follows from it.
Unrounded(p, t) ==
    (position[p].pending[t] + claimed[p][t]) * LIQUIDITY_UNIT
        + TotalLiquidity(position[p])
            * (pool.fee_per_liquidity[t] - position[p].checkpoint[t])

FeesBacked ==
    /\ \A p \in Positions, t \in Tokens :
          position[p].checkpoint[t] <= pool.fee_per_liquidity[t]
    /\ \A t \in Tokens :
          Total([p \in Positions |-> Unrounded(p, t)], Positions)
              <= earned[t] * LIQUIDITY_UNIT

\* Everybody could leave now: the vaults cover the reserves of the curve at
\* the current price together with every fee not yet paid out.  So rounding
\* is never against the pool, in any sequence of swaps, additions, removals.
Solvent ==
    \A t \in Tokens :
        vault[t] >= Amounts(pool.liquidity, "Down")[t] + FeesHeld[t]
                      + pool.protocol_fee[t] + pool.partner_fee[t]

\* Whatever the pool quotes in any state, for mints with any fee: no trade
\* fails because the fee computed backwards is not the fee the mint keeps
\* (token.rs:117); what arrives is what the quote counts on; a partial fill,
\* which no limit protects, never takes more than was offered; and an exact
\* output arrives in full.
QuotesAreKept ==
    \A mode \in Modes, dir \in Directions, amount \in SwapAmounts :
        /\ mode = "ExactOut" => CanAsk(TokenOut(dir), amount)
        /\ pool.liquidity > 0 /\ CanSwap(FALSE) =>
           \A q \in Quotes(mode, dir, amount) :
             LET sent == Sent(mode, dir, amount, q)
             IN /\ CanAsk(TokenIn(dir), q.paid)
                /\ Arriving(TokenIn(dir), sent) = q.paid
                /\ mode = "PartialFill" => sent <= amount
                /\ mode = "ExactOut" => Arriving(TokenOut(dir), q.received) = amount

\* Fees once earned stay earned: only swaps add to the sum of what the
\* positions are or were owed, nothing takes from it, and no step but a
\* split of a position takes from any single one.
FeesStay ==
    [][/\ \A t \in Tokens :
            LET entitled == Total([p \in Positions |-> Entitled(p)[t]], Positions)
            IN IF pool'.fee_per_liquidity = pool.fee_per_liquidity
               THEN entitled' = entitled ELSE entitled' >= entitled
       /\ Split \/ \A p \in Positions, t \in Tokens : Entitled(p)[t]' >= Entitled(p)[t]
      ]_vars

\* A vesting account is emptied and closed in the end.
VestingEnds ==
    \A v \in VestingAccounts : vesting[v] # NoVesting ~> vesting[v] = NoVesting
=============================================================================
