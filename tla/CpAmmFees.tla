------------------------------ MODULE CpAmmFees ------------------------------
(***************************************************************************)
(* The fee of a cp-amm trade: the base fee (a scheduler that falls with    *)
(* time, linearly or exponentially, or a rate limiter that grows with the  *)
(* amount) and the dynamic fee, which follows the volatility of the price. *)
(*                                                                         *)
(* The base fee is a function of the pool's parameters, the time and the   *)
(* amount; the state is what the dynamic fee remembers between trades.     *)
(* Where the price goes is the curve's business (CpAmmCurve) and arbitrary *)
(* here.  Time is what the dynamic fee compares: the seconds since         *)
(* last_update_timestamp, up to decay_period.                              *)
(*                                                                         *)
(* A computation that may fail is a set: empty if the code returns an      *)
(* error, else the singleton of the result.  X_Mistake next to X is X with *)
(* a mistake one could make in the code; no definition uses it.            *)
(***************************************************************************)
EXTENDS CpAmmCurve

CONSTANTS
    BASIS_POINT_MAX,       \* 10000
    ONE,                   \* ONE_Q64
    EXPONENT_BITS,         \* 19, MAX_EXPONENTIAL is 2^19
    SQRT_BITS,             \* 128, the bits of a square root of a U256
    MIN_FEE_NUMERATOR,     \* 10^5
    MAX_FEE_NUMERATOR,     \* get_max_fee_numerator
    VARIABLE_FEE_SCALE,    \* 10^11
    MAX_AMOUNT,            \* u64::MAX
    MAX_LIMITER_DURATION,  \* 12 hours
    ActivationPoint, MaxPoint,   \* the points in time considered: 0 .. MaxPoint
    CollectFeeMode,        \* the pool's: "OnlyB" or "BothToken"
    BaseFees,              \* the base fee parameters a pool may be created with
    DynamicFees,           \* the dynamic fee parameters
    Prices,                \* the sqrt prices trades reach; the least and the
                           \* greatest are the ends of the pool's range
    PoolLiquidities        \* the liquidity trades may find

\* BaseFeeStruct, read as one of the two handlers of base_fee/mod.rs
Schedulers ==
    [mode : {"Linear", "Exponential"}, cliff_fee_numerator : Nat,
     number_of_period : Nat, period_frequency : Nat, reduction_factor : Nat]
Limiters ==
    [mode : {"RateLimiter"}, cliff_fee_numerator : Nat, fee_increment_bps : Nat,
     max_limiter_duration : Nat, max_fee_bps : Nat, reference_amount : Nat]

\* The constants of DynamicFeeStruct
DynamicFeeParameters ==
    [initialized : BOOLEAN, bin_step : Nat, bin_step_u128 : Nat,
     max_volatility_accumulator : Nat, variable_fee_control : Nat,
     filter_period : Nat, decay_period : Nat, reduction_factor : Nat]

ASSUME FeesAssumption ==
    /\ BASIS_POINT_MAX \in 1 .. FEE_DENOMINATOR
    /\ ONE \in Nat \ {0} /\ VARIABLE_FEE_SCALE \in Nat \ {0}
    /\ EXPONENT_BITS \in Nat /\ SQRT_BITS \in Nat \ {0}
    /\ MIN_FEE_NUMERATOR \in Nat
    \* the greatest fee leaves 1 % of 10^9 units
    /\ MAX_FEE_NUMERATOR \in MIN_FEE_NUMERATOR .. FEE_DENOMINATOR - 9
    /\ {MAX_AMOUNT, MAX_LIMITER_DURATION, ActivationPoint, MaxPoint} \subseteq Nat
    /\ BaseFees \subseteq Schedulers \cup Limiters
    \* a root of a U256 is enough for 10^9 and an amount of 64 bits
    /\ \A fee \in BaseFees \cap Limiters :
          3 * FEE_DENOMINATOR * fee.reference_amount <= Power(2, SQRT_BITS)
    /\ DynamicFees \subseteq DynamicFeeParameters
    /\ \A p \in DynamicFees : p.initialized => p.bin_step_u128 # 0
    \* a pool's range has two ends
    /\ Prices \subseteq Nat \ {0}
    /\ \E least, greatest \in Prices : Prices \subseteq least .. greatest
    /\ PoolLiquidities \subseteq Nat \ {0}

Points == 0 .. MaxPoint

-----------------------------------------------------------------------------
(* base_fee/fee_scheduler.rs and math/fee_math.rs                          *)

\* to_numerator
Numerator(bps) == (bps * FEE_DENOMINATOR) \div BASIS_POINT_MAX

\* pow, for a base below ONE: square and multiply, every product cut to its
\* whole units.  bits[k] is the state after k bits of the exponent; bits left
\* over are an exponent of MAX_EXPONENTIAL or more, and fail.
Pow_SkipsABit(base, exp) ==
    LET bits[k \in 0 .. EXPONENT_BITS] ==
          IF k = 0 THEN [square |-> base, result |-> ONE, left |-> exp]
          ELSE LET was == bits[k - 1]
               IN [square |-> (was.square * was.square) \div ONE,
                   result |-> IF k > 1 /\ was.left % 2 = 1
                              THEN (was.result * was.square) \div ONE ELSE was.result,
                   left |-> was.left \div 2]
        last == bits[EXPONENT_BITS]
    IN IF last.left > 0 \/ last.result = 0 THEN {} ELSE {last.result}

Pow(base, exp) ==
    LET bits[k \in 0 .. EXPONENT_BITS] ==
          IF k = 0 THEN [square |-> base, result |-> ONE, left |-> exp]
          ELSE LET was == bits[k - 1]
               IN [square |-> (was.square * was.square) \div ONE,
                   result |-> IF was.left % 2 = 1
                              THEN (was.result * was.square) \div ONE ELSE was.result,
                   left |-> was.left \div 2]
        last == bits[EXPONENT_BITS]
    IN IF last.left > 0 \/ last.result = 0 THEN {} ELSE {last.result}

\* get_fee_in_period: ONE - bps is checked, and is below ONE
ExponentialBase(fee) == ONE - (fee.reduction_factor * ONE) \div BASIS_POINT_MAX

FeeInPeriod(fee, period) ==
    IF fee.reduction_factor = 0 THEN {fee.cliff_fee_numerator}
    ELSE IF ExponentialBase(fee) < 0 THEN {}
    ELSE {(p * fee.cliff_fee_numerator) \div ONE : p \in Pow(ExponentialBase(fee), period)}

\* get_base_fee_numerator_by_period
NumeratorByPeriod(fee, period) ==
    LET linear == fee.cliff_fee_numerator - fee.reduction_factor * period
    IN IF fee.mode = "Linear" THEN {linear} \cap Nat ELSE FeeInPeriod(fee, period)

\* FeeScheduler::get_base_fee_numerator: before activation, an alpha vault
\* that buys pays the fee of the last period
SchedulerNumerators(fee, point) ==
    LET passed == (point - ActivationPoint) \div fee.period_frequency
    IN IF fee.period_frequency = 0 THEN {fee.cliff_fee_numerator}
       ELSE NumeratorByPeriod(fee,
              IF point < ActivationPoint \/ passed > fee.number_of_period
              THEN fee.number_of_period ELSE passed)

\* <FeeScheduler as BaseFeeHandler>::validate
ValidScheduler_CliffOnly(fee) ==
    /\ fee.cliff_fee_numerator >= MIN_FEE_NUMERATOR
    /\ fee.cliff_fee_numerator <= MAX_FEE_NUMERATOR

ValidScheduler(fee) ==
    /\ \/ fee.period_frequency = 0 /\ fee.number_of_period = 0 /\ fee.reduction_factor = 0
       \/ fee.period_frequency # 0 /\ fee.number_of_period # 0 /\ fee.reduction_factor # 0
    /\ \E least \in NumeratorByPeriod(fee, fee.number_of_period) :
          least >= MIN_FEE_NUMERATOR /\ least < FEE_DENOMINATOR
    /\ fee.cliff_fee_numerator < FEE_DENOMINATOR
    /\ fee.cliff_fee_numerator <= MAX_FEE_NUMERATOR

-----------------------------------------------------------------------------
(* base_fee/fee_rate_limiter.rs                                            *)

IsZeroLimiter(fee) ==
    /\ fee.reference_amount = 0 /\ fee.max_limiter_duration = 0
    /\ fee.max_fee_bps = 0 /\ fee.fee_increment_bps = 0

IsNonZeroLimiter(fee) ==
    /\ fee.reference_amount # 0 /\ fee.max_limiter_duration # 0
    /\ fee.max_fee_bps # 0 /\ fee.fee_increment_bps # 0

\* is_rate_limiter_applied
LimiterApplied(fee, point, dir) ==
    /\ ~IsZeroLimiter(fee)
    /\ dir = "BtoA"
    /\ point >= ActivationPoint
    /\ point <= ActivationPoint + fee.max_limiter_duration

\* get_max_index
MaxIndex(fee) ==
    (Numerator(fee.max_fee_bps) - fee.cliff_fee_numerator)
        \div Numerator(fee.fee_increment_bps)

\* get_fee_numerator_from_included_fee_amount: c for the first x0 tokens, i
\* more for each further x0, and the greatest fee for what is beyond
LimiterNumerator_SkipsAStep(fee, amount) ==
    LET c  == fee.cliff_fee_numerator
        i  == Numerator(fee.fee_increment_bps)
        x0 == fee.reference_amount
        a  == (amount - x0) \div x0
        b  == (amount - x0) % x0
        m  == MaxIndex(fee)
        first(n) == x0 * (c + c * n + (i * n * (n + 1)) \div 2)
        scaled == IF a < m
                  THEN first(a) + b * (c + i * a)
                  ELSE first(m) + ((a - m) * x0 + b) * Numerator(fee.max_fee_bps)
    IN IF amount <= x0 THEN c
       ELSE MulDiv(CeilDiv(scaled, FEE_DENOMINATOR), FEE_DENOMINATOR, amount, "Up")

LimiterNumerator(fee, amount) ==
    LET c  == fee.cliff_fee_numerator
        i  == Numerator(fee.fee_increment_bps)
        x0 == fee.reference_amount
        a  == (amount - x0) \div x0
        b  == (amount - x0) % x0
        m  == MaxIndex(fee)
        first(n) == x0 * (c + c * n + (i * n * (n + 1)) \div 2)
        scaled == IF a < m
                  THEN first(a) + b * (c + i * (a + 1))
                  ELSE first(m) + ((a - m) * x0 + b) * Numerator(fee.max_fee_bps)
    IN IF amount <= x0 THEN c
       ELSE MulDiv(CeilDiv(scaled, FEE_DENOMINATOR), FEE_DENOMINATOR, amount, "Up")

\* FeeRateLimiter::get_excluded_fee_amount
Excluded(fee, amount) == amount - FeeWithin(amount, LimiterNumerator(fee, amount))

\* sqrt_u256: one bit of the root after the other, from the highest
Root(n) ==
    LET digits[k \in 0 .. SQRT_BITS] ==
          IF k = 0 THEN [left |-> n, root |-> 0, bit |-> Power(4, SQRT_BITS - 1)]
          ELSE LET was  == digits[k - 1]
                   fits == was.left >= was.root + was.bit
               IN [left |-> IF fits THEN was.left - was.root - was.bit ELSE was.left,
                   root |-> was.root \div 2 + (IF fits THEN was.bit ELSE 0),
                   bit  |-> was.bit \div 4]
    IN digits[SQRT_BITS].root

\* The amount at which the fee stops growing, or the greatest amount
\* (get_checked_amounts)
CheckedAmount(fee) == Least(MAX_AMOUNT, (MaxIndex(fee) + 1) * fee.reference_amount)

\* The amounts in for an amount out between those of the first and the last
\* step: the root of a quadratic, then the rest at one step's fee.  The
\* subtraction under the root wraps around in the code, the others are
\* checked; it counts as a failure here.
AmountsInGrowing(fee, excluded) ==
    LET c  == fee.cliff_fee_numerator
        i  == Numerator(fee.fee_increment_bps)
        x0 == fee.reference_amount
        y  == 2 * FEE_DENOMINATOR * x0 + i * x0 - 2 * c * x0
        z  == 2 * excluded * FEE_DENOMINATOR * x0
        whole == (y - Root(y * y - 4 * i * z)) \div (2 * i)
        rest  == excluded - Excluded(fee, whole)
        step  == c + i * (whole \div x0)
    IN IF y * y < 4 * i * z \/ rest < 0 \/ step >= FEE_DENOMINATOR
       THEN {} ELSE {whole + rest + FeeOnTop(rest, step)}

AmountsInBeyond(fee, excluded) ==
    LET rest == excluded - Excluded(fee, CheckedAmount(fee))
    IN IF (MaxIndex(fee) + 1) * fee.reference_amount > MAX_AMOUNT
       THEN {}
       ELSE {CheckedAmount(fee) + rest + FeeOnTop(rest, Numerator(fee.max_fee_bps))}

\* get_fee_numerator_from_excluded_fee_amount
NumeratorsForOutput_NoRest(fee, excluded) == {LimiterNumerator(fee, excluded)}

NumeratorsForOutput(fee, excluded) ==
    LET most == Excluded(fee, CheckedAmount(fee))
        amounts == IF excluded < most THEN AmountsInGrowing(fee, excluded)
                                      ELSE AmountsInBeyond(fee, excluded)
        found == {MulDiv(amount - excluded, FEE_DENOMINATOR, amount, "Up") :
                      amount \in {a \in amounts : a <= MAX_AMOUNT}}
    IN IF excluded <= Excluded(fee, fee.reference_amount)
       THEN {fee.cliff_fee_numerator}
       ELSE IF excluded = most THEN {LimiterNumerator(fee, CheckedAmount(fee))}
       ELSE {n \in found : n >= fee.cliff_fee_numerator}

\* <FeeRateLimiter as BaseFeeHandler>::validate
ValidLimiter(fee) ==
    /\ CollectFeeMode = "OnlyB"
    /\ fee.cliff_fee_numerator >= MIN_FEE_NUMERATOR
    /\ fee.cliff_fee_numerator <= Numerator(fee.max_fee_bps)
    /\ \/ IsZeroLimiter(fee)
       \/ /\ IsNonZeroLimiter(fee)
          /\ fee.max_limiter_duration <= MAX_LIMITER_DURATION
          /\ Numerator(fee.fee_increment_bps) < FEE_DENOMINATOR
          /\ Numerator(fee.max_fee_bps) <= MAX_FEE_NUMERATOR
          /\ LimiterNumerator(fee, 0) >= MIN_FEE_NUMERATOR
          /\ LimiterNumerator(fee, MAX_AMOUNT) <= MAX_FEE_NUMERATOR

-----------------------------------------------------------------------------
(* base_fee/mod.rs and state/fee.rs                                        *)

IsLimiter(fee) == fee.mode = "RateLimiter"

ValidBaseFee(fee) == IF IsLimiter(fee) THEN ValidLimiter(fee) ELSE ValidScheduler(fee)

\* get_base_fee_numerator_from_included_fee_amount
IncludedNumerators(fee, point, dir, amount) ==
    IF ~IsLimiter(fee) THEN SchedulerNumerators(fee, point)
    ELSE IF LimiterApplied(fee, point, dir) THEN {LimiterNumerator(fee, amount)}
    ELSE {fee.cliff_fee_numerator}

\* get_base_fee_numerator_from_excluded_fee_amount
ExcludedNumerators(fee, point, dir, amount) ==
    IF ~IsLimiter(fee) THEN SchedulerNumerators(fee, point)
    ELSE IF LimiterApplied(fee, point, dir) THEN NumeratorsForOutput(fee, amount)
    ELSE {fee.cliff_fee_numerator}

\* DynamicFeeParameters::validate
ValidDynamicFee(params) ==
    /\ params.filter_period < params.decay_period
    /\ params.reduction_factor <= BASIS_POINT_MAX

VARIABLES
    base_fee,      \* BaseFeeStruct
    params,        \* the constants of DynamicFeeStruct
    sqrt_price,
    sqrt_price_reference, volatility_reference, volatility_accumulator,
    elapsed        \* seconds since last_update_timestamp, up to decay_period

dynamic == <<sqrt_price_reference, volatility_reference, volatility_accumulator>>
vars == <<base_fee, params, sqrt_price, dynamic, elapsed>>

\* get_delta_bin_id
DeltaBinId(price_a, price_b) ==
    LET upper == IF price_a > price_b THEN price_a ELSE price_b
        lower == IF price_a > price_b THEN price_b ELSE price_a
    IN 2 * (((upper * ONE) \div lower - ONE) \div params.bin_step_u128)

\* get_variable_fee
VariableFee ==
    LET swing == volatility_accumulator * params.bin_step
    IN IF params.initialized
       THEN CeilDiv(swing * swing * params.variable_fee_control, VARIABLE_FEE_SCALE)
       ELSE 0

\* get_total_fee_numerator
TotalNumerator(base) == Least(MAX_FEE_NUMERATOR, VariableFee + base)

\* get_total_trading_fee_from_included_fee_amount, _from_excluded_fee_amount
NumeratorsWithin(point, dir, amount) ==
    {TotalNumerator(n) : n \in IncludedNumerators(base_fee, point, dir, amount)}
NumeratorsOnTop(point, dir, amount) ==
    {TotalNumerator(n) : n \in ExcludedNumerators(base_fee, point, dir, amount)}

\* The pool a trade finds
PoolWith(liquidity) ==
    [liquidity |-> liquidity, sqrt_price |-> sqrt_price,
     sqrt_min_price |-> CHOOSE p \in Prices : \A q \in Prices : p <= q,
     sqrt_max_price |-> CHOOSE p \in Prices : \A q \in Prices : p >= q,
     collect_fee_mode |-> CollectFeeMode]

Modes == {"ExactIn", "PartialFill", "ExactOut"}

\* The quotes of the three modes with the full fee.  What does not fit u64
\* fails.
TradeQuotes_FeeOfOffer(mode, pool, point, dir, amount) ==
    LET within == NumeratorsWithin(point, dir, amount)
        on_top == [x \in Nat |-> within]
        quotes == IF mode = "ExactOut" THEN ExactOutput(pool, dir, amount, on_top)
                  ELSE UNION {IF mode = "ExactIn"
                              THEN ExactInput(pool, dir, amount, n)
                              ELSE PartialInput(pool, dir, amount, n, on_top) : n \in within}
    IN {q \in quotes : q.paid <= MAX_AMOUNT}

TradeQuotes(mode, pool, point, dir, amount) ==
    LET within == NumeratorsWithin(point, dir, amount)
        on_top == [x \in Nat |-> NumeratorsOnTop(point, dir, x)]
        quotes == IF mode = "ExactOut" THEN ExactOutput(pool, dir, amount, on_top)
                  ELSE UNION {IF mode = "ExactIn"
                              THEN ExactInput(pool, dir, amount, n)
                              ELSE PartialInput(pool, dir, amount, n, on_top) : n \in within}
    IN {q \in quotes : q.paid <= MAX_AMOUNT}

Init ==
    /\ base_fee \in {fee \in BaseFees : ValidBaseFee(fee)}
    /\ params \in {p \in DynamicFees : ValidDynamicFee(p)}
    /\ sqrt_price \in Prices
    /\ sqrt_price_reference = 0
    /\ volatility_reference = 0
    /\ volatility_accumulator = 0
    /\ elapsed = params.decay_period      \* last_update_timestamp = 0

\* update_pre_swap: update_references
UpdateReferences ==
    /\ sqrt_price_reference' = IF elapsed >= params.filter_period
                               THEN sqrt_price ELSE sqrt_price_reference
    /\ volatility_reference' =
         IF elapsed < params.filter_period THEN volatility_reference
         ELSE IF elapsed < params.decay_period
         THEN (volatility_accumulator * params.reduction_factor) \div BASIS_POINT_MAX
         ELSE 0

\* update_volatility_accumulator
CappedVolatility_NoCap(volatility) == volatility
CappedVolatility(volatility) == Least(params.max_volatility_accumulator, volatility)

\* update_post_swap: the time is noted only if the trade crossed a bin
NoteTime_Always(next_price) == elapsed' = 0
NoteTime(next_price) ==
    elapsed' = IF DeltaBinId(sqrt_price, next_price) > 0 THEN 0 ELSE elapsed

\* A trade, for the dynamic fee: update_pre_swap, the swap, update_post_swap
Trade(next_price) ==
    /\ sqrt_price' = next_price
    /\ IF params.initialized
       THEN /\ UpdateReferences
            /\ volatility_accumulator' =
                 CappedVolatility(volatility_reference'
                   + DeltaBinId(next_price, sqrt_price_reference') * BASIS_POINT_MAX)
            /\ NoteTime(next_price)
       ELSE UNCHANGED <<dynamic, elapsed>>
    /\ UNCHANGED <<base_fee, params>>

Tick ==
    /\ elapsed < params.decay_period
    /\ elapsed' = elapsed + 1
    /\ UNCHANGED <<base_fee, params, sqrt_price, dynamic>>

Next == (\E next_price \in Prices : Trade(next_price)) \/ Tick

\* Time passes.  Nobody is obliged to trade.
Spec == Init /\ [][Next]_vars
FairSpec == Spec /\ WF_vars(Tick)

-----------------------------------------------------------------------------
(* What must hold.                                                         *)

TypeOK ==
    /\ ValidBaseFee(base_fee) /\ ValidDynamicFee(params)
    /\ sqrt_price \in Prices
    /\ sqrt_price_reference \in Prices \cup {0}
    /\ volatility_reference \in 0 .. params.max_volatility_accumulator
    /\ volatility_accumulator \in 0 .. params.max_volatility_accumulator
    /\ elapsed \in 0 .. params.decay_period

\* What one unit of the fee's numerator is of an amount, in whole tokens: how
\* much the rounding of a numerator costs.
UnitOf(amount) == CeilDiv(amount, FEE_DENOMINATOR)

\* The rounding of an exact-out amount, in tokens.
Rounding(paid) == 4 * UnitOf(paid)

\* Amounts out that some amount in pays for; the last few before the end of
\* the u64 range round to an amount in beyond it.
Reachable(fee, point, dir, amount) ==
    IsLimiter(fee) /\ LimiterApplied(fee, point, dir) =>
        amount + UnitOf(MAX_AMOUNT) + 2 <= Excluded(fee, MAX_AMOUNT)

\* A pool whose parameters were accepted never fails to find a fee: for no
\* amount, point in time and volatility does a checked subtraction fail, a
\* power come out as 0 or an exact-out amount have no solution, and the fee
\* is at least the least and at most the greatest that is allowed.
EveryTradeHasAFee ==
    \A point \in Points, dir \in Directions, amount \in 1 .. MAX_AMOUNT :
        LET in  == IncludedNumerators(base_fee, point, dir, amount)
            out == ExcludedNumerators(base_fee, point, dir, amount)
            allowed(n) == TotalNumerator(n) \in MIN_FEE_NUMERATOR .. MAX_FEE_NUMERATOR
        IN /\ in # {} /\ \A n \in in : allowed(n)
           /\ Reachable(base_fee, point, dir, amount) =>
                  out # {} /\ \A n \in out : allowed(n)

\* The scheduled fee never rises once the pool is active, and the truncated
\* square-and-multiply of the exponential mode stays below the exact power
\* by less than one unit of its scale for each period.
SchedulesFall ==
    ~IsLimiter(base_fee) =>
        /\ \A p, q \in ActivationPoint .. MaxPoint :
             p <= q =>
               \A m \in SchedulerNumerators(base_fee, p),
                  n \in SchedulerNumerators(base_fee, q) : m >= n
        /\ base_fee.mode = "Exponential" =>
             \A period \in 1 .. base_fee.number_of_period :
                \A power \in Pow(ExponentialBase(base_fee), period) :
                   LET exact == Power(ExponentialBase(base_fee), period)
                       scale == Power(ONE, period - 1)
                   IN power * scale <= exact /\ exact < (power + period) * scale

\* The doc of FeeRateLimiter: the first reference_amount tokens pay the cliff
\* fee, each further reference_amount pays one increment more, and what is
\* beyond the last step pays the greatest fee.  TokenFees adds that up token
\* by token.
TokenFees(fee, amount) ==
    LET sum[t \in 0 .. amount] ==
          IF t = 0 THEN 0
          ELSE LET step == (t - 1) \div fee.reference_amount
               IN sum[t - 1] + IF step <= MaxIndex(fee)
                               THEN fee.cliff_fee_numerator
                                    + step * Numerator(fee.fee_increment_bps)
                               ELSE Numerator(fee.max_fee_bps)
    IN sum[amount]

\* What the closed form charges is the sum of the tokens' fees rounded up, or
\* up to a unit of the numerator more, because the numerator is rounded up as
\* well: one token for amounts up to FEE_DENOMINATOR, more for greater ones.
LimiterSumsTokens ==
    IsLimiter(base_fee) /\ ~IsZeroLimiter(base_fee) =>
        \A amount \in 1 .. MAX_AMOUNT :
            LET fee == FeeWithin(amount, LimiterNumerator(base_fee, amount))
                sum == CeilDiv(TokenFees(base_fee, amount), FEE_DENOMINATOR)
            IN fee \in sum .. sum + UnitOf(amount)

\* Exact-out and exact-in trades agree: what a trader pays for an exact
\* amount out would, paid in, have bought that amount within a few units of
\* the numerator, for every amount the inversion gives a fee for, and where
\* the greatest fee cuts in as well: an exact-out trade is no way around the
\* limiter.
LimiterInverts ==
    IsLimiter(base_fee) /\ ~IsZeroLimiter(base_fee) =>
        \A amount \in 1 .. MAX_AMOUNT :
            \A n \in NumeratorsForOutput(base_fee, amount) :
                LET capped(base) == Least(MAX_FEE_NUMERATOR, base)
                    paid == amount + FeeOnTop(amount, capped(n))
                    buys == paid - FeeWithin(paid, capped(LimiterNumerator(base_fee, paid)))
                IN buys \in amount - UnitOf(paid) .. amount + Rounding(paid)

\* How many times what is left after a fee goes into what it was taken from
Grows(numerator) == CeilDiv(FEE_DENOMINATOR, FEE_DENOMINATOR - numerator)

\* However a trade is asked for, it pays the fee of what it pays in: an exact
\* output, and a partial fill that the range cuts short, are charged within
\* a few tokens what an exact input of the same amount is charged, not what
\* the amount offered or the amount without its fee would be, and offering
\* more than the range takes costs at most those few tokens, at the greatest
\* fee, beyond the offer.
\* While prices swing only an upper bound holds: the limiter's step is found
\* from the amount without the variable fee, so that it may be a lower one,
\* and what is rounded there, as a share of a lesser amount, grows with the
\* fee that is put on top.
\* (ActivationPoint: the limiter applies; MaxPoint: it no longer does.)
OneFeeForAllModes ==
    IsLimiter(base_fee) =>
    \A dir \in {d \in Directions : FeesOnInput(CollectFeeMode, d)},
       liquidity \in PoolLiquidities, mode \in Modes,
       point \in {ActivationPoint, MaxPoint}, amount \in 1 .. MAX_AMOUNT :
        \A q \in TradeQuotes(mode, PoolWith(liquidity), point, dir, amount) :
            /\ \A n \in NumeratorsWithin(point, dir, q.paid) :
                 LET more == q.fee - FeeWithin(q.paid, n)
                 IN IF VariableFee = 0
                    THEN more \in -UnitOf(q.paid) .. Rounding(q.paid)
                    ELSE \A on_top \in NumeratorsOnTop(point, dir, q.paid - q.fee) :
                           more <= Rounding(q.paid) * Grows(on_top)
            /\ mode = "PartialFill" /\ VariableFee = 0
                 => q.paid <= amount + Rounding(q.paid) * Grows(MAX_FEE_NUMERATOR)

\* The dynamic fee fades: if trading goes on and no trade crosses a bin any
\* more, the variable fee returns to zero for good, even if the trades come
\* faster than the filter period.
Crossing == DeltaBinId(sqrt_price, sqrt_price') > 0
Trading == \E next_price \in Prices : Trade(next_price)
VolatilityFades ==
    params.initialized /\ []<><<Trading>>_vars /\ ~[]<><<Crossing>>_vars
        => <>[](VariableFee = 0)
=============================================================================
