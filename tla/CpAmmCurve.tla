----------------------------- MODULE CpAmmCurve -----------------------------
(***************************************************************************)
(* The arithmetic of a cp-amm swap: curve.rs, the fee rounding and         *)
(* splitting of state/fee.rs, and the quotes of state/pool.rs.  A pool     *)
(* concentrates all its liquidity between sqrt_min_price and               *)
(* sqrt_max_price, so reserves are                                         *)
(*     a = L * (1/sqrt_price - 1/sqrt_max_price),                          *)
(*     b = L * (sqrt_price - sqrt_min_price) / PRICE_UNIT.                 *)
(*                                                                         *)
(* Integers are unbounded here: a value that would not fit its u64, u128   *)
(* or U256 makes the code fail (safe_math.rs), and is out of the instances *)
(* considered.  A quote that may fail is a set: empty if the code returns  *)
(* an error, else the singleton of the result.  numerators_on[x] are the    *)
(* fee numerators for an amount that the fee comes on top of.              *)
(*                                                                         *)
(* X_Mistake next to X is X with a mistake one could make in the code; no  *)
(* definition uses it, it is there to see which properties notice it.      *)
(***************************************************************************)
EXTENDS CpAmmMath

CONSTANTS
    PRICE_UNIT,        \* 2^128, the square of the scale of a Q64.64 price
    FEE_DENOMINATOR,   \* 10^9
    PERCENT            \* 100

ASSUME CurveAssumption ==
    /\ PRICE_UNIT \in Nat \ {0}
    /\ FEE_DENOMINATOR \in Nat \ {0}
    /\ PERCENT \in Nat \ {0}

Directions == {"AtoB", "BtoA"}

-----------------------------------------------------------------------------
(* curve.rs                                                                *)

DeltaA(lower, upper, liquidity, round) ==
    MulDiv(liquidity, upper - lower, lower * upper, round)

DeltaB(lower, upper, liquidity, round) ==
    MulDiv(liquidity, upper - lower, PRICE_UNIT, round)

\* get_next_sqrt_price_from_input: away from the target price in both directions
NextPriceFromInput_RoundDown(sqrt_price, liquidity, amount, dir) ==
    IF dir = "AtoB"
    THEN (liquidity * sqrt_price) \div (liquidity + amount * sqrt_price)
    ELSE sqrt_price + (amount * PRICE_UNIT) \div liquidity

NextPriceFromInput(sqrt_price, liquidity, amount, dir) ==
    IF dir = "AtoB"
    THEN CeilDiv(liquidity * sqrt_price, liquidity + amount * sqrt_price)
    ELSE sqrt_price + (amount * PRICE_UNIT) \div liquidity

\* get_next_sqrt_price_from_output: beyond the price that gives the amount.
\* The subtractions are checked, as is the division by what is left.
NextPricesFromOutput(sqrt_price, liquidity, amount, dir) ==
    LET left == liquidity - amount * sqrt_price
        drop == CeilDiv(amount * PRICE_UNIT, liquidity)
    IN IF dir = "AtoB"
       THEN IF drop > sqrt_price THEN {} ELSE {sqrt_price - drop}
       ELSE IF left <= 0 THEN {} ELSE {CeilDiv(liquidity * sqrt_price, left)}

-----------------------------------------------------------------------------
(* state/fee.rs                                                            *)

\* get_excluded_fee_amount: the fee in an amount that includes it
FeeWithin(included, numerator) == MulDiv(included, numerator, FEE_DENOMINATOR, "Up")

\* get_included_fee_amount: the fee on top of an amount
FeeOnTop(excluded, numerator) ==
    MulDiv(excluded, FEE_DENOMINATOR, FEE_DENOMINATOR - numerator, "Up") - excluded

\* split_fees.  Without a partner, partner_fee_percent is of no account.
SplitFees(fees, fee, has_referral) ==
    LET protocol == (fee * fees.protocol_fee_percent) \div PERCENT
        referral == IF has_referral
                    THEN (protocol * fees.referral_fee_percent) \div PERCENT ELSE 0
        partner  == IF fees.has_partner
                    THEN ((protocol - referral) * fees.partner_fee_percent) \div PERCENT
                    ELSE 0
    IN [trading |-> fee - protocol, referral |-> referral, partner |-> partner,
        protocol |-> protocol - referral - partner]

\* FeeMode::get_fee_mode
FeesOnInput(collect_fee_mode, dir) == collect_fee_mode = "OnlyB" /\ dir = "BtoA"
FeeToken(collect_fee_mode, dir) ==
    IF collect_fee_mode = "BothToken" /\ dir = "BtoA" THEN "a" ELSE "b"

-----------------------------------------------------------------------------
(* state/pool.rs: quotes.  The pool's liquidity is positive.               *)

InRange_MinOnly(pool, dir, next) == next >= pool.sqrt_min_price

InRange(pool, dir, next) ==
    IF dir = "AtoB" THEN next >= pool.sqrt_min_price ELSE next <= pool.sqrt_max_price

\* What the curve pays for moving the price, and what moving it costs
CurveOut(pool, dir, next) ==
    IF dir = "AtoB" THEN DeltaB(next, pool.sqrt_price, pool.liquidity, "Down")
                    ELSE DeltaA(pool.sqrt_price, next, pool.liquidity, "Down")
CurveIn(pool, dir, next) ==
    IF dir = "AtoB" THEN DeltaA(next, pool.sqrt_price, pool.liquidity, "Up")
                    ELSE DeltaB(pool.sqrt_price, next, pool.liquidity, "Up")

\* A quote: what the trader pays and receives, the fee included on its side
\* of the trade, and the price afterwards.
Quote(paid, received, fee, next) ==
    [paid |-> paid, received |-> received, fee |-> fee, next_sqrt_price |-> next]

\* Fees on the input are `fee_in' of it, fees on the output are deducted.
InputQuote(pool, dir, paid, fee_in, next, numerator) ==
    LET out == CurveOut(pool, dir, next)
        fee == IF FeesOnInput(pool.collect_fee_mode, dir)
               THEN fee_in ELSE FeeWithin(out, numerator)
    IN Quote(paid,
             IF FeesOnInput(pool.collect_fee_mode, dir) THEN out ELSE out - fee,
             fee, next)

InputFee(pool, dir, amount, numerator) ==
    IF FeesOnInput(pool.collect_fee_mode, dir) THEN FeeWithin(amount, numerator) ELSE 0

\* get_swap_result_from_exact_input
ExactInput(pool, dir, amount_in, numerator) ==
    LET fee_in == InputFee(pool, dir, amount_in, numerator)
        next   == NextPriceFromInput(pool.sqrt_price, pool.liquidity,
                                     amount_in - fee_in, dir)
    IN IF InRange(pool, dir, next)
       THEN {InputQuote(pool, dir, amount_in, fee_in, next, numerator)}
       ELSE {}

\* The fee that comes on top of an input
FeesOnTopOfInput(pool, dir, amount, numerators_on) ==
    IF FeesOnInput(pool.collect_fee_mode, dir)
    THEN {FeeOnTop(amount, numerator) : numerator \in numerators_on[amount]}
    ELSE {0}

\* get_swap_result_from_partial_input: what the range cannot take is left,
\* and the fee is that of what it takes
PartialInput(pool, dir, amount_in, numerator, numerators_on) ==
    LET fee_in == InputFee(pool, dir, amount_in, numerator)
        actual == amount_in - fee_in
        limit  == IF dir = "AtoB" THEN pool.sqrt_min_price ELSE pool.sqrt_max_price
        most   == CurveIn(pool, dir, limit)
    IN IF actual < most
       THEN {InputQuote(pool, dir, amount_in, fee_in,
                        NextPriceFromInput(pool.sqrt_price, pool.liquidity,
                                           actual, dir),
                        numerator)}
       ELSE IF actual = most
       THEN {InputQuote(pool, dir, amount_in, fee_in, limit, numerator)}
       ELSE {InputQuote(pool, dir, most + fee, fee, limit, numerator) :
                 fee \in FeesOnTopOfInput(pool, dir, most, numerators_on)}

\* get_swap_result_from_exact_output
ExactOutput(pool, dir, amount_out, numerators_on) ==
    LET fees_out == IF FeesOnInput(pool.collect_fee_mode, dir) THEN {0}
                    ELSE {FeeOnTop(amount_out, n) : n \in numerators_on[amount_out]}
        nexts(fee_out) ==
            {next \in NextPricesFromOutput(pool.sqrt_price, pool.liquidity,
                                           amount_out + fee_out, dir) :
                InRange(pool, dir, next)}
        quotes(fee_out, next) ==
            LET cost == CurveIn(pool, dir, next)
            IN {Quote(cost + fee_in, amount_out, fee_in + fee_out, next) :
                  fee_in \in FeesOnTopOfInput(pool, dir, cost, numerators_on)}
    IN UNION {UNION {quotes(fee_out, next) : next \in nexts(fee_out)} : fee_out \in fees_out}

\* get_reserves_amount, get_amounts_for_modify_liquidity
AmountA(pool, liquidity, round) ==
    DeltaA(pool.sqrt_price, pool.sqrt_max_price, liquidity, round)
AmountB(pool, liquidity, round) ==
    DeltaB(pool.sqrt_min_price, pool.sqrt_price, liquidity, round)
=============================================================================
