------------------------- MODULE MCHonoraryPosition -------------------------
(***************************************************************************)
(* Small instances of HonoraryPosition for TLC: the pools of MCCpAmmPool.  *)
(***************************************************************************)
EXTENDS HonoraryPosition, TLC

CONSTANTS p1, h

Fees(partner) ==
    [cliff_fee_numerator |-> 4, number_of_period |-> 2, period_frequency |-> 2,
     reduction_factor |-> 1, protocol_fee_percent |-> 40,
     referral_fee_percent |-> 50, partner_fee_percent |-> 50,
     has_partner |-> partner]

\* Prices are multiples of 1/16.
PoolConfig(mode, price) ==
    [liquidity |-> 4096, sqrt_price |-> price, sqrt_min_price |-> 16,
     sqrt_max_price |-> 64, activation_point |-> 0,
     collect_fee_mode |-> mode, fees |-> Fees(TRUE)]

MCPools == {PoolConfig("OnlyB", 32), PoolConfig("BothToken", 32)}

Threshold(a, b) == ("a" :> a) @@ ("b" :> b)

\* "c" is no mint of the pool.
MCMints == Tokens \cup {"c"}

\* At the first price 4096 of liquidity cost 64 a and 256 b: enough of both,
\* or of b only if an earlier funding has left something.
MCThresholds == {Threshold(400, 400), Threshold(100, 300)}

\* Exactly what 4096 of liquidity cost in quote; 100 cost 2 a and 7 b.
MCExactThresholds == {Threshold(256, 256), Threshold(5, 7)}

MCNoFee == [basis_points |-> 0, maximum_fee |-> 0]
MCNoFees == {MCNoFee}
MCNoFeeOfMints == [t \in Tokens |-> MCNoFee]
=============================================================================
