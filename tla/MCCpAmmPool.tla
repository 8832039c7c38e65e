---------------------------- MODULE MCCpAmmPool ----------------------------
(***************************************************************************)
(* Small instances of CpAmmPool for TLC.                                   *)
(***************************************************************************)
EXTENDS CpAmmPool, TLC

CONSTANTS p1, p2, p3, v1, v2

\* Fees of 1/4 falling by 1/16 every two points, twice.
Fees(partner) ==
    [cliff_fee_numerator |-> 4, number_of_period |-> 2, period_frequency |-> 2,
     reduction_factor |-> 1, protocol_fee_percent |-> 40,
     referral_fee_percent |-> 50, partner_fee_percent |-> 50,
     has_partner |-> partner]

\* Prices are multiples of 1/16.
Config(mode, price, activation, partner) ==
    [liquidity |-> 4096, sqrt_price |-> price, sqrt_min_price |-> 16,
     sqrt_max_price |-> 64, activation_point |-> activation,
     collect_fee_mode |-> mode, fees |-> Fees(partner)]

MCSwapConfigs == {Config("OnlyB", 32, 0, TRUE), Config("BothToken", 64, 0, FALSE)}

MCNumerators(u, m, f) == [unlocked |-> u, permanent |-> m, fee |-> f]

MCHalf == {MCNumerators(2, 2, 1)}
MCSplits == {MCNumerators(1, 4, 0), MCNumerators(3, 1, 2)}

Schedule(cliff, frequency, unlock, per_period, periods) ==
    [cliff |-> cliff, frequency |-> frequency, cliff_unlock |-> unlock,
     per_period |-> per_period, periods |-> periods]

\* One at once in two parts, two later with a cliff; the last is refused.
MCSchedules ==
    {Schedule({}, 1, 0, 1000, 2), Schedule({1}, 1, 900, 300, 1),
     Schedule({2}, 0, 700, 0, 0), Schedule({}, 1, 900, 0, 0), Schedule({1}, 4, 0, 300, 2)}

MCLockConfigs == {Config("OnlyB", 32, 2, TRUE)}

MCAll == {[t \in Tokens |-> 1000]}

\* One mint keeps an eighth, at most 3, the other everything up to 1.
MCFeeOfMints == [t \in Tokens |-> IF t = "a" THEN [basis_points |-> 2, maximum_fee |-> 3]
                                 ELSE [basis_points |-> 16, maximum_fee |-> 1]]

MCTransferFees == {MCFeeOfMints[t] : t \in Tokens}

MCNoFee == [basis_points |-> 0, maximum_fee |-> 0]
MCNoFees == {MCNoFee}
MCNoFeeOfMints == [t \in Tokens |-> MCNoFee]
=============================================================================
