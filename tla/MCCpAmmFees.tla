----------------------------- MODULE MCCpAmmFees -----------------------------
(* Instances of CpAmmFees: a fee denominator of 1000, percents for basis    *)
(* points, 16 units for a Q64.64 one.                                       *)
EXTENDS CpAmmFees

Scheduler(mode, cliff, periods, frequency, factor) ==
    [mode |-> mode, cliff_fee_numerator |-> cliff, number_of_period |-> periods,
     period_frequency |-> frequency, reduction_factor |-> factor]

Limiter(cliff, increment, duration, max, reference) ==
    [mode |-> "RateLimiter", cliff_fee_numerator |-> cliff,
     fee_increment_bps |-> increment, max_limiter_duration |-> duration,
     max_fee_bps |-> max, reference_amount |-> reference]

\* Some of them are refused by validate: a linear schedule that ends below
\* the least fee, an exponential one whose power comes out as 0, a period
\* count without a frequency, a limiter that lasts too long or charges too
\* much in the end.
MCBaseFees ==
    {Scheduler("Linear", 100, 3, 2, factor) : factor \in {30, 45}}
    \cup {Scheduler("Exponential", cliff, 6, 1, factor) :
             cliff \in {60, 500}, factor \in {7, 20, 60}}
    \cup {Scheduler("Linear", 20, 0, 0, 0), Scheduler("Linear", 20, 1, 0, 0)}
    \cup {Limiter(cliff, increment, 2, max, 7) :
             cliff \in {10, 100}, increment \in {1, 10}, max \in {5, 40, 95}}
    \cup {Limiter(10, 1, 2, 40, 1), Limiter(10, 5, 2, 90, 20),
          Limiter(10, 0, 0, 0, 0), Limiter(10, 5, 9, 90, 20)}

Volatility(on, factor) ==
    [initialized |-> on, bin_step |-> 1, bin_step_u128 |-> 1,
     max_volatility_accumulator |-> 600, variable_fee_control |-> 6,
     filter_period |-> 1, decay_period |-> 3, reduction_factor |-> factor]
MCDynamicFees == {Volatility(TRUE, 50), Volatility(TRUE, 100), Volatility(FALSE, 0)}
=============================================================================
