-------------------------- MODULE CpAmmFeesProofs --------------------------
(***************************************************************************)
(* The fee of a trade, for every accepted set of parameters: volatility    *)
(* stays within its limit, schedules fall and never fail, powers are exact *)
(* to a unit a period, the closed form of the rate limiter is the sum of   *)
(* its tokens' fees, its inversion finds an amount in that buys the amount *)
(* out, every trade finds an allowed fee, and the three modes agree on it. *)
(***************************************************************************)
EXTENDS CpAmmFees, CpAmmMathProofs

-----------------------------------------------------------------------------
(* The dynamic fee.                                                        *)

\* The types alone are not inductive: DeltaBinId divides by the reference
\* price, which is 0 in a new pool.  But then last_update_timestamp is 0 too,
\* so that the first trade comes later than filter_period and sets it.
ReferenceKnown == sqrt_price_reference = 0 => elapsed = params.decay_period

FeesInv ==
    /\ base_fee \in BaseFees /\ params \in DynamicFees
    /\ TypeOK
    /\ ReferenceKnown

LEMMA DynamicFields ==
    ASSUME NEW p \in DynamicFees
    PROVE  /\ p.initialized \in BOOLEAN /\ p.bin_step \in Nat
           /\ p.bin_step_u128 \in Nat /\ p.max_volatility_accumulator \in Nat
           /\ p.variable_fee_control \in Nat /\ p.filter_period \in Nat
           /\ p.decay_period \in Nat /\ p.reduction_factor \in Nat
           /\ p.initialized => p.bin_step_u128 # 0
BY FeesAssumption DEF DynamicFeeParameters

\* The number of bins between two prices.
LEMMA DeltaBinIsNat ==
    ASSUME params \in DynamicFees, params.initialized,
           NEW p \in Prices, NEW q \in Prices
    PROVE  DeltaBinId(p, q) \in Nat
<1> DEFINE upper == IF p > q THEN p ELSE q
           lower == IF p > q THEN q ELSE p
           ratio == (upper * ONE) \div lower
           step  == params.bin_step_u128
<1>1. upper \in Nat /\ lower \in Nat \ {0} /\ lower <= upper
  BY FeesAssumption
<1>2. ONE \in Nat /\ step \in Nat \ {0}
  BY FeesAssumption, DynamicFields
<1>3. DeltaBinId(p, q) = 2 * ((ratio - ONE) \div step)
  BY DEF DeltaBinId
<1> HIDE DEF upper, lower, step
<1>4. upper * ONE \in Nat /\ ONE * lower <= upper * ONE
  <2>1. lower * ONE <= upper * ONE
    BY <1>1, <1>2, Monotone
  <2> QED
    BY <1>1, <1>2, <2>1
<1>5. ratio \in Nat /\ ONE <= ratio
  BY <1>1, <1>2, <1>4, DivBounds, DivAtLeast
<1> HIDE DEF ratio
<1>6. (ratio - ONE) \div step \in Nat
  <2>1. ratio - ONE \in Nat
    BY <1>2, <1>5
  <2> QED
    BY <1>2, <2>1, DivBounds
<1> QED
  BY <1>3, <1>6

LEMMA CappedInRange ==
    ASSUME params \in DynamicFees, NEW v \in Nat
    PROVE  CappedVolatility(v) \in 0 .. params.max_volatility_accumulator
BY DynamicFields DEF CappedVolatility, Least

LEMMA FeesInit == Init => FeesInv
<1> SUFFICES ASSUME Init PROVE FeesInv
  OBVIOUS
<1>1. base_fee \in BaseFees /\ params \in DynamicFees
  BY DEF Init
<1>2. params.max_volatility_accumulator \in Nat /\ params.decay_period \in Nat
  BY <1>1, DynamicFields
<1> QED
  BY <1>1, <1>2 DEF Init, FeesInv, TypeOK, ReferenceKnown

\* update_references and update_volatility_accumulator keep the limit.
LEMMA TradeKeeps ==
    ASSUME FeesInv, NEW next_price \in Prices, Trade(next_price)
    PROVE  FeesInv'
<1> DEFINE limit == params.max_volatility_accumulator
<1>1. /\ params \in DynamicFees /\ base_fee \in BaseFees
      /\ params' = params /\ base_fee' = base_fee
  BY DEF FeesInv, Trade
<1>2. /\ limit \in Nat /\ params.decay_period \in Nat /\ params.filter_period \in Nat
      /\ params.reduction_factor \in Nat /\ BASIS_POINT_MAX \in Nat \ {0}
      /\ params.filter_period < params.decay_period
      /\ params.reduction_factor <= BASIS_POINT_MAX
  BY <1>1, DynamicFields, FeesAssumption DEF FeesInv, TypeOK, ValidDynamicFee
<1>3. /\ sqrt_price \in Prices /\ sqrt_price_reference \in Prices \cup {0}
      /\ volatility_reference \in 0 .. limit /\ volatility_accumulator \in 0 .. limit
      /\ elapsed \in 0 .. params.decay_period
      /\ ValidBaseFee(base_fee) /\ ValidDynamicFee(params)
      /\ sqrt_price_reference = 0 => elapsed = params.decay_period
  BY DEF FeesInv, TypeOK, ReferenceKnown
<1>4. sqrt_price' = next_price
  BY DEF Trade
<1>5. CASE ~ params.initialized
  <2>1. UNCHANGED <<sqrt_price_reference, volatility_reference, volatility_accumulator,
                    elapsed>>
    BY <1>5 DEF Trade, dynamic
  <2> QED
    BY <1>1, <1>3, <1>4, <2>1
       DEF FeesInv, TypeOK, ReferenceKnown, ValidBaseFee, ValidDynamicFee
<1>6. CASE params.initialized
  <2>1. /\ UpdateReferences
        /\ volatility_accumulator' =
             CappedVolatility(volatility_reference'
               + DeltaBinId(next_price, sqrt_price_reference') * BASIS_POINT_MAX)
        /\ NoteTime(next_price)
    BY <1>6 DEF Trade
  <2>2. sqrt_price_reference' \in Prices
    BY <1>2, <1>3, <2>1 DEF UpdateReferences
  <2>3. volatility_reference' \in 0 .. limit
    <3> DEFINE decayed == (volatility_accumulator * params.reduction_factor)
                              \div BASIS_POINT_MAX
    <3>1. decayed \in 0 .. volatility_accumulator
      <4>1. volatility_accumulator \in Nat /\ params.reduction_factor \in 0 .. BASIS_POINT_MAX
        BY <1>2, <1>3
      <4> QED
        BY <1>2, <4>1, PartOf
    <3>2. volatility_reference' \in {volatility_reference, decayed, 0}
      BY <2>1 DEF UpdateReferences
    <3> HIDE DEF decayed
    <3> QED
      BY <1>2, <1>3, <3>1, <3>2
  <2>4. volatility_accumulator' \in 0 .. limit
    <3> DEFINE bins == DeltaBinId(next_price, sqrt_price_reference')
    <3>1. bins \in Nat
      BY <1>1, <1>6, <2>2, DeltaBinIsNat
    <3>2. volatility_accumulator' =
            CappedVolatility(volatility_reference' + bins * BASIS_POINT_MAX)
      BY <2>1
    <3> HIDE DEF bins
    <3>3. volatility_reference' + bins * BASIS_POINT_MAX \in Nat
      <4>1. volatility_reference' \in Nat
        BY <1>2, <2>3
      <4>2. bins * BASIS_POINT_MAX \in Nat
        BY <1>2, <3>1
      <4> QED
        BY <4>1, <4>2
    <3>4. \A v \in Nat : CappedVolatility(v) \in 0 .. limit
      BY <1>1, CappedInRange
    <3> QED
      BY <3>2, <3>3, <3>4, Zenon
  <2>5. elapsed' \in 0 .. params.decay_period
    BY <1>2, <1>3, <2>1 DEF NoteTime
  <2>6. sqrt_price_reference' # 0
    BY <2>2, FeesAssumption
  <2> QED
    BY <1>1, <1>3, <1>4, <2>2, <2>3, <2>4, <2>5, <2>6
       DEF FeesInv, TypeOK, ReferenceKnown, ValidBaseFee, ValidDynamicFee
<1> QED
  BY <1>5, <1>6

LEMMA FeesNext == FeesInv /\ [Next]_vars => FeesInv'
<1> SUFFICES ASSUME FeesInv, [Next]_vars PROVE FeesInv'
  OBVIOUS
<1>1. ASSUME NEW next_price \in Prices, Trade(next_price) PROVE FeesInv'
  BY <1>1, TradeKeeps
<1>2. CASE Tick
  <2>1. params.decay_period \in Nat
    BY DynamicFields DEF FeesInv
  <2> QED
    BY <1>2, <2>1 DEF Tick, dynamic, FeesInv, TypeOK, ReferenceKnown, ValidBaseFee,
                      ValidDynamicFee
<1>3. CASE UNCHANGED vars
  BY <1>3 DEF vars, dynamic, FeesInv, TypeOK, ReferenceKnown, ValidBaseFee,
              ValidDynamicFee
<1> QED
  BY <1>1, <1>2, <1>3 DEF Next

LEMMA FeesInvariant == Spec => []FeesInv
BY FeesInit, FeesNext, PTL DEF Spec

\* The volatility never exceeds max_volatility_accumulator, however often and
\* at whatever prices a pool is traded, the reference price is one the pool
\* had, and no decay is computed from a time out of range.
THEOREM FeeTypes == Spec => []TypeOK
<1>1. FeesInv => TypeOK
  BY DEF FeesInv
<1> QED
  BY <1>1, FeesInvariant, PTL

-----------------------------------------------------------------------------
(* The periods of a schedule.                                              *)

\* The period whose fee a trade pays.
Period(fee, point) ==
    LET passed == (point - ActivationPoint) \div fee.period_frequency
    IN IF fee.period_frequency = 0 THEN 0
       ELSE IF point < ActivationPoint \/ passed > fee.number_of_period
            THEN fee.number_of_period ELSE passed

LEMMA SchedulerFields ==
    ASSUME NEW fee \in BaseFees, ~ IsLimiter(fee)
    PROVE  /\ fee.mode \in {"Linear", "Exponential"} /\ fee.cliff_fee_numerator \in Nat
           /\ fee.number_of_period \in Nat /\ fee.period_frequency \in Nat
           /\ fee.reduction_factor \in Nat
BY FeesAssumption DEF Schedulers, Limiters, IsLimiter

LEMMA PeriodInRange ==
    ASSUME NEW fee \in BaseFees, ~ IsLimiter(fee), NEW point \in Nat
    PROVE  Period(fee, point) \in 0 .. fee.number_of_period
<1> DEFINE d == fee.period_frequency
           passed == (point - ActivationPoint) \div d
<1>1. d \in Nat /\ fee.number_of_period \in Nat /\ ActivationPoint \in Nat
  BY SchedulerFields, FeesAssumption
<1>2. CASE d = 0 \/ point < ActivationPoint
  BY <1>1, <1>2 DEF Period
<1>3. CASE d # 0 /\ point >= ActivationPoint
  <2>1. point - ActivationPoint \in Nat /\ d \in Nat \ {0}
    BY <1>1, <1>3
  <2>2. passed \in Nat
    BY <2>1, DivBounds
  <2>3. Period(fee, point) \in {fee.number_of_period, passed}
        /\ (passed > fee.number_of_period => Period(fee, point) = fee.number_of_period)
    BY <1>3 DEF Period
  <2> HIDE DEF passed
  <2> QED
    BY <1>1, <2>2, <2>3
<1> QED
  BY <1>1, <1>2, <1>3

\* Periods pass in order.
LEMMA PeriodsPass ==
    ASSUME NEW fee \in BaseFees, ~ IsLimiter(fee), NEW p \in Nat, NEW q \in Nat,
           ActivationPoint <= p, p <= q
    PROVE  Period(fee, p) <= Period(fee, q)
<1> DEFINE d == fee.period_frequency
           n == fee.number_of_period
           passed(x) == (x - ActivationPoint) \div d
<1>1. d \in Nat /\ n \in Nat /\ ActivationPoint \in Nat
  BY SchedulerFields, FeesAssumption
<1>2. CASE d = 0
  BY <1>2 DEF Period
<1>3. CASE d # 0
  <2>1. /\ p - ActivationPoint \in Nat /\ q - ActivationPoint \in Nat /\ d \in Nat \ {0}
        /\ p - ActivationPoint <= q - ActivationPoint
    BY <1>1, <1>3
  <2>2. passed(p) \in Nat /\ passed(q) \in Nat /\ passed(p) <= passed(q)
    BY <2>1, DivBounds, DivMonotone
  <2>3. /\ Period(fee, p) = IF passed(p) > n THEN n ELSE passed(p)
        /\ Period(fee, q) = IF passed(q) > n THEN n ELSE passed(q)
    <3>1. ~ p < ActivationPoint /\ ~ q < ActivationPoint
      BY <1>1
    <3> QED
      BY <1>3, <3>1 DEF Period
  <2> HIDE DEF passed
  <2> QED
    BY <1>1, <2>2, <2>3
<1> QED
  BY <1>2, <1>3

-----------------------------------------------------------------------------
(* The exponential schedule: the square-and-multiply of pow.               *)

\* One bit of the exponent further, and the bits of Pow as far as the n-th.
NextBit(was) ==
    [square |-> (was.square * was.square) \div ONE,
     result |-> IF was.left % 2 = 1
                THEN (was.result * was.square) \div ONE ELSE was.result,
     left |-> was.left \div 2]

Bits(g, base, exp, n) ==
    g = [k \in 0 .. n |->
           IF k = 0 THEN [square |-> base, result |-> ONE, left |-> exp]
           ELSE NextBit(g[k - 1])]

LEMMA PowDef ==
    ASSUME NEW base, NEW exp
    PROVE  LET g == CHOOSE g : Bits(g, base, exp, EXPONENT_BITS)
               last == g[EXPONENT_BITS]
           IN Pow(base, exp)
                = IF last.left > 0 \/ last.result = 0 THEN {} ELSE {last.result}
BY DEF Pow, Bits, NextBit

LEMMA BitsFirst ==
    ASSUME NEW base, NEW exp, NEW n \in Nat, NEW g, Bits(g, base, exp, n)
    PROVE  g[0] = [square |-> base, result |-> ONE, left |-> exp]
BY DEF Bits

LEMMA BitsNext ==
    ASSUME NEW base, NEW exp, NEW n \in Nat, NEW g, Bits(g, base, exp, n),
           NEW k \in Nat, k + 1 <= n
    PROVE  g[k + 1] = NextBit(g[k])
<1>1. k + 1 \in 0 .. n /\ k + 1 # 0 /\ (k + 1) - 1 = k
  OBVIOUS
<1> QED
  BY <1>1 DEF Bits

LEMMA BitsExist ==
    ASSUME NEW base, NEW exp, NEW n \in Nat
    PROVE  \E g : Bits(g, base, exp, n)
<1> DEFINE first == [square |-> base, result |-> ONE, left |-> exp]
<1>1. PICK Good : Good = {k \in Nat : \E g : Bits(g, base, exp, k)}
  OBVIOUS
<1>2. 0 \in Good
  <2> DEFINE g == [k \in 0 .. 0 |-> first]
  <2>1. g = [k \in 0 .. 0 |-> IF k = 0 THEN first ELSE NextBit(g[k - 1])]
    OBVIOUS
  <2> HIDE DEF g
  <2>2. Bits(g, base, exp, 0)
    BY <2>1 DEF Bits
  <2> QED
    BY <1>1, <2>2
<1>3. ASSUME NEW k \in Nat, k \in Good PROVE k + 1 \in Good
  <2>1. PICK g : Bits(g, base, exp, k)
    BY <1>1, <1>3
  <2> DEFINE h == [j \in 0 .. k + 1 |-> IF j <= k THEN g[j] ELSE NextBit(g[k])]
  <2>2. ASSUME NEW j \in 0 .. k + 1
        PROVE  h[j] = IF j = 0 THEN first ELSE NextBit(h[j - 1])
    <3>1. CASE j = 0
      <4>1. g[0] = first
        BY <2>1, BitsFirst
      <4> QED
        BY <3>1, <4>1
    <3>2. CASE j # 0
      <4>1. j - 1 \in Nat /\ j - 1 \in 0 .. k + 1 /\ j - 1 <= k /\ (j - 1) + 1 = j
        BY <3>2
      <4>2. h[j - 1] = g[j - 1]
        BY <4>1
      <4>3. CASE j <= k
        <5>1. g[(j - 1) + 1] = NextBit(g[j - 1])
          <6>1. (j - 1) + 1 <= k
            BY <4>1, <4>3
          <6> QED
            BY <2>1, <4>1, <6>1, BitsNext
        <5> QED
          BY <3>2, <4>1, <4>2, <4>3, <5>1
      <4>4. CASE ~ j <= k
        <5>1. j - 1 = k /\ h[j] = NextBit(g[k])
          BY <4>1, <4>4
        <5> QED
          BY <3>2, <4>2, <5>1
      <4> QED
        BY <4>3, <4>4
    <3> QED
      BY <3>1, <3>2
  <2>3. h = [j \in 0 .. k + 1 |-> h[j]]
    OBVIOUS
  <2> HIDE DEF h
  <2>4. Bits(h, base, exp, k + 1)
    BY <2>2, <2>3 DEF Bits
  <2> QED
    BY <1>1, <2>4
<1>4. Nat \subseteq Good
  BY <1>2, <1>3, NaturalInduction
<1> QED
  BY <1>1, <1>4

\* The bits of Pow: every product is of parts of ONE, and the result is never
\* below the square.
LEMMA BitsTypes ==
    ASSUME NEW base \in 0 .. ONE, NEW exp \in Nat, NEW n \in Nat,
           NEW g, Bits(g, base, exp, n)
    PROVE  \A k \in 0 .. n :
             /\ g[k].left \in Nat
             /\ g[k].square \in 0 .. ONE /\ g[k].result \in 0 .. ONE
             /\ g[k].square <= g[k].result
<1> DEFINE Typed(k) == /\ g[k].left \in Nat
                       /\ g[k].square \in 0 .. ONE /\ g[k].result \in 0 .. ONE
                       /\ g[k].square <= g[k].result
<1>1. ONE \in Nat \ {0}
  BY FeesAssumption
<1>2. PICK Good : Good = {k \in Nat : k <= n => Typed(k)}
  OBVIOUS
<1>3. 0 \in Good
  <2>1. g[0] = [square |-> base, result |-> ONE, left |-> exp]
    BY BitsFirst
  <2>2. Typed(0)
    BY <1>1, <2>1
  <2> QED
    BY <1>2, <2>2
<1>4. ASSUME NEW k \in Nat, k \in Good PROVE k + 1 \in Good
  <2> SUFFICES ASSUME k + 1 <= n PROVE Typed(k + 1)
    BY <1>2
  <2> DEFINE s == g[k].square
             r == g[k].result
             l == g[k].left
  <2>1. g[k + 1] = NextBit(g[k])
    BY BitsNext
  <2>2. l \in Nat /\ s \in 0 .. ONE /\ r \in 0 .. ONE /\ s <= r
    BY <1>2, <1>4
  <2>3. /\ g[k + 1].square = (s * s) \div ONE /\ g[k + 1].left = l \div 2
        /\ g[k + 1].result = IF l % 2 = 1 THEN (r * s) \div ONE ELSE r
    BY <2>1 DEF NextBit
  <2> HIDE DEF s, r, l
  <2>4. (s * s) \div ONE \in 0 .. s /\ (r * s) \div ONE \in 0 .. r
    BY <1>1, <2>2, PartOf
  <2>5. (s * s) \div ONE <= (r * s) \div ONE
    <3>1. s * s <= r * s /\ s * s \in Nat /\ r * s \in Nat
      BY <2>2, Monotone
    <3> QED
      BY <1>1, <3>1, DivMonotone
  <2>6. l \div 2 \in Nat
    BY <2>2
  <2> QED
    BY <1>1, <2>2, <2>3, <2>4, <2>5, <2>6
<1>5. Nat \subseteq Good
  BY <1>3, <1>4, NaturalInduction
<1> QED
  BY <1>2, <1>5

\* More bits in the exponent, less left of ONE: of two exponents that agree
\* in the bits to come the lower one has the greater result.
LEMMA BitsFall ==
    ASSUME NEW base \in 0 .. ONE, NEW e \in Nat, NEW f \in Nat, e <= f, NEW n \in Nat,
           NEW g, Bits(g, base, e, n), NEW h, Bits(h, base, f, n)
    PROVE  \A k \in 0 .. n :
             /\ g[k].square = h[k].square
             /\ \/ g[k].left < h[k].left
                \/ g[k].left = h[k].left /\ g[k].result >= h[k].result
<1> DEFINE Ordered(k) == /\ g[k].square = h[k].square
                         /\ \/ g[k].left < h[k].left
                            \/ g[k].left = h[k].left /\ g[k].result >= h[k].result
<1>1. ONE \in Nat \ {0}
  BY FeesAssumption
<1>2. PICK Good : Good = {k \in Nat : k <= n => Ordered(k)}
  OBVIOUS
<1>3. 0 \in Good
  <2>1. /\ g[0] = [square |-> base, result |-> ONE, left |-> e]
        /\ h[0] = [square |-> base, result |-> ONE, left |-> f]
    BY BitsFirst
  <2>2. Ordered(0)
    BY <1>1, <2>1
  <2> QED
    BY <1>2, <2>2
<1>4. ASSUME NEW k \in Nat, k \in Good PROVE k + 1 \in Good
  <2> SUFFICES ASSUME k + 1 <= n PROVE Ordered(k + 1)
    BY <1>2
  <2> DEFINE s == g[k].square
             r == g[k].result
             l == g[k].left
             t == h[k].result
             m == h[k].left
             r2 == (r * s) \div ONE
             t2 == (t * s) \div ONE
  <2>1. g[k + 1] = NextBit(g[k]) /\ h[k + 1] = NextBit(h[k])
    BY BitsNext
  <2>2. /\ l \in Nat /\ s \in 0 .. ONE /\ r \in 0 .. ONE /\ s <= r
        /\ m \in Nat /\ t \in 0 .. ONE
    <3>1. k \in 0 .. n
      OBVIOUS
    <3> QED
      BY <3>1, BitsTypes
  <2>3. h[k].square = s /\ (l < m \/ (l = m /\ r >= t))
    <3>1. Ordered(k)
      <4>1. k <= n
        OBVIOUS
      <4> HIDE DEF Ordered
      <4> QED
        BY <1>2, <1>4, <4>1
    <3> QED
      BY <3>1
  <2>4. /\ g[k + 1].square = (s * s) \div ONE /\ h[k + 1].square = (s * s) \div ONE
        /\ g[k + 1].left = l \div 2 /\ h[k + 1].left = m \div 2
        /\ g[k + 1].result = IF l % 2 = 1 THEN r2 ELSE r
        /\ h[k + 1].result = IF m % 2 = 1 THEN t2 ELSE t
    BY <2>1, <2>3 DEF NextBit
  <2> HIDE DEF s, r, l, t, m
  <2>5. t2 \in 0 .. s
    <3>1. (s * t) \div ONE \in 0 .. s
      BY <1>1, <2>2, PartOf
    <3>2. t * s = s * t
      BY <2>2
    <3> QED
      BY <3>1, <3>2
  <2>6. r >= t => r2 >= t2
    <3>1. ASSUME r >= t PROVE t2 <= r2
      <4>1. t * s <= r * s /\ t * s \in Nat /\ r * s \in Nat
        BY <2>2, <3>1, Monotone
      <4> QED
        BY <1>1, <4>1, DivMonotone
    <3>2. r2 \in 0 .. r
      BY <1>1, <2>2, PartOf
    <3> QED
      BY <2>5, <3>1, <3>2
  <2>7. r2 \in 0 .. r
    BY <1>1, <2>2, PartOf
  <2> HIDE DEF r2, t2
  <2>8. CASE l = m
    BY <2>2, <2>3, <2>4, <2>5, <2>6, <2>7, <2>8
  <2>9. CASE l < m /\ l \div 2 = m \div 2
    <3>1. l % 2 = 0 /\ m % 2 = 1
      BY <2>2, <2>9
    <3> QED
      BY <2>2, <2>4, <2>5, <2>9, <3>1
  <2>10. CASE l < m /\ l \div 2 # m \div 2
    <3>1. l \div 2 < m \div 2
      BY <2>2, <2>10
    <3> QED
      BY <2>4, <3>1
  <2> QED
    BY <2>3, <2>8, <2>9, <2>10
<1>5. Nat \subseteq Good
  BY <1>3, <1>4, NaturalInduction
<1> QED
  BY <1>2, <1>5

\* A power that does not fail leaves none below it to fail, and none less
\* than it.
LEMMA PowersFall ==
    ASSUME NEW base \in 0 .. ONE, NEW e \in Nat, NEW f \in Nat, e <= f,
           NEW v \in Pow(base, f)
    PROVE  /\ v \in 1 .. ONE
           /\ \E u \in v .. ONE : Pow(base, e) = {u}
<1> DEFINE n == EXPONENT_BITS
           g == CHOOSE g : Bits(g, base, e, n)
           h == CHOOSE h : Bits(h, base, f, n)
           a == g[n]
           b == h[n]
<1>1. n \in Nat /\ ONE \in Nat \ {0}
  BY FeesAssumption
<1>2. Bits(g, base, e, n) /\ Bits(h, base, f, n)
  BY <1>1, BitsExist
<1>3. /\ Pow(base, e) = IF a.left > 0 \/ a.result = 0 THEN {} ELSE {a.result}
      /\ Pow(base, f) = IF b.left > 0 \/ b.result = 0 THEN {} ELSE {b.result}
  BY PowDef
<1> HIDE DEF g, h
<1>4. n \in 0 .. n
  BY <1>1
<1>5. /\ a.left \in Nat /\ a.result \in 0 .. ONE
      /\ b.left \in Nat /\ b.result \in 0 .. ONE
  BY <1>1, <1>2, <1>4, BitsTypes
<1>6. a.left < b.left \/ (a.left = b.left /\ a.result >= b.result)
  <2>1. \A k \in 0 .. n :
             /\ g[k].square = h[k].square
             /\ \/ g[k].left < h[k].left
                \/ g[k].left = h[k].left /\ g[k].result >= h[k].result
    BY <1>1, <1>2, BitsFall
  <2> QED
    BY <1>4, <2>1
<1> HIDE DEF a, b, n
<1>7. ~ (b.left > 0 \/ b.result = 0) /\ v = b.result
  BY <1>3
<1> QED
  BY <1>1, <1>3, <1>5, <1>6, <1>7

-----------------------------------------------------------------------------
(* How far the truncated products of pow are from the exact power.         *)

\* v is v/ONE cut off: at most E/S, and at most m units of ONE below it.
LEMMA ProductOfParts ==
    ASSUME NEW v \in 0 .. ONE, NEW u \in 0 .. ONE, NEW S \in Nat, NEW T \in Nat,
           NEW E \in 0 .. S, NEW F \in 0 .. T, NEW m \in Nat, NEW n \in Nat,
           v * S <= ONE * E, ONE * E <= (v + m) * S,
           u * T <= ONE * F, ONE * F <= (u + n) * T
    PROVE  LET p == (v * u) \div ONE
           IN /\ p * (S * T) <= ONE * (E * F)
              /\ ONE * (E * F) <= (p + m + n + 1) * (S * T)
<1> DEFINE O == ONE
           p == (v * u) \div O
           B == O * E
           D == O * F
           k == p + m + n + 1
<1>1. O \in Nat \ {0} /\ v \in Nat /\ u \in Nat /\ E \in Nat /\ F \in Nat
  BY FeesAssumption
<1>2. v * u \in Nat /\ p \in Nat /\ p * O <= v * u /\ v * u <= (p + 1) * O
  <2>1. v * u \in Nat
    BY <1>1
  <2>2. p \in Nat /\ p * O <= v * u /\ v * u < p * O + O
    BY <1>1, <2>1, DivBounds
  <2> DEFINE z == v * u
  <2> HIDE DEF p
  <2>3. (p + 1) * O = p * O + O /\ p * O \in Nat
    BY <1>1, <2>2
  <2>4. z \in Nat /\ z < p * O + O
    BY <2>1, <2>2
  <2> HIDE DEF z
  <2>5. z <= (p + 1) * O
    BY <1>1, <2>3, <2>4
  <2> QED
    BY <2>1, <2>2, <2>5 DEF z
<1>3. /\ B \in Nat /\ D \in Nat /\ v * S <= B /\ B <= (v + m) * S
      /\ u * T <= D /\ D <= (u + n) * T /\ k \in Nat
  BY <1>1, <1>2
<1>4. B * D = (O * (E * F)) * O
  BY <1>1
<1>5. B <= O * S
  <2>1. E * O <= S * O /\ E * O = O * E /\ S * O = O * S
    BY <1>1, Monotone
  <2> QED
    BY <2>1
<1>6. u <= O
  OBVIOUS
<1> HIDE DEF B, D, p, k, O
<1>7. p * (S * T) <= O * (E * F)
  <2> DEFINE A == v * S
             C == u * T
  <2>1. A \in Nat /\ C \in Nat /\ A <= B /\ C <= D /\ A * C = (v * u) * (S * T)
    BY <1>1, <1>3
  <2> HIDE DEF A, C
  <2>2. A * C <= B * D
    <3>1. A * C <= B * C
      BY <1>3, <2>1, Monotone
    <3>2. C * B <= D * B
      BY <1>3, <2>1, Monotone
    <3>3. C * B = B * C /\ D * B = B * D /\ A * C \in Nat /\ B * C \in Nat /\ B * D \in Nat
      BY <1>3, <2>1
    <3> QED
      BY <3>1, <3>2, <3>3
  <2>3. (p * O) * (S * T) <= (v * u) * (S * T)
    <3>1. S * T \in Nat /\ p * O \in Nat
      BY <1>1, <1>2
    <3> QED
      BY <1>2, <3>1, Monotone
  <2>4. (p * O) * (S * T) = (p * (S * T)) * O
    BY <1>1, <1>2
  <2>5. (p * (S * T)) * O <= (O * (E * F)) * O
    <3> DEFINE a == (p * (S * T)) * O
               b == A * C
               c == B * D
    <3>1. a \in Int /\ b \in Int /\ c \in Int /\ a <= b /\ b <= c
      <4>1. a \in Int /\ b \in Int /\ c \in Int
        BY <1>1, <1>2, <1>3, <2>1
      <4> QED
        BY <2>1, <2>2, <2>3, <2>4, <4>1
    <3> HIDE DEF a, b, c
    <3>2. a <= c
      BY <3>1
    <3> QED
      BY <1>4, <3>2 DEF a, c
  <2>6. p * (S * T) \in Int /\ O * (E * F) \in Int
    BY <1>1, <1>2
  <2> QED
    BY <1>1, <2>5, <2>6, CancelLe
<1>8. B * (u + n) <= (k * O) * S
  <2>1. B * u <= ((p + 1) * O + m * O) * S
    <3>1. B * u <= ((v + m) * S) * u
      BY <1>1, <1>3, Monotone
    <3>2. ((v + m) * S) * u = (v * u + m * u) * S
      BY <1>1
    <3>3. v * u + m * u <= (p + 1) * O + m * O
      <4>1. u * m <= O * m /\ u * m = m * u /\ O * m = m * O
        BY <1>1, <1>6, Monotone
      <4>2. m * u \in Int /\ m * O \in Int /\ (p + 1) * O \in Int
        BY <1>1, <1>2
      <4> QED
        BY <1>2, <4>1, <4>2
    <3>4. (v * u + m * u) * S <= ((p + 1) * O + m * O) * S
      <4>1. v * u + m * u \in Int /\ (p + 1) * O + m * O \in Int
        BY <1>1, <1>2
      <4> QED
        BY <3>3, <4>1, Monotone
    <3> DEFINE a == B * u
               b == (v * u + m * u) * S
               c == ((p + 1) * O + m * O) * S
    <3>5. a \in Int /\ b \in Int /\ c \in Int
      BY <1>1, <1>2, <1>3
    <3>6. a <= b /\ b <= c
      BY <3>1, <3>2, <3>4
    <3> HIDE DEF a, b, c
    <3>7. a <= c
      BY <3>5, <3>6
    <3> QED
      BY <3>7 DEF a, c
  <2>2. B * n <= (O * S) * n
    BY <1>1, <1>3, <1>5, Monotone
  <2>3. B * (u + n) = B * u + B * n
    BY <1>1, <1>3
  <2>4. (k * O) * S = ((p + 1) * O + m * O) * S + (O * S) * n
    BY <1>1, <1>2 DEF k
  <2>5. B * u \in Int /\ B * n \in Int /\ ((p + 1) * O + m * O) * S \in Int
        /\ (O * S) * n \in Int
    BY <1>1, <1>2, <1>3
  <2> QED
    BY <2>1, <2>2, <2>3, <2>4, <2>5
<1>9. O * (E * F) <= k * (S * T)
  <2>1. D * B <= ((u + n) * T) * B
    BY <1>1, <1>3, Monotone
  <2>2. (B * (u + n)) * T <= ((k * O) * S) * T
    <3>1. B * (u + n) \in Int /\ (k * O) * S \in Int
      BY <1>1, <1>3
    <3> QED
      BY <1>8, <3>1, Monotone
  <2>3. /\ D * B = (O * (E * F)) * O
        /\ ((u + n) * T) * B = (B * (u + n)) * T
        /\ ((k * O) * S) * T = (k * (S * T)) * O
    <3>1. D * B = B * D
      BY <1>3
    <3>2. ((u + n) * T) * B = (B * (u + n)) * T
      BY <1>1, <1>3
    <3>3. ((k * O) * S) * T = (k * (S * T)) * O
      BY <1>1, <1>3
    <3> QED
      BY <1>4, <3>1, <3>2, <3>3
  <2> DEFINE a == O * (E * F)
             c == k * (S * T)
             b == (B * (u + n)) * T
  <2>4. a \in Int /\ c \in Int /\ b \in Int
    BY <1>1, <1>3
  <2>5. a * O <= b /\ b <= c * O
    BY <2>1, <2>2, <2>3
  <2> HIDE DEF a, b, c
  <2>6. a * O <= c * O
    <3>1. a * O \in Int /\ c * O \in Int
      BY <1>1, <2>4
    <3> QED
      BY <2>4, <2>5, <3>1
  <2>7. a <= c
    BY <1>1, <2>4, <2>6, CancelLe
  <2> QED
    BY <2>7 DEF a, c
<1> QED
  BY <1>7, <1>9 DEF p, k, O

\* v/ONE is the w-th power of base/ONE, cut off after every product: at most
\* w - 1 times.
Close(base, v, w) ==
    \/ w = 0 /\ v = ONE
    \/ /\ w # 0
       /\ v * Power(ONE, w) <= ONE * Power(base, w)
       /\ ONE * Power(base, w) <= (v + (w - 1)) * Power(ONE, w)

LEMMA CloseProduct ==
    ASSUME NEW base \in 0 .. ONE, NEW v \in 0 .. ONE, NEW u \in 0 .. ONE,
           NEW w \in Nat, NEW x \in Nat \ {0}, Close(base, v, w), Close(base, u, x)
    PROVE  Close(base, (v * u) \div ONE, w + x)
<1>1. ONE \in Nat \ {0} /\ base \in Nat /\ base <= ONE
  BY FeesAssumption
<1>2. CASE w = 0
  <2>1. v = ONE /\ w + x = x
    BY <1>2 DEF Close
  <2>2. (v * u) \div ONE = u
    <3>1. u \in Nat /\ 0 \in 0 .. ONE - 1 /\ ONE * u \in Nat /\ ONE * u = u * ONE + 0
      BY <1>1
    <3>2. (ONE * u) \div ONE = u
      BY <1>1, <3>1, DivisionIs
    <3> QED
      BY <2>1, <3>2
  <2> QED
    BY <2>1, <2>2
<1>3. CASE w # 0
  <2> DEFINE S == Power(ONE, w)
             T == Power(ONE, x)
             E == Power(base, w)
             F == Power(base, x)
             p == (v * u) \div ONE
  <2>1. S \in Nat /\ T \in Nat /\ E \in 0 .. S /\ F \in 0 .. T
    <3>1. ONE <= ONE
      BY <1>1
    <3>2. S \in Nat /\ T \in Nat
      BY <1>1, <3>1, PowerNat
    <3>3. E \in Nat /\ F \in Nat /\ E <= S /\ F <= T
      BY <1>1, PowerNat
    <3> HIDE DEF S, T, E, F
    <3> QED
      BY <3>2, <3>3
  <2>2. Power(ONE, w + x) = S * T /\ Power(base, w + x) = E * F
    BY <1>1, PowerPlus
  <2>3. /\ v * S <= ONE * E /\ ONE * E <= (v + (w - 1)) * S
        /\ u * T <= ONE * F /\ ONE * F <= (u + (x - 1)) * T
    BY <1>3 DEF Close
  <2> HIDE DEF S, T, E, F
  <2>4. w - 1 \in Nat /\ x - 1 \in Nat
    BY <1>3
  <2>5. /\ p * (S * T) <= ONE * (E * F)
        /\ ONE * (E * F) <= (p + (w - 1) + (x - 1) + 1) * (S * T)
    BY <2>1, <2>3, <2>4, ProductOfParts
  <2>6. p \in Nat
    <3>1. v * u \in Nat
      BY <1>1
    <3> QED
      BY <1>1, <3>1, DivBounds
  <2> HIDE DEF p
  <2>7. p + (w - 1) + (x - 1) + 1 = p + ((w + x) - 1) /\ w + x # 0
    BY <1>3, <2>6
  <2>8. Close(base, p, w + x)
    BY <2>2, <2>5, <2>7 DEF Close
  <2> QED
    BY <2>8 DEF p
<1> QED
  BY <1>2, <1>3

\* Whatever bits have been taken from the exponent are in the result.
LEMMA BitsClose ==
    ASSUME NEW base \in 0 .. ONE, NEW exp \in Nat, NEW n \in Nat,
           NEW g, Bits(g, base, exp, n)
    PROVE  \A k \in 0 .. n :
             \E w \in Nat \ {0}, d \in Nat :
                /\ exp = d + g[k].left * w
                /\ Close(base, g[k].square, w)
                /\ Close(base, g[k].result, d)
<1> DEFINE Holds(k) ==
             \E w \in Nat \ {0}, d \in Nat :
                /\ exp = d + g[k].left * w
                /\ Close(base, g[k].square, w)
                /\ Close(base, g[k].result, d)
<1>1. ONE \in Nat \ {0} /\ base \in Nat /\ base <= ONE
  BY FeesAssumption
<1>2. PICK Good : Good = {k \in Nat : k <= n => Holds(k)}
  OBVIOUS
<1>3. 0 \in Good
  <2>1. g[0] = [square |-> base, result |-> ONE, left |-> exp]
    BY BitsFirst
  <2>2. Close(base, g[0].result, 0)
    BY <2>1 DEF Close
  <2>3. Close(base, g[0].square, 1)
    <3>1. \A x \in Nat : Power(x, 1) = x
      <4>1. ASSUME NEW x \in Nat PROVE Power(x, 1) = x
        <5>1. Power(x, 0 + 1) = x * Power(x, 0) /\ Power(x, 0) = 1
          BY PowerSteps
        <5> QED
          BY <5>1
      <4> QED
        BY <4>1
    <3>2. Power(ONE, 1) = ONE /\ Power(base, 1) = base
      BY <1>1, <3>1
    <3>3. base * ONE = ONE * base /\ base + (1 - 1) = base /\ base * ONE \in Nat
      BY <1>1
    <3> QED
      BY <2>1, <3>2, <3>3 DEF Close
  <2>4. exp = 0 + g[0].left * 1
    BY <2>1
  <2>5. Holds(0)
    BY <2>2, <2>3, <2>4
  <2> HIDE DEF Holds
  <2> QED
    BY <1>2, <2>5
<1>4. ASSUME NEW k \in Nat, k \in Good PROVE k + 1 \in Good
  <2> SUFFICES ASSUME k + 1 <= n PROVE Holds(k + 1)
    BY <1>2
  <2> DEFINE s == g[k].square
             r == g[k].result
             l == g[k].left
  <2>1. g[k + 1] = NextBit(g[k])
    BY BitsNext
  <2>2. l \in Nat /\ s \in 0 .. ONE /\ r \in 0 .. ONE
    <3>1. k \in 0 .. n
      OBVIOUS
    <3> QED
      BY <3>1, BitsTypes
  <2>3. Holds(k)
    <3>1. k <= n
      OBVIOUS
    <3> HIDE DEF Holds
    <3> QED
      BY <1>2, <1>4, <3>1
  <2>4. PICK w \in Nat \ {0}, d \in Nat :
          exp = d + l * w /\ Close(base, s, w) /\ Close(base, r, d)
    BY <2>3
  <2>5. /\ g[k + 1].square = (s * s) \div ONE /\ g[k + 1].left = l \div 2
        /\ g[k + 1].result = IF l % 2 = 1 THEN (r * s) \div ONE ELSE r
    BY <2>1 DEF NextBit
  <2> HIDE DEF s, r, l
  <2>6. Close(base, g[k + 1].square, w + w) /\ w + w \in Nat \ {0}
    BY <2>2, <2>4, <2>5, CloseProduct
  <2>7. CASE l % 2 = 1
    <3>1. Close(base, g[k + 1].result, d + w) /\ d + w \in Nat
      BY <2>2, <2>4, <2>5, <2>7, CloseProduct
    <3>2. exp = (d + w) + g[k + 1].left * (w + w)
      <4> DEFINE half == l \div 2
      <4>1. half \in Nat /\ l = 2 * half + 1
        BY <2>2, <2>7
      <4> HIDE DEF half
      <4>2. l * w = w + half * (w + w) /\ half * (w + w) \in Nat
        BY <4>1
      <4> QED
        BY <2>4, <2>5, <4>2 DEF half
    <3> QED
      BY <2>6, <3>1, <3>2
  <2>8. CASE l % 2 # 1
    <3>1. Close(base, g[k + 1].result, d)
      BY <2>4, <2>5, <2>8
    <3>2. exp = d + g[k + 1].left * (w + w)
      <4> DEFINE half == l \div 2
      <4>1. half \in Nat /\ l = 2 * half
        BY <2>2, <2>8
      <4> HIDE DEF half
      <4>2. l * w = half * (w + w)
        BY <4>1
      <4> QED
        BY <2>4, <2>5, <4>2 DEF half
    <3> QED
      BY <2>6, <3>1, <3>2
  <2> QED
    BY <2>7, <2>8
<1> HIDE DEF Holds
<1>5. Nat \subseteq Good
  BY <1>3, <1>4, NaturalInduction
<1>6. \A k \in 0 .. n : Holds(k)
  BY <1>2, <1>5
<1> QED
  BY <1>6 DEF Holds

LEMMA PowIsClose ==
    ASSUME NEW base \in 0 .. ONE, NEW exp \in Nat, NEW v \in Pow(base, exp)
    PROVE  Close(base, v, exp)
<1> DEFINE n == EXPONENT_BITS
           g == CHOOSE g : Bits(g, base, exp, n)
           a == g[n]
<1>1. n \in Nat
  BY FeesAssumption
<1>2. Bits(g, base, exp, n)
  BY <1>1, BitsExist
<1>3. Pow(base, exp) = IF a.left > 0 \/ a.result = 0 THEN {} ELSE {a.result}
  BY PowDef
<1> HIDE DEF g, n
<1>4. n \in 0 .. n
  BY <1>1
<1>5. a.left \in Nat
  BY <1>1, <1>2, <1>4, BitsTypes
<1>6. PICK w \in Nat \ {0}, d \in Nat :
        /\ exp = d + a.left * w
        /\ Close(base, a.result, d)
  <2>1. \A k \in 0 .. n :
          \E w \in Nat \ {0}, d \in Nat :
             /\ exp = d + g[k].left * w
             /\ Close(base, g[k].square, w)
             /\ Close(base, g[k].result, d)
    BY <1>1, <1>2, BitsClose
  <2> QED
    BY <1>4, <2>1
<1> HIDE DEF a
<1>7. a.left = 0 /\ v = a.result
  BY <1>3, <1>5
<1>8. exp = d
  BY <1>6, <1>7
<1> QED
  BY <1>6, <1>7, <1>8

\* The bounds of SchedulesFall.
LEMMA PowIsAccurate ==
    ASSUME NEW base \in 0 .. ONE, NEW exp \in Nat \ {0}, NEW v \in Pow(base, exp)
    PROVE  LET exact == Power(base, exp)
               scale == Power(ONE, exp - 1)
           IN v * scale <= exact /\ exact < (v + exp) * scale
<1> DEFINE E == Power(base, exp)
           S == Power(ONE, exp - 1)
           below == v + (exp - 1)
<1>1. ONE \in Nat \ {0} /\ base \in Nat /\ base <= ONE /\ exp - 1 \in Nat
  BY FeesAssumption
<1>2. v \in Nat
  <2>1. exp <= exp
    OBVIOUS
  <2> QED
    BY <2>1, PowersFall
<1>3. E \in Nat
  BY <1>1, PowerNat
<1>4. S \in Nat /\ S # 0
  <2>1. ONE <= ONE
    BY <1>1
  <2> QED
    BY <1>1, <2>1, PowerNat
<1>5. Power(ONE, exp) = ONE * S
  <2>1. Power(ONE, (exp - 1) + 1) = ONE * S /\ (exp - 1) + 1 = exp
    BY <1>1, PowerSteps
  <2> QED
    BY <2>1
<1>6. v * (ONE * S) <= ONE * E /\ ONE * E <= below * (ONE * S)
  BY <1>5, PowIsClose DEF Close
<1>7. below \in Nat /\ v + exp = below + 1
  BY <1>1, <1>2
<1> HIDE DEF E, S, below
<1>8. v * S <= E
  <2>1. v * (ONE * S) = (v * S) * ONE /\ ONE * E = E * ONE /\ v * S \in Int
    BY <1>1, <1>2, <1>3, <1>4
  <2> QED
    BY <1>1, <1>3, <1>6, <2>1, CancelLe
<1>9. E <= below * S
  <2>1. below * (ONE * S) = (below * S) * ONE /\ ONE * E = E * ONE /\ below * S \in Int
    BY <1>1, <1>3, <1>4, <1>7
  <2> QED
    BY <1>1, <1>3, <1>6, <2>1, CancelLe
<1>10. E < (v + exp) * S
  <2>1. (below + 1) * S = below * S + S /\ below * S \in Nat
    BY <1>4, <1>7
  <2> QED
    BY <1>3, <1>4, <1>7, <1>9, <2>1
<1> QED
  BY <1>8, <1>10 DEF E, S

-----------------------------------------------------------------------------
(* The schedules: a later period never has a greater fee.                  *)

LEMMA BaseAtMostOne ==
    ASSUME NEW fee \in BaseFees, ~ IsLimiter(fee)
    PROVE  ExponentialBase(fee) \in Int /\ ExponentialBase(fee) <= ONE
<1> DEFINE r == fee.reduction_factor
           base == ExponentialBase(fee)
<1>1. r \in Nat /\ ONE \in Nat \ {0} /\ BASIS_POINT_MAX \in Nat \ {0}
  BY SchedulerFields, FeesAssumption, CurveAssumption
<1>2. r * ONE \in Nat
  BY <1>1
<1>3. (r * ONE) \div BASIS_POINT_MAX \in Nat
  BY <1>1, <1>2, DivBounds
<1>4. base = ONE - (r * ONE) \div BASIS_POINT_MAX
  BY DEF ExponentialBase
<1> HIDE DEF base, r
<1>5. base \in Int /\ base <= ONE
  BY <1>1, <1>3, <1>4
<1> QED
  BY <1>5 DEF base

LEMMA NumeratorsFall ==
    ASSUME NEW fee \in BaseFees, ~ IsLimiter(fee), NEW i \in Nat, NEW j \in Nat, i <= j,
           NEW n \in NumeratorByPeriod(fee, j)
    PROVE  n \in Nat /\ \E m \in Nat : m >= n /\ NumeratorByPeriod(fee, i) = {m}
<1> DEFINE c == fee.cliff_fee_numerator
           r == fee.reduction_factor
           base == ExponentialBase(fee)
<1>1. c \in Nat /\ r \in Nat /\ fee.mode \in {"Linear", "Exponential"}
  BY SchedulerFields
<1>2. CASE fee.mode = "Linear"
  <2>1. /\ NumeratorByPeriod(fee, i) = {c - r * i} \cap Nat
        /\ NumeratorByPeriod(fee, j) = {c - r * j} \cap Nat
    BY <1>2 DEF NumeratorByPeriod
  <2> HIDE DEF c, r
  <2>2. i * r <= j * r /\ i * r = r * i /\ j * r = r * j /\ r * i \in Nat /\ r * j \in Nat
    BY <1>1, Monotone
  <2>3. n \in Nat /\ n = c - r * j
    BY <2>1
  <2>4. c - r * i \in Nat /\ c - r * i >= n
    BY <1>1, <2>2, <2>3
  <2> QED
    BY <2>1, <2>3, <2>4
<1>3. CASE fee.mode = "Exponential"
  <2>1. \A period : NumeratorByPeriod(fee, period)
                      = IF r = 0 THEN {c}
                        ELSE IF base < 0 THEN {}
                        ELSE {(p * c) \div ONE : p \in Pow(base, period)}
    BY <1>3 DEF NumeratorByPeriod, FeeInPeriod
  <2>2. CASE r = 0
    BY <1>1, <2>1, <2>2
  <2>3. CASE r # 0
    <3>1. base \in Int /\ base <= ONE /\ ONE \in Nat \ {0}
      BY BaseAtMostOne, FeesAssumption
    <3> HIDE DEF base, r, c
    <3>2. ~ base < 0
      BY <2>1, <2>3
    <3>3. base \in 0 .. ONE
      BY <3>1, <3>2
    <3>4. PICK v \in Pow(base, j) : n = (v * c) \div ONE
      BY <2>1, <2>3, <3>2
    <3>5. v \in 1 .. ONE
      BY <3>3, PowersFall
    <3>6. PICK u \in v .. ONE : Pow(base, i) = {u}
      BY <3>3, PowersFall
    <3>7. NumeratorByPeriod(fee, i) = {(u * c) \div ONE}
      BY <2>1, <2>3, <3>2, <3>6
    <3>8. v * c <= u * c /\ v * c \in Nat /\ u * c \in Nat
      BY <1>1, <3>1, <3>5, <3>6, Monotone
    <3>9. (v * c) \div ONE \in Nat /\ (u * c) \div ONE \in Nat
      BY <3>1, <3>8, DivBounds
    <3>10. (v * c) \div ONE <= (u * c) \div ONE
      BY <3>1, <3>8, DivMonotone
    <3> QED
      BY <3>4, <3>7, <3>9, <3>10
  <2> QED
    BY <2>2, <2>3
<1> QED
  BY <1>1, <1>2, <1>3

\* An accepted schedule without periods has no reduction either.
LEMMA SchedulersPeriod ==
    ASSUME NEW fee \in BaseFees, ~ IsLimiter(fee), ValidBaseFee(fee), NEW point
    PROVE  SchedulerNumerators(fee, point) = NumeratorByPeriod(fee, Period(fee, point))
<1>1. CASE fee.period_frequency = 0
  <2>1. fee.reduction_factor = 0
    BY <1>1 DEF ValidBaseFee, ValidScheduler
  <2>2. fee.cliff_fee_numerator \in Nat
    BY SchedulerFields
  <2>3. fee.cliff_fee_numerator - 0 * 0 = fee.cliff_fee_numerator
    BY <2>2
  <2>4. NumeratorByPeriod(fee, 0) = {fee.cliff_fee_numerator}
    BY <2>1, <2>2, <2>3 DEF NumeratorByPeriod, FeeInPeriod
  <2> QED
    BY <1>1, <2>4 DEF SchedulerNumerators, Period
<1>2. CASE fee.period_frequency # 0
  BY <1>2 DEF SchedulerNumerators, Period
<1> QED
  BY <1>1, <1>2

\* No schedule fails once it is accepted: validate has seen the fee of the
\* last period, and the fees before it are defined and no less.
LEMMA ScheduledFee ==
    ASSUME NEW fee \in BaseFees, ~ IsLimiter(fee), ValidBaseFee(fee), NEW point \in Nat
    PROVE  \E n \in Nat : SchedulerNumerators(fee, point) = {n} /\ n >= MIN_FEE_NUMERATOR
<1> DEFINE last == fee.number_of_period
           k == Period(fee, point)
<1>1. last \in Nat /\ k \in 0 .. last
  BY SchedulerFields, PeriodInRange
<1>2. PICK least \in NumeratorByPeriod(fee, last) : least >= MIN_FEE_NUMERATOR
  BY DEF ValidBaseFee, ValidScheduler
<1> HIDE DEF k, last
<1>3. k \in Nat /\ k <= last
  BY <1>1
<1>4. PICK n \in Nat : n >= least /\ NumeratorByPeriod(fee, k) = {n}
  BY <1>1, <1>2, <1>3, NumeratorsFall
<1>5. least \in Nat /\ MIN_FEE_NUMERATOR \in Nat
  BY <1>1, <1>2, NumeratorsFall, FeesAssumption
<1>6. SchedulerNumerators(fee, point) = {n}
  BY <1>4, SchedulersPeriod DEF k
<1> QED
  BY <1>2, <1>4, <1>5, <1>6

\* The power of an accepted exponential schedule is of a part of ONE.
LEMMA AcceptedBase ==
    ASSUME NEW fee \in BaseFees, fee.mode = "Exponential", ValidBaseFee(fee),
           fee.number_of_period # 0
    PROVE  ExponentialBase(fee) \in 0 .. ONE
<1>1. ~ IsLimiter(fee)
  BY DEF IsLimiter
<1>2. ValidScheduler(fee)
  BY <1>1 DEF ValidBaseFee
<1>3. fee.reduction_factor # 0 /\ NumeratorByPeriod(fee, fee.number_of_period) # {}
  BY <1>2 DEF ValidScheduler
<1>4. ~ ExponentialBase(fee) < 0
  BY <1>3 DEF NumeratorByPeriod, FeeInPeriod
<1> QED
  BY <1>1, <1>4, BaseAtMostOne, FeesAssumption

\* For every schedule, linear or exponential, and every number of periods:
\* the fee never rises once the pool is active, and the power the code
\* computes by squaring and multiplying is at most the exact one and less
\* than period units of ONE below it.
THEOREM ScheduledFeesFall == Spec => []SchedulesFall
<1>1. FeesInv => SchedulesFall
  <2> SUFFICES ASSUME FeesInv, ~ IsLimiter(base_fee) PROVE SchedulesFall
    BY DEF SchedulesFall
  <2>1. base_fee \in BaseFees /\ ValidBaseFee(base_fee)
    BY DEF FeesInv, TypeOK
  <2>2. ASSUME NEW p \in ActivationPoint .. MaxPoint,
               NEW q \in ActivationPoint .. MaxPoint, p <= q,
               NEW m \in SchedulerNumerators(base_fee, p),
               NEW n \in SchedulerNumerators(base_fee, q)
        PROVE  m >= n
    <3> DEFINE i == Period(base_fee, p)
               j == Period(base_fee, q)
    <3>1. p \in Nat /\ q \in Nat /\ ActivationPoint <= p
      BY FeesAssumption
    <3>2. i \in Nat /\ j \in Nat /\ i <= j
      BY <2>1, <2>2, <3>1, SchedulerFields, PeriodInRange, PeriodsPass
    <3>3. m \in NumeratorByPeriod(base_fee, i) /\ n \in NumeratorByPeriod(base_fee, j)
      BY <2>1, <2>2, SchedulersPeriod
    <3> HIDE DEF i, j
    <3>4. n \in Nat /\ \E top \in Nat : top >= n /\ NumeratorByPeriod(base_fee, i) = {top}
      BY <2>1, <3>2, <3>3, NumeratorsFall
    <3> QED
      BY <3>3, <3>4
  <2>3. ASSUME base_fee.mode = "Exponential",
               NEW period \in 1 .. base_fee.number_of_period,
               NEW power \in Pow(ExponentialBase(base_fee), period)
        PROVE  LET exact == Power(ExponentialBase(base_fee), period)
                   scale == Power(ONE, period - 1)
               IN power * scale <= exact /\ exact < (power + period) * scale
    <3>1. period \in Nat \ {0}
      BY <2>1, SchedulerFields
    <3>2. ExponentialBase(base_fee) \in 0 .. ONE
      <4>1. base_fee.number_of_period # 0
        BY <2>1, SchedulerFields
      <4> QED
        BY <2>1, <2>3, <4>1, AcceptedBase
    <3> QED
      BY <3>1, <3>2, PowIsAccurate
  <2> QED
    BY <2>2, <2>3 DEF SchedulesFall
<1> QED
  BY <1>1, FeesInvariant, PTL

-----------------------------------------------------------------------------
(* The total fee.                                                          *)

LEMMA VariableFeeIsNat == FeesInv => VariableFee \in Nat
<1> SUFFICES ASSUME FeesInv PROVE VariableFee \in Nat
  OBVIOUS
<1> DEFINE swing == volatility_accumulator * params.bin_step
           scaled == swing * swing * params.variable_fee_control
<1>1. /\ params.bin_step \in Nat /\ params.variable_fee_control \in Nat
      /\ params.max_volatility_accumulator \in Nat
  BY DynamicFields DEF FeesInv
<1>2. volatility_accumulator \in Nat
  BY <1>1 DEF FeesInv, TypeOK
<1>3. swing \in Nat
  BY <1>1, <1>2
<1>4. VariableFee = IF params.initialized THEN CeilDiv(scaled, VARIABLE_FEE_SCALE) ELSE 0
  BY DEF VariableFee
<1> HIDE DEF swing
<1>5. scaled \in Nat
  BY <1>1, <1>3
<1> HIDE DEF scaled
<1>6. CeilDiv(scaled, VARIABLE_FEE_SCALE) \in Nat
  BY <1>5, FeesAssumption, CeilBounds
<1> QED
  BY <1>4, <1>6

\* The fee of a trade, once the base fee is at least the least fee.
Allowed(n) == TotalNumerator(n) \in MIN_FEE_NUMERATOR .. MAX_FEE_NUMERATOR

LEMMA TotalIsAllowed ==
    ASSUME FeesInv, NEW n \in Nat, n >= MIN_FEE_NUMERATOR
    PROVE  Allowed(n)
<1>1. /\ VariableFee \in Nat /\ MIN_FEE_NUMERATOR \in Nat
      /\ MAX_FEE_NUMERATOR \in Nat /\ MIN_FEE_NUMERATOR <= MAX_FEE_NUMERATOR
  BY VariableFeeIsNat, CurveAssumption, FeesAssumption
<1> QED
  BY <1>1 DEF Allowed, TotalNumerator, Least

-----------------------------------------------------------------------------
(* The rate limiter.  The tokens of an amount are charged one after the    *)
(* other; Charged is their sum in closed form: whole steps, and a rest.    *)

\* The fee of a token in step s, of the first n + 1 steps, of s whole steps,
\* and of the first t tokens, times FEE_DENOMINATOR.
Rate(fee, s) ==
    IF s <= MaxIndex(fee)
    THEN fee.cliff_fee_numerator + s * Numerator(fee.fee_increment_bps)
    ELSE Numerator(fee.max_fee_bps)

FirstSteps(fee, n) ==
    fee.reference_amount *
        (fee.cliff_fee_numerator + fee.cliff_fee_numerator * n
           + (Numerator(fee.fee_increment_bps) * n * (n + 1)) \div 2)

WholeSteps(fee, s) ==
    IF s = 0 THEN 0
    ELSE IF s - 1 <= MaxIndex(fee) THEN FirstSteps(fee, s - 1)
    ELSE FirstSteps(fee, MaxIndex(fee))
           + ((s - 1 - MaxIndex(fee)) * fee.reference_amount) * Numerator(fee.max_fee_bps)

Charged(fee, t) ==
    LET s == t \div fee.reference_amount
    IN WholeSteps(fee, s) + (t % fee.reference_amount) * Rate(fee, s)

\* An accepted limiter that is not switched off.
Limits(fee) ==
    fee \in BaseFees /\ IsLimiter(fee) /\ ValidBaseFee(fee) /\ ~ IsZeroLimiter(fee)

LEMMA NumeratorIsNat ==
    ASSUME NEW bps \in Nat
    PROVE  /\ Numerator(bps) \in Nat
           /\ bps # 0 => Numerator(bps) # 0
<1>1. BASIS_POINT_MAX \in Nat \ {0} /\ FEE_DENOMINATOR \in Nat \ {0}
      /\ BASIS_POINT_MAX <= FEE_DENOMINATOR
  BY FeesAssumption, CurveAssumption
<1>2. bps * FEE_DENOMINATOR \in Nat
  BY <1>1
<1>3. Numerator(bps) \in Nat
  BY <1>1, <1>2, DivBounds DEF Numerator
<1>4. ASSUME bps # 0 PROVE 1 <= Numerator(bps)
  <2>1. 1 * FEE_DENOMINATOR <= bps * FEE_DENOMINATOR
    BY <1>1, <1>4, Monotone
  <2>2. 1 * BASIS_POINT_MAX <= bps * FEE_DENOMINATOR
    BY <1>1, <1>2, <2>1
  <2> QED
    BY <1>1, <1>2, <2>2, DivAtLeast DEF Numerator
<1> QED
  BY <1>3, <1>4

LEMMA LimiterFields ==
    ASSUME NEW fee, Limits(fee)
    PROVE  /\ fee.cliff_fee_numerator \in Nat
           /\ fee.reference_amount \in Nat \ {0}
           /\ Numerator(fee.fee_increment_bps) \in Nat \ {0}
           /\ Numerator(fee.max_fee_bps) \in Nat
           /\ MaxIndex(fee) \in Nat
           /\ fee.cliff_fee_numerator <= Numerator(fee.max_fee_bps)
           /\ fee.cliff_fee_numerator >= MIN_FEE_NUMERATOR
<1>1. fee \in Limiters
  BY FeesAssumption DEF Limits, IsLimiter, Schedulers
<1>2. /\ fee.cliff_fee_numerator \in Nat /\ fee.fee_increment_bps \in Nat
      /\ fee.max_fee_bps \in Nat /\ fee.reference_amount \in Nat
  BY <1>1 DEF Limiters
<1>3. ValidLimiter(fee) /\ IsNonZeroLimiter(fee)
  BY DEF Limits, ValidBaseFee, ValidLimiter
<1>4. /\ Numerator(fee.fee_increment_bps) \in Nat \ {0}
      /\ Numerator(fee.max_fee_bps) \in Nat
      /\ fee.cliff_fee_numerator <= Numerator(fee.max_fee_bps)
      /\ fee.cliff_fee_numerator >= MIN_FEE_NUMERATOR
      /\ fee.reference_amount # 0
  BY <1>2, <1>3, NumeratorIsNat DEF ValidLimiter, IsNonZeroLimiter
<1>5. MaxIndex(fee) \in Nat
  <2>1. Numerator(fee.max_fee_bps) - fee.cliff_fee_numerator \in Nat
    BY <1>2, <1>4
  <2> QED
    BY <1>4, <2>1, DivBounds DEF MaxIndex
<1> QED
  BY <1>2, <1>4, <1>5

\* The triangular numbers in the closed form, one step further.
LEMMA NextStep ==
    ASSUME NEW c \in Nat, NEW i \in Nat, NEW x \in Nat, NEW n \in Nat \ {0}
    PROVE  x * (c + c * n + (i * n * (n + 1)) \div 2)
             = x * (c + c * (n - 1) + (i * (n - 1) * ((n - 1) + 1)) \div 2)
                 + x * (c + n * i)
<1> DEFINE a == (i * (n - 1) * ((n - 1) + 1))
           b == (i * n * (n + 1))
           k == n * i
<1>1. a \in Nat /\ k \in Nat /\ b = a + 2 * k
  OBVIOUS
<1> HIDE DEF a, b, k
<1>2. b \div 2 = a \div 2 + k /\ a \div 2 \in Nat
  BY <1>1
<1> DEFINE h == a \div 2
<1>3. h \in Nat /\ k \in Nat
  BY <1>1, <1>2
<1> HIDE DEF h
<1>4. x * (c + c * n + (h + k)) = x * (c + c * (n - 1) + h) + x * (c + k)
  <2>1. c + c * n + (h + k) = (c + c * (n - 1) + h) + (c + k)
    BY <1>3
  <2> DEFINE u == c + c * (n - 1) + h
             v == c + k
  <2>2. u \in Nat /\ v \in Nat
    BY <1>3
  <2> HIDE DEF u, v
  <2>3. x * (u + v) = x * u + x * v
    BY <2>2
  <2> QED
    BY <2>1, <2>3 DEF u, v
<1> QED
  BY <1>2, <1>4 DEF a, b, k, h

LEMMA ChargeTypes ==
    ASSUME NEW fee, Limits(fee), NEW s \in Nat
    PROVE  /\ Rate(fee, s) \in Nat /\ Rate(fee, s) >= fee.cliff_fee_numerator
           /\ FirstSteps(fee, s) \in Nat
           /\ WholeSteps(fee, s) \in Nat
           /\ FirstSteps(fee, s)
                >= ((s + 1) * fee.reference_amount) * fee.cliff_fee_numerator
           /\ WholeSteps(fee, s) >= (s * fee.reference_amount) * fee.cliff_fee_numerator
<1> DEFINE c == fee.cliff_fee_numerator
           x == fee.reference_amount
           i == Numerator(fee.fee_increment_bps)
           M == Numerator(fee.max_fee_bps)
           m == MaxIndex(fee)
<1>1. c \in Nat /\ x \in Nat \ {0} /\ i \in Nat \ {0} /\ M \in Nat /\ m \in Nat /\ c <= M
  BY LimiterFields
<1>2. Rate(fee, s) = IF s <= m THEN c + s * i ELSE M
  BY DEF Rate
<1>3. \A n : FirstSteps(fee, n) = x * (c + c * n + (i * n * (n + 1)) \div 2)
  BY DEF FirstSteps
<1>4. WholeSteps(fee, s) =
        IF s = 0 THEN 0
        ELSE IF s - 1 <= m THEN FirstSteps(fee, s - 1)
        ELSE FirstSteps(fee, m) + ((s - 1 - m) * x) * M
  BY DEF WholeSteps
<1> HIDE DEF c, x, i, M, m
<1>5. Rate(fee, s) \in Nat /\ Rate(fee, s) >= c
  <2>1. s * i \in Nat
    BY <1>1
  <2> QED
    BY <1>1, <1>2, <2>1
<1>6. ASSUME NEW n \in Nat
      PROVE  FirstSteps(fee, n) \in Nat /\ FirstSteps(fee, n) >= ((n + 1) * x) * c
  <2> DEFINE t == (i * n * (n + 1)) \div 2
             w == c + c * n
  <2>1. i * n * (n + 1) \in Nat
    BY <1>1
  <2>2. t \in Nat
    BY <2>1, DivBounds
  <2>3. w \in Nat /\ x * w = ((n + 1) * x) * c
    BY <1>1
  <2>4. FirstSteps(fee, n) = x * (w + t)
    BY <1>3
  <2> HIDE DEF t, w
  <2>5. x * (w + t) = x * w + x * t /\ x * t \in Nat /\ x * w \in Nat
    BY <1>1, <2>2, <2>3
  <2> HIDE <2>3
  <2> DEFINE low == ((n + 1) * x) * c
  <2>6. x * w = low
    BY <2>3
  <2> HIDE DEF low
  <2>7. FirstSteps(fee, n) \in Nat /\ FirstSteps(fee, n) >= low
    BY <2>4, <2>5, <2>6
  <2> QED
    BY <2>7 DEF low
<1>7. WholeSteps(fee, s) \in Nat /\ WholeSteps(fee, s) >= (s * x) * c
  <2>1. CASE s = 0
    <3>1. (s * x) * c = 0
      BY <1>1, <2>1
    <3> QED
      BY <1>4, <2>1, <3>1
  <2>2. CASE s # 0 /\ s - 1 <= m
    <3>1. s - 1 \in Nat /\ (s - 1) + 1 = s
      BY <2>2
    <3>2. FirstSteps(fee, s - 1) \in Nat /\ FirstSteps(fee, s - 1) >= (((s - 1) + 1) * x) * c
      BY <1>6, <3>1
    <3> QED
      BY <1>4, <2>2, <3>1, <3>2
  <2>3. CASE s # 0 /\ ~ (s - 1 <= m)
    <3> DEFINE k == s - 1 - m
               beyond == k * x
    <3>1. k \in Nat /\ beyond \in Nat
      BY <1>1, <2>3
    <3>2. (s * x) * c = ((m + 1) * x) * c + beyond * c
      <4>1. s = (m + 1) + k
        BY <1>1
      <4> HIDE DEF k
      <4>2. s * x = (m + 1) * x + k * x
        BY <1>1, <3>1, <4>1
      <4> DEFINE y == (m + 1) * x
      <4>3. y \in Nat
        BY <1>1
      <4> HIDE DEF y, beyond
      <4>4. (y + beyond) * c = y * c + beyond * c
        BY <1>1, <3>1, <4>3
      <4> QED
        BY <4>2, <4>4 DEF y, beyond
    <3>3. WholeSteps(fee, s) = FirstSteps(fee, m) + beyond * M
      BY <1>4, <2>3
    <3>4. FirstSteps(fee, m) \in Nat /\ FirstSteps(fee, m) >= ((m + 1) * x) * c
      BY <1>1, <1>6
    <3> HIDE DEF beyond, k
    <3>5. beyond * c <= beyond * M /\ beyond * c \in Nat /\ beyond * M \in Nat
      <4>1. c * beyond <= M * beyond
        BY <1>1, <3>1, Monotone
      <4> QED
        BY <1>1, <3>1, <4>1
    <3> DEFINE low == ((m + 1) * x) * c
    <3>6. low \in Nat
      BY <1>1
    <3> HIDE DEF low
    <3>7. (s * x) * c = low + beyond * c
      BY <3>2 DEF low
    <3>8. FirstSteps(fee, m) >= low
      BY <3>4 DEF low
    <3>9. WholeSteps(fee, s) \in Nat /\ WholeSteps(fee, s) >= low + beyond * c
      BY <3>3, <3>4, <3>5, <3>6, <3>8
    <3> QED
      BY <3>7, <3>9
  <2> QED
    BY <2>1, <2>2, <2>3
<1> QED
  BY <1>5, <1>6, <1>7 DEF c, x

LEMMA WholeStepsNext ==
    ASSUME NEW fee, Limits(fee), NEW s \in Nat
    PROVE  WholeSteps(fee, s + 1) = WholeSteps(fee, s) + fee.reference_amount * Rate(fee, s)
<1> DEFINE c == fee.cliff_fee_numerator
           x == fee.reference_amount
           i == Numerator(fee.fee_increment_bps)
           M == Numerator(fee.max_fee_bps)
           m == MaxIndex(fee)
<1>1. c \in Nat /\ x \in Nat \ {0} /\ i \in Nat \ {0} /\ M \in Nat /\ m \in Nat
  BY LimiterFields
<1>2. Rate(fee, s) = IF s <= m THEN c + s * i ELSE M
  BY DEF Rate
<1>3. \A n : FirstSteps(fee, n) = x * (c + c * n + (i * n * (n + 1)) \div 2)
  BY DEF FirstSteps
<1>4. \A n : WholeSteps(fee, n) =
        IF n = 0 THEN 0
        ELSE IF n - 1 <= m THEN FirstSteps(fee, n - 1)
        ELSE FirstSteps(fee, m) + ((n - 1 - m) * x) * M
  BY DEF WholeSteps
<1>5. FirstSteps(fee, m) \in Nat
  BY <1>1, ChargeTypes
<1> HIDE DEF c, x, i, M, m
<1>6. s + 1 # 0 /\ (s + 1) - 1 = s
  OBVIOUS
<1>7. CASE s = 0
  <2>1. WholeSteps(fee, s + 1) = FirstSteps(fee, 0) /\ WholeSteps(fee, s) = 0
    BY <1>1, <1>4, <1>6, <1>7
  <2>2. FirstSteps(fee, 0) = x * (c + c * 0 + (i * 0 * (0 + 1)) \div 2)
    BY <1>3
  <2>3. (i * 0 * (0 + 1)) \div 2 = 0 /\ c * 0 = 0 /\ s * i = 0
    BY <1>1, <1>7
  <2>4. FirstSteps(fee, 0) = x * c /\ Rate(fee, s) = c
    BY <1>1, <1>2, <1>7, <2>2, <2>3
  <2>5. x * c \in Nat
    BY <1>1
  <2> QED
    BY <2>1, <2>4, <2>5 DEF x
<1>8. CASE s # 0 /\ s <= m
  <2>1. /\ WholeSteps(fee, s + 1) = FirstSteps(fee, s)
        /\ WholeSteps(fee, s) = FirstSteps(fee, s - 1)
    BY <1>1, <1>4, <1>6, <1>8
  <2>2. FirstSteps(fee, s) = FirstSteps(fee, s - 1) + x * (c + s * i)
    <3>1. /\ FirstSteps(fee, s) = x * (c + c * s + (i * s * (s + 1)) \div 2)
          /\ FirstSteps(fee, s - 1)
               = x * (c + c * (s - 1) + (i * (s - 1) * ((s - 1) + 1)) \div 2)
      BY <1>3
    <3>2. s \in Nat \ {0} /\ c \in Nat /\ i \in Nat /\ x \in Nat
      BY <1>1, <1>8
    <3>3. x * (c + c * s + (i * s * (s + 1)) \div 2)
            = x * (c + c * (s - 1) + (i * (s - 1) * ((s - 1) + 1)) \div 2) + x * (c + s * i)
      BY <3>2, NextStep
    <3> QED
      BY <3>1, <3>3, Zenon
  <2> QED
    BY <1>2, <1>8, <2>1, <2>2 DEF x
<1>9. CASE s = m + 1
  <2>1. /\ WholeSteps(fee, s + 1) = FirstSteps(fee, m) + ((s - m) * x) * M
        /\ WholeSteps(fee, s) = FirstSteps(fee, m)
    <3>1. /\ ~ (s + 1) - 1 <= m /\ (s + 1) - 1 - m = s - m
          /\ s # 0 /\ s - 1 <= m /\ s - 1 = m
      BY <1>1, <1>9
    <3> QED
      BY <1>4, <1>6, <3>1
  <2>2. ((s - m) * x) * M = x * M /\ Rate(fee, s) = M
    BY <1>1, <1>2, <1>9
  <2> QED
    BY <2>1, <2>2 DEF x
<1>10. CASE s > m + 1
  <2> DEFINE k == s - 1 - m
  <2>1. k \in Nat /\ s - m = k + 1
    BY <1>1, <1>10
  <2>2. /\ WholeSteps(fee, s + 1) = FirstSteps(fee, m) + ((s - m) * x) * M
        /\ WholeSteps(fee, s) = FirstSteps(fee, m) + (k * x) * M
    <3>1. /\ ~ (s + 1) - 1 <= m /\ (s + 1) - 1 - m = s - m
          /\ s # 0 /\ ~ s - 1 <= m
      BY <1>1, <1>10
    <3> QED
      BY <1>4, <1>6, <3>1
  <2>3. Rate(fee, s) = M
    BY <1>1, <1>2, <1>10
  <2> HIDE DEF k
  <2>4. ((k + 1) * x) * M = (k * x) * M + x * M
    BY <1>1, <2>1
  <2>5. (k * x) * M \in Nat /\ x * M \in Nat
    BY <1>1, <2>1
  <2>6. WholeSteps(fee, s + 1) = FirstSteps(fee, m) + ((k * x) * M + x * M)
    BY <2>1, <2>2, <2>4
  <2> QED
    BY <1>5, <2>2, <2>3, <2>5, <2>6 DEF x
<1> QED
  BY <1>1, <1>7, <1>8, <1>9, <1>10

\* One token more.
LEMMA ChargedNext ==
    ASSUME NEW fee, Limits(fee), NEW t \in Nat
    PROVE  Charged(fee, t + 1) = Charged(fee, t) + Rate(fee, t \div fee.reference_amount)
<1> DEFINE x == fee.reference_amount
           s == t \div x
           r == t % x
           w(n) == WholeSteps(fee, n)
           f(n) == Rate(fee, n)
<1>1. x \in Nat \ {0}
  BY LimiterFields
<1>2. s \in Nat /\ r \in 0 .. x - 1 /\ t = s * x + r
  BY <1>1, Division
<1>3. \A n : Charged(fee, n) = w(n \div x) + (n % x) * f(n \div x)
  BY DEF Charged
<1>4. \A n \in Nat : w(n) \in Nat /\ f(n) \in Nat
  BY ChargeTypes
<1>5. w(s + 1) = w(s) + x * f(s)
  BY <1>2, WholeStepsNext
<1>6. Charged(fee, t) = w(s) + r * f(s)
  BY <1>3
<1> HIDE DEF x, s, r, w, f
<1>7. CASE r + 1 < x
  <2>1. t + 1 \in Nat /\ s \in Nat /\ r + 1 \in 0 .. x - 1 /\ t + 1 = s * x + (r + 1)
    BY <1>1, <1>2, <1>7
  <2>2. (t + 1) \div x = s /\ (t + 1) % x = r + 1
    BY <1>1, <2>1, DivisionIs
  <2>3. Charged(fee, t + 1) = w(s) + (r + 1) * f(s)
    BY <1>3, <2>2
  <2>4. w(s) \in Nat /\ f(s) \in Nat
    BY <1>2, <1>4
  <2>5. (r + 1) * f(s) = r * f(s) + f(s) /\ r * f(s) \in Nat
    BY <1>1, <1>2, <2>4
  <2> QED
    BY <1>6, <2>3, <2>4, <2>5 DEF f, s, x
<1>8. CASE ~ r + 1 < x
  <2>1. r + 1 = x
    BY <1>1, <1>2, <1>8
  <2>2. (s + 1) * x = s * x + x /\ s * x \in Nat
    BY <1>1, <1>2
  <2>3. t + 1 \in Nat /\ s + 1 \in Nat /\ 0 \in 0 .. x - 1 /\ t + 1 = (s + 1) * x + 0
    BY <1>1, <1>2, <2>1, <2>2
  <2>4. (t + 1) \div x = s + 1 /\ (t + 1) % x = 0
    BY <1>1, <2>3, DivisionIs
  <2>5. Charged(fee, t + 1) = w(s + 1) + 0 * f(s + 1)
    BY <1>3, <2>4
  <2>6. w(s) \in Nat /\ f(s) \in Nat /\ w(s + 1) \in Nat /\ f(s + 1) \in Nat
    BY <1>2, <1>4
  <2>7. x * f(s) = r * f(s) + f(s) /\ r * f(s) \in Nat
    BY <1>1, <1>2, <2>1, <2>6
  <2>8. 0 * f(s + 1) = 0
    BY <2>6
  <2> QED
    BY <1>5, <1>6, <2>5, <2>6, <2>7, <2>8 DEF f, s, x
<1> QED
  BY <1>7, <1>8

LEMMA ChargedOfNothing ==
    ASSUME NEW fee, Limits(fee)
    PROVE  Charged(fee, 0) = 0
<1>1. fee.reference_amount \in Nat \ {0}
  BY LimiterFields
<1>2. 0 \div fee.reference_amount = 0 /\ 0 % fee.reference_amount = 0
  <2>1. 0 \in 0 .. fee.reference_amount - 1 /\ 0 = 0 * fee.reference_amount + 0
    BY <1>1
  <2> QED
    BY <1>1, <2>1, DivisionIs
<1>3. WholeSteps(fee, 0) = 0 /\ Rate(fee, 0) \in Nat
  BY ChargeTypes DEF WholeSteps
<1>4. Charged(fee, 0) = WholeSteps(fee, 0) + 0 * Rate(fee, 0)
  BY <1>2 DEF Charged
<1> QED
  BY <1>3, <1>4

LEMMA ChargedTypes ==
    ASSUME NEW fee, Limits(fee), NEW t \in Nat
    PROVE  Charged(fee, t) \in Nat /\ Charged(fee, t) >= t * fee.cliff_fee_numerator
<1> DEFINE x == fee.reference_amount
           c == fee.cliff_fee_numerator
           s == t \div x
           r == t % x
           w == WholeSteps(fee, s)
           f == Rate(fee, s)
<1>1. x \in Nat \ {0} /\ c \in Nat
  BY LimiterFields
<1>2. s \in Nat /\ r \in 0 .. x - 1 /\ t = s * x + r
  BY <1>1, Division
<1>3. w \in Nat /\ f \in Nat /\ c <= f /\ (s * x) * c <= w
  BY <1>2, ChargeTypes
<1>4. Charged(fee, t) = w + r * f
  BY DEF Charged
<1> HIDE DEF x, c, s, r, w, f
<1>5. c * r <= f * r /\ c * r = r * c /\ f * r = r * f /\ r * c \in Nat /\ r * f \in Nat
  BY <1>1, <1>2, <1>3, Monotone
<1>6. t * c = (s * x) * c + r * c /\ (s * x) * c \in Nat
  <2> DEFINE y == s * x
  <2>1. y \in Nat /\ r \in Nat /\ t = y + r
    BY <1>1, <1>2
  <2> HIDE DEF y
  <2>2. (y + r) * c = y * c + r * c /\ y * c \in Nat
    BY <1>1, <2>1
  <2> QED
    BY <2>1, <2>2 DEF y
<1> DEFINE low == (s * x) * c
<1>7. low \in Nat /\ low <= w /\ t * c = low + r * c
  BY <1>3, <1>6
<1> HIDE DEF low
<1>8. w + r * f \in Nat /\ w + r * f >= low + r * c
  BY <1>3, <1>5, <1>7
<1> QED
  BY <1>4, <1>7, <1>8 DEF c

-----------------------------------------------------------------------------
(* The sum, token by token, is a recursive function: it exists, for Charged *)
(* is one, and there is only one.                                          *)

Adds(g, fee, n) ==
    g = [t \in 0 .. n |-> IF t = 0 THEN 0
                          ELSE g[t - 1] + Rate(fee, (t - 1) \div fee.reference_amount)]

LEMMA TokenFeesDef ==
    ASSUME NEW fee, NEW n
    PROVE  TokenFees(fee, n) = (CHOOSE g : Adds(g, fee, n))[n]
BY DEF TokenFees, Adds, Rate

LEMMA ChargedAdds ==
    ASSUME NEW fee, Limits(fee), NEW n \in Nat
    PROVE  \E g : Adds(g, fee, n)
<1> DEFINE g == [t \in 0 .. n |-> Charged(fee, t)]
<1>1. ASSUME NEW t \in 0 .. n
      PROVE  g[t] = IF t = 0 THEN 0
                    ELSE g[t - 1] + Rate(fee, (t - 1) \div fee.reference_amount)
  <2>1. CASE t = 0
    BY <2>1, ChargedOfNothing
  <2>2. CASE t # 0
    <3>1. t - 1 \in Nat /\ t - 1 \in 0 .. n /\ (t - 1) + 1 = t
      BY <2>2
    <3>2. Charged(fee, (t - 1) + 1)
            = Charged(fee, t - 1) + Rate(fee, (t - 1) \div fee.reference_amount)
      BY <3>1, ChargedNext
    <3> QED
      BY <2>2, <3>1, <3>2
  <2> QED
    BY <2>1, <2>2
<1>2. g = [t \in 0 .. n |-> g[t]]
  OBVIOUS
<1> HIDE DEF g
<1>3. Adds(g, fee, n)
  BY <1>1, <1>2 DEF Adds
<1> QED
  BY <1>3

LEMMA AddsIsCharged ==
    ASSUME NEW fee, Limits(fee), NEW n \in Nat, NEW g, Adds(g, fee, n)
    PROVE  \A t \in 0 .. n : g[t] = Charged(fee, t)
<1>1. PICK Good : Good = {t \in Nat : t <= n => g[t] = Charged(fee, t)}
  OBVIOUS
<1>2. 0 \in Good
  <2>1. g[0] = 0
    BY DEF Adds
  <2> QED
    BY <1>1, <2>1, ChargedOfNothing
<1>3. ASSUME NEW t \in Nat, t \in Good
      PROVE  t + 1 \in Good
  <2> SUFFICES ASSUME t + 1 <= n PROVE g[t + 1] = Charged(fee, t + 1)
    BY <1>1
  <2>1. g[t] = Charged(fee, t)
    BY <1>1, <1>3
  <2>2. g[t + 1] = g[t] + Rate(fee, t \div fee.reference_amount)
    <3>1. t + 1 \in 0 .. n /\ t + 1 # 0 /\ (t + 1) - 1 = t
      OBVIOUS
    <3> QED
      BY <3>1 DEF Adds
  <2> QED
    BY <2>1, <2>2, ChargedNext
<1>4. Nat \subseteq Good
  BY <1>2, <1>3, NaturalInduction
<1> QED
  BY <1>1, <1>4

LEMMA TokenFeesIsCharged ==
    ASSUME NEW fee, Limits(fee), NEW n \in Nat
    PROVE  TokenFees(fee, n) = Charged(fee, n)
<1> DEFINE g == CHOOSE g : Adds(g, fee, n)
<1>1. Adds(g, fee, n)
  BY ChargedAdds
<1>2. TokenFees(fee, n) = g[n]
  BY TokenFeesDef
<1> HIDE DEF g
<1> QED
  BY <1>1, <1>2, AddsIsCharged

-----------------------------------------------------------------------------
(* get_fee_numerator_from_included_fee_amount.                             *)

LEMMA NumeratorOfCharged ==
    ASSUME NEW fee, Limits(fee), NEW amount \in Nat \ {0}
    PROVE  /\ amount <= fee.reference_amount =>
                /\ LimiterNumerator(fee, amount) = fee.cliff_fee_numerator
                /\ Charged(fee, amount) = amount * fee.cliff_fee_numerator
           /\ amount > fee.reference_amount =>
                LimiterNumerator(fee, amount) =
                    CeilDiv(CeilDiv(Charged(fee, amount), FEE_DENOMINATOR)
                              * FEE_DENOMINATOR, amount)
<1> DEFINE c == fee.cliff_fee_numerator
           x == fee.reference_amount
           i == Numerator(fee.fee_increment_bps)
           M == Numerator(fee.max_fee_bps)
           m == MaxIndex(fee)
           a == (amount - x) \div x
           b == (amount - x) % x
<1>1. c \in Nat /\ x \in Nat \ {0} /\ i \in Nat \ {0} /\ M \in Nat /\ m \in Nat
  BY LimiterFields
<1>2. \A t : Charged(fee, t)
               = WholeSteps(fee, t \div x) + (t % x) * Rate(fee, t \div x)
  BY DEF Charged
<1>3. \A s \in Nat : WholeSteps(fee, s) \in Nat /\ Rate(fee, s) \in Nat
  BY ChargeTypes
<1>4. CASE amount < x
  <2>1. LimiterNumerator(fee, amount) = c
    BY <1>1, <1>4 DEF LimiterNumerator
  <2>2. amount \div x = 0 /\ amount % x = amount
    <3>1. amount \in 0 .. x - 1 /\ amount = 0 * x + amount
      BY <1>1, <1>4
    <3> QED
      BY <1>1, <3>1, DivisionIs
  <2>3. Charged(fee, amount) = WholeSteps(fee, 0) + amount * Rate(fee, 0)
    BY <1>2, <2>2
  <2>4. WholeSteps(fee, 0) = 0 /\ Rate(fee, 0) = c
    <3>1. Rate(fee, 0) = IF 0 <= m THEN c + 0 * i ELSE M
      BY DEF Rate
    <3> QED
      BY <1>1, <3>1 DEF WholeSteps
  <2>5. amount * c \in Nat
    BY <1>1
  <2> QED
    BY <1>1, <1>4, <2>1, <2>3, <2>4, <2>5
<1>5. CASE amount = x
  <2>1. LimiterNumerator(fee, amount) = c
    BY <1>1, <1>5 DEF LimiterNumerator
  <2>2. amount \div x = 1 /\ amount % x = 0
    <3>1. 1 \in Nat /\ 0 \in 0 .. x - 1 /\ amount = 1 * x + 0
      BY <1>1, <1>5
    <3> QED
      BY <1>1, <3>1, DivisionIs
  <2>3. Charged(fee, amount) = WholeSteps(fee, 1) + 0 * Rate(fee, 1)
    BY <1>2, <2>2
  <2>4. WholeSteps(fee, 0 + 1) = WholeSteps(fee, 0) + x * Rate(fee, 0)
    BY WholeStepsNext
  <2>5. WholeSteps(fee, 0) = 0 /\ Rate(fee, 0) = c
    <3>1. Rate(fee, 0) = IF 0 <= m THEN c + 0 * i ELSE M
      BY DEF Rate
    <3> QED
      BY <1>1, <3>1 DEF WholeSteps
  <2>6. x * c \in Nat /\ 0 * Rate(fee, 1) = 0
    BY <1>1, <1>3
  <2>7. WholeSteps(fee, 1) = x * c
    BY <2>4, <2>5, <2>6
  <2> QED
    BY <1>1, <1>5, <2>1, <2>3, <2>6, <2>7
<1>6. CASE amount > x
  <2>1. amount - x \in Nat
    BY <1>1, <1>6
  <2>2. a \in Nat /\ b \in 0 .. x - 1 /\ amount - x = a * x + b
    BY <1>1, <2>1, Division
  <2> DEFINE scaled == IF a < m
                       THEN FirstSteps(fee, a) + b * (c + i * (a + 1))
                       ELSE FirstSteps(fee, m) + ((a - m) * x + b) * M
  <2>3. LimiterNumerator(fee, amount)
          = CeilDiv(CeilDiv(scaled, FEE_DENOMINATOR) * FEE_DENOMINATOR, amount)
    <3>1. ~ amount <= x
      BY <1>1, <1>6
    <3> QED
      BY <3>1 DEF LimiterNumerator, MulDiv, FirstSteps
  <2>4. amount \div x = a + 1 /\ amount % x = b
    <3>1. amount = (a + 1) * x + b /\ a + 1 \in Nat
      <4> HIDE DEF a, b, x, scaled
      <4>1. (a + 1) * x = a * x + x /\ a * x \in Nat
        BY <1>1, <2>2
      <4> QED
        BY <1>1, <2>2, <4>1
    <3> QED
      BY <1>1, <2>2, <3>1, DivisionIs
  <2>5. Charged(fee, amount) = WholeSteps(fee, a + 1) + b * Rate(fee, a + 1)
    BY <1>2, <2>4
  <2>6. /\ WholeSteps(fee, a + 1) =
             IF a <= m THEN FirstSteps(fee, a)
             ELSE FirstSteps(fee, m) + ((a - m) * x) * M
        /\ Rate(fee, a + 1) = IF a + 1 <= m THEN c + (a + 1) * i ELSE M
    <3>1. a + 1 # 0 /\ (a + 1) - 1 = a
      BY <2>2
    <3> HIDE DEF a
    <3> QED
      BY <3>1 DEF WholeSteps, Rate
  <2>7. FirstSteps(fee, m) \in Nat /\ FirstSteps(fee, a) \in Nat
    BY <1>1, <2>2, ChargeTypes
  <2>8. scaled = Charged(fee, amount)
    <3> HIDE DEF a, b, c, x, i, M, m
    <3>1. CASE a < m
      <4>1. a <= m /\ a + 1 <= m /\ (a + 1) * i = i * (a + 1)
        BY <1>1, <2>2, <3>1
      <4> QED
        BY <2>5, <2>6, <3>1, <4>1
    <3>2. CASE ~ a < m
      <4> DEFINE y == (a - m) * x
      <4>1. y \in Nat /\ a - m \in Nat
        BY <1>1, <2>2, <3>2
      <4>2. (y + b) * M = y * M + b * M /\ y * M \in Nat /\ b * M \in Nat
        <5> HIDE DEF y
        <5> QED
          BY <1>1, <2>2, <4>1
      <4>3. WholeSteps(fee, a + 1) = FirstSteps(fee, m) + y * M
        <5>1. CASE a = m
          <6>1. y = 0
            BY <1>1, <5>1
          <6>2. y * M = 0
            <7> HIDE DEF y
            <7> QED
              BY <1>1, <6>1
          <6>3. WholeSteps(fee, a + 1) = FirstSteps(fee, m)
            BY <1>1, <2>6, <5>1
          <6> HIDE DEF y
          <6> QED
            BY <2>7, <6>2, <6>3
        <5>2. CASE a # m
          <6>1. ~ a <= m
            BY <1>1, <2>2, <3>2, <5>2
          <6> QED
            BY <2>6, <6>1
        <5> QED
          BY <5>1, <5>2
      <4>4. Rate(fee, a + 1) = M
        BY <1>1, <2>2, <2>6, <3>2
      <4>5. scaled = FirstSteps(fee, m) + (y + b) * M
        BY <3>2
      <4> HIDE DEF y, scaled
      <4> QED
        BY <2>5, <2>7, <4>2, <4>3, <4>4, <4>5
    <3> QED
      BY <3>1, <3>2
  <2> HIDE DEF scaled
  <2> QED
    BY <1>1, <1>6, <2>3, <2>8
<1> QED
  BY <1>1, <1>4, <1>5, <1>6

\* The limiter never charges less than the cliff fee.
LEMMA LimiterAtLeastCliff ==
    ASSUME NEW fee, Limits(fee), NEW amount \in Nat \ {0}
    PROVE  /\ LimiterNumerator(fee, amount) \in Nat
           /\ LimiterNumerator(fee, amount) >= fee.cliff_fee_numerator
<1> DEFINE c == fee.cliff_fee_numerator
           n == LimiterNumerator(fee, amount)
           sum == Charged(fee, amount)
           k == CeilDiv(sum, FEE_DENOMINATOR)
<1>1. c \in Nat /\ fee.reference_amount \in Nat /\ FEE_DENOMINATOR \in Nat \ {0}
  BY LimiterFields, CurveAssumption
<1>2. CASE amount <= fee.reference_amount
  BY <1>1, <1>2, NumeratorOfCharged
<1>3. CASE amount > fee.reference_amount
  <2>1. n = CeilDiv(k * FEE_DENOMINATOR, amount)
    BY <1>3, NumeratorOfCharged
  <2>2. sum \in Nat /\ amount * c <= sum
    BY ChargedTypes
  <2>3. k \in Nat /\ sum <= k * FEE_DENOMINATOR
    BY <1>1, <2>2, CeilBounds
  <2> HIDE DEF n, sum, k, c
  <2>4. k * FEE_DENOMINATOR \in Nat
    BY <1>1, <2>3
  <2>5. n \in Nat /\ k * FEE_DENOMINATOR <= n * amount
    BY <2>1, <2>4, CeilBounds
  <2>6. c * amount <= n * amount
    <3>1. c * amount = amount * c /\ amount * c \in Nat /\ n * amount \in Nat
      BY <1>1, <2>5
    <3> QED
      BY <2>2, <2>3, <2>4, <2>5, <3>1
  <2>7. c <= n
    BY <1>1, <2>5, <2>6, CancelLe
  <2> QED
    BY <1>1, <2>5, <2>7 DEF n, c
<1> QED
  BY <1>1, <1>2, <1>3

\* A numerator rounded up, and a fee of it rounded up again.
LEMMA RoundedTwice ==
    ASSUME NEW k \in Nat, NEW amount \in Nat \ {0}
    PROVE  FeeWithin(amount, CeilDiv(k * FEE_DENOMINATOR, amount))
               \in k .. k + UnitOf(amount)
<1> DEFINE D == FEE_DENOMINATOR
           n == CeilDiv(k * D, amount)
           f == CeilDiv(amount * n, D)
           u == CeilDiv(amount, D)
<1>1. D \in Nat \ {0} /\ k * D \in Nat
  BY CurveAssumption
<1>2. n \in Nat /\ k * D <= n * amount /\ n * amount < k * D + amount
  BY <1>1, CeilBounds
<1> HIDE DEF n
<1>3. amount * n \in Nat /\ amount * n = n * amount
  BY <1>2
<1>4. f \in Nat /\ amount * n <= f * D
  BY <1>1, <1>3, CeilBounds
<1>5. u \in Nat /\ amount <= u * D
  BY <1>1, CeilBounds
<1>6. f <= k + u
  <2>1. (k + u) * D = k * D + u * D /\ u * D \in Nat
    BY <1>1, <1>5
  <2>2. amount * n <= (k + u) * D
    BY <1>1, <1>2, <1>3, <1>5, <2>1
  <2>3. k + u \in Nat
    BY <1>5
  <2> QED
    BY <1>1, <1>3, <2>2, <2>3, CeilAtMost
<1> HIDE DEF f
<1>7. k <= f
  <2>1. k * D <= f * D
    <3>1. f * D \in Nat
      BY <1>1, <1>4
    <3> QED
      BY <1>1, <1>2, <1>3, <1>4, <3>1
  <2> QED
    BY <1>1, <1>4, <2>1, CancelLe
<1>8. FeeWithin(amount, n) = f /\ UnitOf(amount) = u
  BY DEF FeeWithin, MulDiv, UnitOf, f
<1>9. FeeWithin(amount, n) \in k .. k + UnitOf(amount)
  <2> HIDE DEF u
  <2> QED
    BY <1>4, <1>5, <1>6, <1>7, <1>8
<1> QED
  BY <1>9 DEF n

LEMMA FeeIsTokenFees ==
    ASSUME NEW fee, Limits(fee), NEW amount \in Nat \ {0}
    PROVE  LET sum == CeilDiv(TokenFees(fee, amount), FEE_DENOMINATOR)
           IN FeeWithin(amount, LimiterNumerator(fee, amount))
                  \in sum .. sum + UnitOf(amount)
<1> DEFINE sum == CeilDiv(Charged(fee, amount), FEE_DENOMINATOR)
           n == LimiterNumerator(fee, amount)
<1>1. TokenFees(fee, amount) = Charged(fee, amount)
  BY TokenFeesIsCharged
<1>2. sum \in Nat /\ UnitOf(amount) \in Nat
  BY ChargedTypes, CurveAssumption, CeilBounds DEF UnitOf
<1>3. CASE amount <= fee.reference_amount
  <2>1. FeeWithin(amount, n) = sum
    BY <1>3, NumeratorOfCharged DEF FeeWithin, MulDiv
  <2> HIDE DEF n, sum
  <2>2. FeeWithin(amount, n) \in sum .. sum + UnitOf(amount)
    BY <1>2, <2>1
  <2> QED
    BY <1>1, <2>2 DEF n, sum
<1>4. CASE amount > fee.reference_amount
  <2>1. n = CeilDiv(sum * FEE_DENOMINATOR, amount)
    BY <1>4, NumeratorOfCharged
  <2> HIDE DEF n, sum
  <2>2. FeeWithin(amount, n) \in sum .. sum + UnitOf(amount)
    BY <1>2, <2>1, RoundedTwice
  <2> QED
    BY <1>1, <2>2 DEF n, sum
<1>5. fee.reference_amount \in Nat
  BY LimiterFields
<1> QED
  BY <1>3, <1>4, <1>5

\* For every limiter validate accepts and every amount, the closed form of
\* the code charges what the doc of FeeRateLimiter says, token by token:
\* rounded up, and by at most a unit of the numerator more.
THEOREM LimiterIsASum == Spec => []LimiterSumsTokens
<1>1. FeesInv => LimiterSumsTokens
  <2> SUFFICES ASSUME FeesInv, IsLimiter(base_fee), ~ IsZeroLimiter(base_fee),
                      NEW amount \in 1 .. MAX_AMOUNT
               PROVE  LET fee == FeeWithin(amount, LimiterNumerator(base_fee, amount))
                          sum == CeilDiv(TokenFees(base_fee, amount), FEE_DENOMINATOR)
                      IN fee \in sum .. sum + UnitOf(amount)
    BY DEF LimiterSumsTokens
  <2>1. Limits(base_fee) /\ amount \in Nat \ {0}
    BY FeesAssumption DEF FeesInv, TypeOK, Limits
  <2> QED
    BY <2>1, FeeIsTokenFees
<1> QED
  BY <1>1, FeesInvariant, PTL

-----------------------------------------------------------------------------
(* sqrt_u256: the root is found one binary digit after the other.          *)

FirstDigit(n) == [left |-> n, root |-> 0, bit |-> Power(4, SQRT_BITS - 1)]

NextDigit(was) ==
    LET fits == was.left >= was.root + was.bit
    IN [left |-> IF fits THEN was.left - was.root - was.bit ELSE was.left,
        root |-> was.root \div 2 + (IF fits THEN was.bit ELSE 0),
        bit  |-> was.bit \div 4]

Digits(g, n, m) ==
    g = [k \in 0 .. m |-> IF k = 0 THEN FirstDigit(n) ELSE NextDigit(g[k - 1])]

LEMMA RootDef ==
    ASSUME NEW n
    PROVE  Root(n) = (CHOOSE g : Digits(g, n, SQRT_BITS))[SQRT_BITS].root
BY DEF Root, Digits, FirstDigit, NextDigit

LEMMA DigitsFirst ==
    ASSUME NEW n, NEW m \in Nat, NEW g, Digits(g, n, m)
    PROVE  g[0] = FirstDigit(n)
BY DEF Digits

LEMMA DigitsNext ==
    ASSUME NEW n, NEW m \in Nat, NEW g, Digits(g, n, m), NEW k \in Nat, k + 1 <= m
    PROVE  g[k + 1] = NextDigit(g[k])
<1>1. k + 1 \in 0 .. m /\ k + 1 # 0 /\ (k + 1) - 1 = k
  OBVIOUS
<1> QED
  BY <1>1 DEF Digits

LEMMA DigitsExist ==
    ASSUME NEW n, NEW m \in Nat
    PROVE  \E g : Digits(g, n, m)
<1>1. PICK Good : Good = {k \in Nat : \E g : Digits(g, n, k)}
  OBVIOUS
<1>2. 0 \in Good
  <2> DEFINE g == [k \in 0 .. 0 |-> FirstDigit(n)]
  <2>1. g = [k \in 0 .. 0 |-> IF k = 0 THEN FirstDigit(n) ELSE NextDigit(g[k - 1])]
    OBVIOUS
  <2> HIDE DEF g
  <2>2. Digits(g, n, 0)
    BY <2>1 DEF Digits
  <2> QED
    BY <1>1, <2>2
<1>3. ASSUME NEW k \in Nat, k \in Good PROVE k + 1 \in Good
  <2>1. PICK g : Digits(g, n, k)
    BY <1>1, <1>3
  <2>2. ASSUME NEW i \in Nat, i + 1 <= k PROVE g[i + 1] = NextDigit(g[i])
    BY <2>1, <2>2, DigitsNext
  <2> DEFINE h == [j \in 0 .. k + 1 |-> IF j <= k THEN g[j] ELSE NextDigit(g[k])]
  <2>3. ASSUME NEW j \in 0 .. k + 1
        PROVE  h[j] = IF j = 0 THEN FirstDigit(n) ELSE NextDigit(h[j - 1])
    <3>1. CASE j = 0
      BY <2>1, <3>1, DigitsFirst
    <3>2. CASE j # 0
      <4>1. j - 1 \in Nat /\ j - 1 \in 0 .. k + 1 /\ j - 1 <= k /\ (j - 1) + 1 = j
        BY <3>2
      <4>2. h[j - 1] = g[j - 1]
        BY <4>1
      <4>3. CASE j <= k
        <5> DEFINE i == j - 1
        <5>1. i \in Nat /\ i + 1 <= k /\ i + 1 = j
          BY <4>1, <4>3
        <5> HIDE DEF i
        <5>2. g[i + 1] = NextDigit(g[i])
          BY <2>2, <5>1
        <5>3. g[j] = NextDigit(g[j - 1])
          BY <5>1, <5>2 DEF i
        <5>4. h[j] = g[j]
          BY <4>3
        <5> QED
          BY <3>2, <4>2, <5>3, <5>4
      <4>4. CASE ~ j <= k
        <5>1. j - 1 = k /\ h[j] = NextDigit(g[k])
          BY <4>1, <4>4
        <5> QED
          BY <3>2, <4>2, <5>1
      <4> QED
        BY <4>3, <4>4
    <3> QED
      BY <3>1, <3>2
  <2>4. h = [j \in 0 .. k + 1 |-> h[j]]
    OBVIOUS
  <2> HIDE DEF h
  <2>5. Digits(h, n, k + 1)
    BY <2>3, <2>4 DEF Digits
  <2> QED
    BY <1>1, <2>5
<1>4. Nat \subseteq Good
  BY <1>2, <1>3, NaturalInduction
<1> QED
  BY <1>1, <1>4

\* q is the root so far, a multiple of p = 2h: n is what is left and q * q,
\* and less than (q + p) * (q + p).
RootSoFar(n, q, p, was) ==
    /\ was.left \in Nat /\ was.left + q * q = n
    /\ was.left < 2 * (q * p) + p * p
    /\ was.root = q * p

LEMMA OneDigit ==
    ASSUME NEW n \in Nat, NEW q \in Nat, NEW h \in Nat \ {0}, NEW was,
           RootSoFar(n, q, 2 * h, was), was.bit = h * h
    PROVE  \E r \in Nat : RootSoFar(n, r, h, NextDigit(was))
<1> DEFINE l == was.left
           a == q * h
           b == h * h
           c == q * q
           next == NextDigit(was)
<1>1. a \in Nat /\ b \in Nat /\ c \in Nat
  OBVIOUS
<1>2. /\ q * (2 * h) = 2 * a /\ (2 * h) * (2 * h) = 4 * b
      /\ (q + h) * (q + h) = c + 2 * a + b /\ (q + h) * h = a + b
  OBVIOUS
<1>3. l \in Nat /\ l + c = n /\ l < 4 * a + 4 * b /\ was.root = 2 * a /\ was.bit = b
  <2> l < 2 * (2 * a) + 4 * b
    BY <1>2 DEF RootSoFar
  <2> HIDE DEF l, a, b, c
  <2>1. 2 * (2 * a) = 4 * a
    BY <1>1
  <2> QED
    BY <1>2, <2>1 DEF RootSoFar, l, b, c
<1>4. /\ next.left = IF l >= was.root + was.bit THEN l - was.root - was.bit ELSE l
      /\ next.root = was.root \div 2 + (IF l >= was.root + was.bit THEN was.bit ELSE 0)
  BY DEF NextDigit
<1> HIDE DEF l, a, b, c, next
<1>5. was.root \div 2 = a
  BY <1>1, <1>3
<1>6. CASE l >= 2 * a + b
  <2>1. next.left = l - 2 * a - b /\ next.root = a + b
    BY <1>1, <1>3, <1>4, <1>5, <1>6
  <2>2. /\ next.left \in Nat /\ next.left + (c + 2 * a + b) = n
        /\ next.left < 2 * (a + b) + b
    BY <1>1, <1>3, <1>6, <2>1
  <2>3. RootSoFar(n, q + h, h, next)
    BY <1>2, <2>1, <2>2 DEF RootSoFar, b
  <2> QED
    BY <2>3 DEF next
<1>7. CASE ~ l >= 2 * a + b
  <2>1. next.left = l /\ next.root = a
    BY <1>1, <1>3, <1>4, <1>5, <1>7
  <2>2. next.left \in Nat /\ next.left + c = n /\ next.left < 2 * a + b
    BY <1>1, <1>3, <1>7, <2>1
  <2>3. RootSoFar(n, q, h, next)
    BY <2>1, <2>2 DEF RootSoFar, a, b, c
  <2> QED
    BY <2>3 DEF next
<1> QED
  BY <1>6, <1>7

\* sqrt_u256 is the integer root of every number with enough bits.
LEMMA RootIs ==
    ASSUME NEW n \in Nat, n < Power(2, SQRT_BITS) * Power(2, SQRT_BITS)
    PROVE  /\ Root(n) \in Nat
           /\ Root(n) * Root(n) <= n
           /\ n < (Root(n) + 1) * (Root(n) + 1)
<1> DEFINE m == SQRT_BITS
           g == CHOOSE g : Digits(g, n, m)
           Holds(k) == \E q \in Nat :
                          /\ RootSoFar(n, q, Power(2, m - k), g[k])
                          /\ k < m => g[k].bit = Power(4, m - 1 - k)
<1>1. m \in Nat \ {0}
  BY FeesAssumption
<1>2. Digits(g, n, m) /\ Root(n) = g[m].root
  BY <1>1, DigitsExist, RootDef
<1> HIDE DEF m, g
<1>3. g[0] = FirstDigit(n) /\ \A k \in Nat : k + 1 <= m => g[k + 1] = NextDigit(g[k])
  <2>1. g[0] = FirstDigit(n)
    BY <1>1, <1>2, DigitsFirst
  <2>2. ASSUME NEW k \in Nat, k + 1 <= m PROVE g[k + 1] = NextDigit(g[k])
    BY <1>1, <1>2, <2>2, DigitsNext
  <2> QED
    BY <2>1, <2>2
<1>4. PICK Good : Good = {k \in Nat : k <= m => Holds(k)}
  OBVIOUS
<1>5. 0 \in Good
  <2> DEFINE p == Power(2, m)
  <2>1. p \in Nat /\ n < p * p
    BY <1>1, PowerOfFour DEF m
  <2>2. g[0].left = n /\ g[0].root = 0 /\ g[0].bit = Power(4, m - 1)
    BY <1>3 DEF FirstDigit, m
  <2>3. m - 0 = m /\ m - 1 - 0 = m - 1
    BY <1>1
  <2>4. RootSoFar(n, 0, p, g[0])
    <3> HIDE DEF p
    <3>1. 0 * p = 0 /\ 0 * 0 = 0 /\ p * p \in Nat
      BY <2>1
    <3> QED
      BY <2>1, <2>2, <3>1 DEF RootSoFar
  <2>5. Holds(0)
    BY <2>2, <2>3, <2>4
  <2> HIDE DEF Holds
  <2> QED
    BY <1>4, <2>5
<1>6. ASSUME NEW k \in Nat, k \in Good PROVE k + 1 \in Good
  <2> SUFFICES ASSUME k + 1 <= m PROVE Holds(k + 1)
    <3> HIDE DEF Holds
    <3> QED
      BY <1>4
  <2>1. k <= m /\ k < m /\ k \in Nat
    BY <1>1
  <2>2. PICK q \in Nat : /\ RootSoFar(n, q, Power(2, m - k), g[k])
                         /\ g[k].bit = Power(4, m - 1 - k)
    BY <1>4, <1>6, <2>1
  <2> DEFINE j == m - 1 - k
             h == Power(2, j)
  <2>3. j \in Nat /\ m - k = j + 1 /\ m - (k + 1) = j /\ (k + 1 < m => j - 1 \in Nat)
        /\ m - 1 - (k + 1) = j - 1
    BY <1>1, <2>1
  <2> HIDE DEF j
  <2>4. h \in Nat \ {0} /\ Power(4, j) = h * h /\ Power(2, m - k) = 2 * h
    BY <2>3, PowerOfFour, PowerSteps
  <2>5. g[k + 1] = NextDigit(g[k])
    BY <1>3
  <2>6. g[k].bit = Power(4, j)
    BY <2>2 DEF j
  <2>7. \E r \in Nat : RootSoFar(n, r, h, g[k + 1])
    <3>1. RootSoFar(n, q, 2 * h, g[k]) /\ g[k].bit = h * h
      BY <2>2, <2>4, <2>6
    <3> HIDE DEF h
    <3> QED
      BY <2>4, <2>5, <3>1, OneDigit
  <2>8. k + 1 < m => g[k + 1].bit = Power(4, j - 1)
    <3> SUFFICES ASSUME k + 1 < m PROVE g[k + 1].bit = Power(4, j - 1)
      OBVIOUS
    <3>1. g[k + 1].bit = Power(4, j) \div 4
      BY <2>5, <2>6 DEF NextDigit
    <3> DEFINE f == Power(4, j - 1)
    <3>2. j - 1 \in Nat /\ (j - 1) + 1 = j
      BY <2>3
    <3>3. f \in Nat
      <4>1. Power(2, j - 1) \in Nat /\ f = Power(2, j - 1) * Power(2, j - 1)
        BY <3>2, PowerOfFour
      <4> HIDE DEF f
      <4> QED
        BY <4>1
    <3>4. Power(4, (j - 1) + 1) = 4 * f
      BY <3>2, PowerSteps
    <3> HIDE DEF f
    <3>5. Power(4, j) = 4 * f
      BY <3>2, <3>4
    <3>6. g[k + 1].bit = f
      <4>1. (4 * f) \div 4 = f
        BY <3>3
      <4> QED
        BY <3>1, <3>5, <4>1
    <3> QED
      BY <3>6 DEF f
  <2> QED
    BY <2>3, <2>7, <2>8
<1>7. Nat \subseteq Good
  BY <1>5, <1>6, NaturalInduction
<1>8. Holds(m)
  <2> HIDE DEF Holds
  <2> QED
    BY <1>1, <1>4, <1>7
<1>9. PICK q \in Nat : RootSoFar(n, q, 1, g[m])
  <2>1. m - m = 0 /\ Power(2, 0) = 1
    BY <1>1, PowerSteps
  <2> QED
    BY <1>8, <2>1
<1> DEFINE c == q * q
           l == g[m].left
<1>10. g[m].root = q
  BY <1>9 DEF RootSoFar
<1>11. c \in Nat /\ (q + 1) * (q + 1) = c + 2 * q + 1 /\ l \in Nat /\ l + c = n /\ l < 2 * q + 1
  <2>1. q * 1 = q /\ 1 * 1 = 1
    OBVIOUS
  <2> QED
    BY <1>9, <2>1 DEF RootSoFar
<1>12. c <= n /\ n < (q + 1) * (q + 1)
  <2> HIDE DEF c, l
  <2> QED
    BY <1>11
<1> QED
  BY <1>2, <1>10, <1>12

-----------------------------------------------------------------------------
(* What the tokens of an amount are charged, one by one: more and more, and *)
(* never the whole token.                                                  *)

LEMMA GreatestFees ==
    ASSUME NEW fee, Limits(fee)
    PROVE  /\ Numerator(fee.max_fee_bps) <= MAX_FEE_NUMERATOR
           /\ Numerator(fee.fee_increment_bps) < FEE_DENOMINATOR
           /\ MAX_FEE_NUMERATOR \in Nat /\ MIN_FEE_NUMERATOR \in Nat
           /\ FEE_DENOMINATOR \in Nat \ {0}
           /\ MAX_FEE_NUMERATOR + 9 <= FEE_DENOMINATOR
           /\ MIN_FEE_NUMERATOR <= MAX_FEE_NUMERATOR
           /\ fee.cliff_fee_numerator + MaxIndex(fee) * Numerator(fee.fee_increment_bps)
                <= Numerator(fee.max_fee_bps)
<1>1. /\ Numerator(fee.max_fee_bps) <= MAX_FEE_NUMERATOR
      /\ Numerator(fee.fee_increment_bps) < FEE_DENOMINATOR
  BY DEF Limits, ValidBaseFee, ValidLimiter
<1>2. FEE_DENOMINATOR \in Nat \ {0}
  BY CurveAssumption
<1>3. /\ MAX_FEE_NUMERATOR \in Nat /\ MIN_FEE_NUMERATOR \in Nat
      /\ MAX_FEE_NUMERATOR + 9 <= FEE_DENOMINATOR
      /\ MIN_FEE_NUMERATOR <= MAX_FEE_NUMERATOR
  BY <1>2, FeesAssumption
<1> DEFINE c == fee.cliff_fee_numerator
           i == Numerator(fee.fee_increment_bps)
           M == Numerator(fee.max_fee_bps)
           m == MaxIndex(fee)
<1>4. c \in Nat /\ i \in Nat \ {0} /\ M \in Nat /\ c <= M
  BY LimiterFields
<1>5. m = (M - c) \div i
  BY DEF MaxIndex
<1> HIDE DEF c, i, M, m
<1>6. m \in Nat /\ m * i <= M - c
  <2>1. M - c \in Nat
    BY <1>4
  <2> QED
    BY <1>4, <1>5, <2>1, DivBounds
<1>7. c + m * i <= M
  <2>1. m * i \in Nat
    BY <1>4, <1>6
  <2> QED
    BY <1>4, <1>6, <2>1
<1> QED
  BY <1>1, <1>2, <1>3, <1>7 DEF c, i, M, m

LEMMA RatesGrow ==
    ASSUME NEW fee, Limits(fee), NEW s \in Nat, NEW t \in Nat, s <= t
    PROVE  /\ Rate(fee, s) \in Nat
           /\ fee.cliff_fee_numerator <= Rate(fee, s)
           /\ Rate(fee, s) <= Rate(fee, t)
           /\ Rate(fee, t) <= Numerator(fee.max_fee_bps)
<1> DEFINE c == fee.cliff_fee_numerator
           i == Numerator(fee.fee_increment_bps)
           M == Numerator(fee.max_fee_bps)
           m == MaxIndex(fee)
<1>1. c \in Nat /\ i \in Nat \ {0} /\ M \in Nat /\ m \in Nat /\ c <= M
  BY LimiterFields
<1>2. c + m * i <= M
  BY GreatestFees
<1>3. \A n \in Nat : Rate(fee, n) = IF n <= m THEN c + n * i ELSE M
  BY DEF Rate
<1>4. Rate(fee, s) \in Nat /\ c <= Rate(fee, s)
  BY ChargeTypes
<1> HIDE DEF c, i, M, m
<1>5. s * i \in Nat /\ t * i \in Nat /\ m * i \in Nat
  BY <1>1
<1>6. s * i <= t * i /\ (s <= m => s * i <= m * i) /\ (t <= m => t * i <= m * i)
  BY <1>1, Monotone
<1>7. Rate(fee, s) <= Rate(fee, t) /\ Rate(fee, t) <= M
  BY <1>1, <1>2, <1>3, <1>5, <1>6
<1> QED
  BY <1>4, <1>7 DEF c, M

\* The fee of the token after the first t.
RateAt(fee, t) == Rate(fee, t \div fee.reference_amount)

LEMMA RatesAt ==
    ASSUME NEW fee, Limits(fee), NEW s \in Nat, NEW t \in Nat, s <= t
    PROVE  /\ RateAt(fee, s) \in Nat
           /\ fee.cliff_fee_numerator <= RateAt(fee, s)
           /\ RateAt(fee, s) <= RateAt(fee, t)
           /\ RateAt(fee, t) <= Numerator(fee.max_fee_bps)
<1>1. fee.reference_amount \in Nat \ {0}
  BY LimiterFields
<1>2. /\ s \div fee.reference_amount \in Nat
      /\ t \div fee.reference_amount \in Nat
      /\ s \div fee.reference_amount <= t \div fee.reference_amount
  BY <1>1, DivBounds, DivMonotone
<1> QED
  BY <1>2, RatesGrow DEF RateAt

\* More tokens pay at least what the next one pays, each, and at most the
\* greatest fee.
LEMMA ChargedBetween ==
    ASSUME NEW fee, Limits(fee), NEW s \in Nat, NEW d \in Nat
    PROVE  /\ Charged(fee, s + d) >= Charged(fee, s) + d * RateAt(fee, s)
           /\ Charged(fee, s + d) <= Charged(fee, s) + d * Numerator(fee.max_fee_bps)
<1> DEFINE C(t) == Charged(fee, t)
           r == RateAt(fee, s)
           M == Numerator(fee.max_fee_bps)
           Holds(n) == C(s + n) >= C(s) + n * r /\ C(s + n) <= C(s) + n * M
<1>1. M \in Nat /\ r \in Nat
  BY LimiterFields, RatesAt
<1>2. \A t \in Nat : C(t) \in Nat /\ C(t + 1) = C(t) + RateAt(fee, t)
  BY ChargedTypes, ChargedNext DEF RateAt
<1>3. \A t \in Nat : s <= t => RateAt(fee, t) \in Nat /\ r <= RateAt(fee, t) /\ RateAt(fee, t) <= M
  BY RatesAt
<1> HIDE DEF C, r, M
<1>4. PICK Good : Good = {n \in Nat : Holds(n)}
  OBVIOUS
<1>5. 0 \in Good
  <2>1. s + 0 = s /\ 0 * r = 0 /\ 0 * M = 0 /\ C(s) \in Nat
    BY <1>1, <1>2
  <2>2. Holds(0)
    BY <2>1
  <2> HIDE DEF Holds
  <2> QED
    BY <1>4, <2>2
<1>6. ASSUME NEW n \in Nat, n \in Good PROVE n + 1 \in Good
  <2>1. Holds(n)
    <3> HIDE DEF Holds
    <3> QED
      BY <1>4, <1>6
  <2> DEFINE a == RateAt(fee, s + n)
             y == n * r
             z == n * M
  <2>2. C(s + (n + 1)) = C(s + n) + a /\ C(s + n) \in Nat /\ C(s) \in Nat
    <3>1. s + (n + 1) = (s + n) + 1 /\ s + n \in Nat
      OBVIOUS
    <3> QED
      BY <1>2, <3>1
  <2>3. a \in Nat /\ r <= a /\ a <= M
    <3>1. s + n \in Nat /\ s <= s + n
      OBVIOUS
    <3> QED
      BY <1>3, <3>1
  <2>4. y \in Nat /\ z \in Nat /\ (n + 1) * r = y + r /\ (n + 1) * M = z + M
    BY <1>1
  <2>5. C(s + n) >= C(s) + y /\ C(s + n) <= C(s) + z
    BY <2>1
  <2> HIDE DEF a, y, z
  <2>6. /\ C(s + (n + 1)) >= C(s) + (y + r)
        /\ C(s + (n + 1)) <= C(s) + (z + M)
    BY <1>1, <2>2, <2>3, <2>4, <2>5
  <2>7. Holds(n + 1)
    BY <2>4, <2>6
  <2> HIDE DEF Holds
  <2> QED
    BY <1>4, <2>7
<1>7. Nat \subseteq Good
  BY <1>5, <1>6, NaturalInduction
<1>8. Holds(d)
  <2> HIDE DEF Holds
  <2> QED
    BY <1>4, <1>7
<1> QED
  BY <1>8 DEF C, r, M

\* Tokens that all pay the same.
LEMMA ChargedAlike ==
    ASSUME NEW fee, Limits(fee), NEW s \in Nat, NEW d \in Nat,
           d # 0 => RateAt(fee, s + d - 1) = RateAt(fee, s)
    PROVE  Charged(fee, s + d) = Charged(fee, s) + d * RateAt(fee, s)
<1> DEFINE C(t) == Charged(fee, t)
           r == RateAt(fee, s)
<1>0. r \in Nat
  <2>1. s <= s
    OBVIOUS
  <2> QED
    BY <2>1, RatesAt
<1>1. \A t \in Nat : C(t) \in Nat /\ C(t + 1) = C(t) + RateAt(fee, t)
  BY ChargedTypes, ChargedNext DEF RateAt
<1>2. ASSUME NEW n \in Nat, n + 1 <= d PROVE RateAt(fee, s + n) = r
  <2> DEFINE k == s + n
             l == s + d - 1
  <2>1. k \in Nat /\ l \in Nat /\ s <= k /\ k <= l /\ d # 0
    BY <1>2
  <2> HIDE DEF k, l
  <2>2. RateAt(fee, k) \in Nat /\ RateAt(fee, l) \in Nat
        /\ r <= RateAt(fee, k) /\ RateAt(fee, k) <= RateAt(fee, l)
    BY <2>1, RatesAt
  <2>3. RateAt(fee, l) = r
    BY <2>1 DEF l
  <2>4. RateAt(fee, k) = r
    <3> HIDE DEF r
    <3> QED
      BY <1>0, <2>2, <2>3
  <2> QED
    BY <2>4 DEF k
<1> HIDE DEF C, r
<1>3. PICK Good : Good = {n \in Nat : n <= d => C(s + n) = C(s) + n * r}
  OBVIOUS
<1>4. 0 \in Good
  <2>1. s + 0 = s /\ 0 * r = 0 /\ C(s) \in Nat
    BY <1>0, <1>1
  <2>2. C(s + 0) = C(s) + 0 * r
    BY <2>1
  <2> QED
    BY <1>3, <2>2
<1>5. ASSUME NEW n \in Nat, n \in Good PROVE n + 1 \in Good
  <2> SUFFICES ASSUME n + 1 <= d PROVE C(s + (n + 1)) = C(s) + (n + 1) * r
    BY <1>3
  <2>1. s + n \in Nat /\ n <= d /\ s + (n + 1) = (s + n) + 1
    OBVIOUS
  <2>2. C(s + (n + 1)) = C(s + n) + r
    <3>1. C((s + n) + 1) = C(s + n) + RateAt(fee, s + n)
      BY <1>1, <2>1
    <3>2. RateAt(fee, s + n) = r
      BY <1>2
    <3> QED
      BY <2>1, <3>1, <3>2
  <2>3. C(s + n) = C(s) + n * r
    BY <1>3, <1>5, <2>1
  <2>4. (n + 1) * r = n * r + r /\ n * r \in Nat /\ C(s) \in Nat
    BY <1>0, <1>1
  <2> QED
    BY <1>0, <2>2, <2>3, <2>4
<1>6. Nat \subseteq Good
  BY <1>4, <1>5, NaturalInduction
<1> QED
  BY <1>3, <1>6 DEF C, r

\* The tokens before another pay at most what it pays.
LEMMA ChargedBefore ==
    ASSUME NEW fee, Limits(fee), NEW s \in Nat
    PROVE  Charged(fee, s) <= s * RateAt(fee, s)
<1> DEFINE C(t) == Charged(fee, t)
           r(t) == RateAt(fee, t)
<1>1. \A t \in Nat : C(t) \in Nat /\ C(t + 1) = C(t) + r(t)
  BY ChargedTypes, ChargedNext DEF RateAt
<1>2. \A t \in Nat : r(t) \in Nat /\ r(t) <= r(t + 1)
  BY RatesAt
<1>3. C(0) = 0
  BY ChargedOfNothing
<1> HIDE DEF C, r
<1>4. PICK Good : Good = {n \in Nat : C(n) <= n * r(n)}
  OBVIOUS
<1>5. 0 \in Good
  <2>1. 0 * r(0) = 0
    BY <1>2
  <2> QED
    BY <1>3, <1>4, <2>1
<1>6. ASSUME NEW n \in Nat, n \in Good PROVE n + 1 \in Good
  <2> DEFINE a == r(n)
             b == r(n + 1)
  <2>1. a \in Nat /\ b \in Nat /\ a <= b
    BY <1>2
  <2>2. n * a + a <= (n + 1) * b /\ n * a \in Nat
    <3> HIDE DEF a, b
    <3>1. a * (n + 1) <= b * (n + 1)
      BY <2>1, Monotone
    <3>2. a * (n + 1) = n * a + a /\ b * (n + 1) = (n + 1) * b /\ n * a \in Nat
      BY <2>1
    <3> QED
      BY <3>1, <3>2
  <2>3. C(n) <= n * r(n)
    BY <1>4, <1>6
  <2>4. C(n + 1) <= (n + 1) * r(n + 1)
    <3>1. C(n) \in Nat /\ C(n + 1) = C(n) + a
      BY <1>1
    <3>2. C(n) <= n * a
      BY <2>3
    <3>3. C(n + 1) <= (n + 1) * b
      <4> HIDE DEF a, b
      <4>1. (n + 1) * b \in Nat
        BY <2>1
      <4> QED
        BY <2>1, <2>2, <3>1, <3>2, <4>1
    <3> QED
      BY <3>3
  <2> QED
    BY <1>4, <2>4
<1>7. Nat \subseteq Good
  BY <1>5, <1>6, NaturalInduction
<1> QED
  BY <1>4, <1>7 DEF C, r

\* On average, the tokens of a greater amount pay more.
LEMMA AverageGrows ==
    ASSUME NEW fee, Limits(fee), NEW s \in Nat, NEW d \in Nat
    PROVE  Charged(fee, s) * (s + d) <= Charged(fee, s + d) * s
<1> DEFINE a == Charged(fee, s)
           b == Charged(fee, s + d)
           r == RateAt(fee, s)
<1>1. a \in Nat /\ b \in Nat /\ r \in Nat
  <2>1. s + d \in Nat
    OBVIOUS
  <2> QED
    BY <2>1, ChargedTypes, RatesAt
<1>2. a <= s * r /\ b >= a + d * r
  BY ChargedBefore, ChargedBetween
<1> HIDE DEF a, b, r
<1> DEFINE dr == d * r
<1>3. a * d <= (s * r) * d
  <2>1. s * r \in Nat
    BY <1>1
  <2> QED
    BY <1>1, <1>2, <2>1, Monotone
<1>4. (a + dr) * s <= b * s
  <2>1. dr \in Nat
    BY <1>1
  <2> QED
    BY <1>1, <1>2, <2>1, Monotone
<1>5. (s * r) * d = dr * s
  BY <1>1
<1>6. dr \in Nat
  BY <1>1
<1> HIDE DEF dr
<1>7. a * (s + d) = a * s + a * d /\ (a + dr) * s = a * s + dr * s
  BY <1>1, <1>6
<1>8. a * s \in Nat /\ a * d \in Nat /\ dr * s \in Nat /\ b * s \in Nat
  BY <1>1, <1>6
<1>9. a * (s + d) <= b * s
  BY <1>3, <1>4, <1>5, <1>7, <1>8
<1> QED
  BY <1>9 DEF a, b

-----------------------------------------------------------------------------
(* What is left of an amount when its tokens have paid, in units of the    *)
(* denominator: it grows with the amount, and ever slower.                 *)

Net(fee, t) == FEE_DENOMINATOR * t - Charged(fee, t)

LEMMA NetGrows ==
    ASSUME NEW fee, Limits(fee), NEW s \in Nat, NEW t \in Nat, s <= t
    PROVE  /\ Net(fee, s) + (t - s) * (FEE_DENOMINATOR - Numerator(fee.max_fee_bps))
                <= Net(fee, t)
           /\ Net(fee, t) <= Net(fee, s) + (t - s) * (FEE_DENOMINATOR - RateAt(fee, s))
           /\ Net(fee, t) <= Net(fee, s) + (t - s) * FEE_DENOMINATOR
           /\ Net(fee, t) * s <= Net(fee, s) * t
           /\ Net(fee, s) \in Nat /\ Net(fee, s) <= Net(fee, t)
<1> DEFINE D == FEE_DENOMINATOR
           M == Numerator(fee.max_fee_bps)
           r == RateAt(fee, s)
           a == Charged(fee, s)
           b == Charged(fee, t)
           d == t - s
<1>1. D \in Nat \ {0} /\ M \in Nat /\ M < D
  <2>1. D \in Nat \ {0} /\ M <= MAX_FEE_NUMERATOR /\ MAX_FEE_NUMERATOR \in Nat
        /\ MAX_FEE_NUMERATOR + 9 <= D
    BY GreatestFees
  <2>2. M \in Nat
    BY LimiterFields
  <2> QED
    BY <2>1, <2>2
<1>2. r \in Nat /\ a \in Nat /\ b \in Nat /\ d \in Nat /\ s + d = t
  BY RatesAt, ChargedTypes
<1>3. b >= a + d * r /\ b <= a + d * M
  <2>1. Charged(fee, s + d) >= a + d * r /\ Charged(fee, s + d) <= a + d * M
    BY <1>2, ChargedBetween
  <2> QED
    BY <1>2, <2>1
<1>4. a * t <= b * s
  <2>1. a * (s + d) <= Charged(fee, s + d) * s
    BY <1>2, AverageGrows
  <2> QED
    BY <1>2, <2>1
<1>5. a <= s * M
  <2>1. Charged(fee, 0 + s) <= Charged(fee, 0) + s * M
    <3>1. 0 \in Nat
      OBVIOUS
    <3> QED
      BY <3>1, ChargedBetween
  <2>2. Charged(fee, 0) = 0 /\ 0 + s = s /\ s * M \in Nat
    BY <1>1, ChargedOfNothing
  <2> QED
    BY <2>1, <2>2
<1>6. Net(fee, s) = D * s - a /\ Net(fee, t) = D * t - b
  BY DEF Net
<1> HIDE DEF D, M, r, a, b, d
<1>7. D * t = D * s + D * d
  BY <1>1, <1>2
<1>8. d * (D - M) = D * d - d * M /\ d * (D - r) = D * d - d * r /\ d * D = D * d
      /\ d * M \in Nat /\ d * r \in Nat /\ D * d \in Nat /\ D * s \in Nat /\ s * M \in Nat
      /\ D * t \in Nat
  BY <1>1, <1>2
<1>9. d * M <= D * d /\ s * M <= D * s
  <2>1. M * d <= D * d /\ M * s <= D * s
    BY <1>1, <1>2, Monotone
  <2> QED
    BY <1>1, <1>2, <2>1
<1>10. (D * t - b) * s <= (D * s - a) * t
  <2>1. (D * t - b) * s = (D * t) * s - b * s /\ (D * s - a) * t = (D * s) * t - a * t
        /\ (D * t) * s = (D * s) * t
    BY <1>1, <1>2
  <2>2. (D * s) * t \in Nat /\ b * s \in Nat /\ a * t \in Nat
    BY <1>1, <1>2
  <2> QED
    BY <1>4, <2>1, <2>2
<1> DEFINE ns == Net(fee, s)
           nt == Net(fee, t)
<1>11. /\ ns + d * (D - M) <= nt /\ nt <= ns + d * (D - r) /\ nt <= ns + d * D
       /\ ns \in Nat /\ ns <= nt /\ nt * s <= ns * t
  <2>1. ns = D * s - a /\ nt = D * t - b
    BY <1>6
  <2>2. nt * s <= ns * t
    BY <1>10, <2>1
  <2> HIDE DEF ns, nt
  <2> QED
    BY <1>2, <1>3, <1>5, <1>7, <1>8, <1>9, <2>1, <2>2
<1> QED
  BY <1>11 DEF D, M, r, d, ns, nt

LEMMA UnitTypes ==
    ASSUME NEW t \in Nat
    PROVE  /\ UnitOf(t) \in Nat /\ t <= UnitOf(t) * FEE_DENOMINATOR
           /\ UnitOf(t) * FEE_DENOMINATOR < t + FEE_DENOMINATOR
           /\ t # 0 => UnitOf(t) >= 1
<1>1. FEE_DENOMINATOR \in Nat \ {0}
  BY CurveAssumption
<1> DEFINE u == UnitOf(t)
           d == FEE_DENOMINATOR
<1>2. u \in Nat /\ t <= u * d /\ u * d < t + d
  BY <1>1, CeilBounds DEF UnitOf
<1> HIDE DEF u
<1>3. ASSUME t # 0 PROVE u >= 1
  <2> SUFFICES ASSUME u = 0 PROVE FALSE
    BY <1>2
  <2> QED
    BY <1>1, <1>2, <1>3
<1> QED
  BY <1>2, <1>3 DEF u

LEMMA UnitGrows ==
    ASSUME NEW s \in Nat, NEW t \in Nat, s <= t
    PROVE  UnitOf(s) <= UnitOf(t)
<1>1. FEE_DENOMINATOR \in Nat \ {0} /\ UnitOf(t) \in Nat
      /\ t <= UnitOf(t) * FEE_DENOMINATOR
  <2>1. FEE_DENOMINATOR \in Nat \ {0}
    BY CurveAssumption
  <2>2. UnitOf(t) \in Nat /\ t <= UnitOf(t) * FEE_DENOMINATOR
    BY UnitTypes
  <2> QED
    BY <2>1, <2>2
<1> DEFINE u == UnitOf(t)
           p == u * FEE_DENOMINATOR
<1>2. p \in Nat /\ s <= p
  BY <1>1
<1> QED
  BY <1>1, <1>2, CeilAtMost DEF UnitOf

\* The closed form leaves at most what is left, and less by less than a token
\* and a unit of the numerator.
LEMMA ExcludedIsNet ==
    ASSUME NEW fee, Limits(fee), NEW t \in Nat
    PROVE  /\ Excluded(fee, t) \in Int
           /\ FEE_DENOMINATOR * Excluded(fee, t) <= Net(fee, t)
           /\ Net(fee, t) < FEE_DENOMINATOR * (Excluded(fee, t) + 1 + UnitOf(t))
<1> DEFINE D == FEE_DENOMINATOR
           f == FeeWithin(t, LimiterNumerator(fee, t))
           S == Charged(fee, t)
           u == UnitOf(t)
<1>1. D \in Nat \ {0} /\ S \in Nat /\ u \in Nat
  <2>1. FEE_DENOMINATOR \in Nat \ {0}
    BY CurveAssumption
  <2>2. UnitOf(t) \in Nat
    BY UnitTypes
  <2> QED
    BY <2>1, <2>2, ChargedTypes
<1>2. f \in Nat /\ S <= f * D /\ f * D < S + D + u * D
  <2>1. CASE t = 0
    <3>1. LimiterNumerator(fee, t) = fee.cliff_fee_numerator /\ fee.cliff_fee_numerator \in Nat
      BY <2>1, LimiterFields DEF LimiterNumerator
    <3>2. t * fee.cliff_fee_numerator = 0
      BY <2>1, <3>1
    <3>3. f = CeilDiv(0, D)
      BY <3>1, <3>2 DEF FeeWithin, MulDiv
    <3>4. CeilDiv(0, D) = 0
      <4>1. 0 \in Nat /\ 0 * D = 0
        BY <1>1
      <4> QED
        BY <1>1, <4>1, CeilIs
    <3>5. S = 0
      BY <2>1, ChargedOfNothing
    <3> HIDE DEF f, S, D, u
    <3>6. f * D = 0 /\ u * D \in Nat
      BY <1>1, <3>3, <3>4
    <3> QED
      BY <1>1, <3>3, <3>4, <3>5, <3>6
  <2>2. CASE t # 0
    <3> DEFINE sum == CeilDiv(S, D)
    <3>1. f \in sum .. sum + u
      <4>1. t \in Nat \ {0}
        BY <2>2
      <4> QED
        BY <4>1, FeeIsTokenFees, TokenFeesIsCharged
    <3>2. sum \in Nat /\ S <= sum * D /\ sum * D < S + D
      BY <1>1, CeilBounds
    <3> HIDE DEF f, S, D, u, sum
    <3>3. f \in Nat
      BY <1>1, <3>1, <3>2
    <3>4. sum * D <= f * D /\ f * D <= (sum + u) * D
      BY <1>1, <3>1, <3>2, <3>3, Monotone
    <3>5. (sum + u) * D = sum * D + u * D /\ sum * D \in Nat /\ u * D \in Nat /\ f * D \in Nat
      BY <1>1, <3>2, <3>3
    <3> QED
      BY <1>1, <3>2, <3>3, <3>4, <3>5
  <2> QED
    BY <2>1, <2>2
<1>3. Excluded(fee, t) = t - f
  BY DEF Excluded
<1>4. Net(fee, t) = D * t - S
  BY DEF Net
<1> HIDE DEF f, S, D, u
<1> DEFINE e == Excluded(fee, t)
           n == Net(fee, t)
<1>5. e \in Int /\ D * e <= n /\ n < D * (e + 1 + u)
  <2>1. e = t - f /\ n = D * t - S
    BY <1>3, <1>4
  <2>2. e \in Int
    BY <1>2, <2>1
  <2>3. D * e = D * t - f * D /\ D * (e + 1 + u) = D * t - f * D + D + u * D
    <3>1. D * (t - f) = D * t - f * D
          /\ D * ((t - f) + 1 + u) = D * t - f * D + D + u * D
      BY <1>1, <1>2
    <3> QED
      BY <2>1, <3>1
  <2>4. D * t \in Nat /\ f * D \in Nat /\ u * D \in Nat
    BY <1>1, <1>2
  <2> HIDE DEF e, n
  <2> QED
    BY <1>1, <1>2, <2>1, <2>2, <2>3, <2>4
<1> QED
  BY <1>5 DEF D, u, e, n

-----------------------------------------------------------------------------
(* get_fee_numerator_from_excluded_fee_amount: what is left of an amount   *)
(* lies on a parabola at the ends of the steps and below it between them.  *)

LEMMA WholeStepsTwice ==
    ASSUME NEW fee, Limits(fee), NEW s \in Nat, s <= MaxIndex(fee) + 1
    PROVE  2 * WholeSteps(fee, s)
             = fee.reference_amount
                 * (2 * (fee.cliff_fee_numerator * s)
                      + Numerator(fee.fee_increment_bps) * (s * s - s))
<1> DEFINE c == fee.cliff_fee_numerator
           x == fee.reference_amount
           i == Numerator(fee.fee_increment_bps)
           m == MaxIndex(fee)
           W(n) == WholeSteps(fee, n)
           Holds(n) == n <= m + 1 => 2 * W(n) = x * (2 * (c * n) + i * (n * n - n))
<1>1. c \in Nat /\ x \in Nat \ {0} /\ i \in Nat \ {0} /\ m \in Nat
  BY LimiterFields
<1>2. \A n \in Nat : W(n) \in Nat
  BY ChargeTypes
<1>3. \A n \in Nat : n <= m => W(n + 1) = W(n) + x * (c + n * i)
  BY WholeStepsNext DEF Rate
<1>4. W(0) = 0
  BY DEF WholeSteps
<1> HIDE DEF c, x, i, m, W
<1>5. PICK Good : Good = {n \in Nat : Holds(n)}
  OBVIOUS
<1>6. 0 \in Good
  <2>1. x * (2 * (c * 0) + i * (0 * 0 - 0)) = 0
    BY <1>1
  <2>2. Holds(0)
    BY <1>4, <2>1
  <2> HIDE DEF Holds
  <2> QED
    BY <1>5, <2>2
<1>7. ASSUME NEW n \in Nat, n \in Good PROVE n + 1 \in Good
  <2>1. Holds(n)
    <3> HIDE DEF Holds
    <3> QED
      BY <1>5, <1>7
  <2>2. ASSUME n + 1 <= m + 1
        PROVE  2 * W(n + 1) = x * (2 * (c * (n + 1)) + i * ((n + 1) * (n + 1) - (n + 1)))
    <3>1. n <= m /\ n <= m + 1
      BY <1>1, <2>2
    <3> DEFINE u == x * (2 * (c * n) + i * (n * n - n))
               v == x * (c + n * i)
               w == W(n)
    <3>2. W(n + 1) = w + v /\ 2 * w = u /\ w \in Nat
      BY <1>2, <1>3, <2>1, <3>1
    <3>3. u + 2 * v = x * (2 * (c * (n + 1)) + i * ((n + 1) * (n + 1) - (n + 1)))
          /\ v \in Nat /\ u \in Int
      BY <1>1
    <3> HIDE DEF u, v, w
    <3>4. 2 * W(n + 1) = u + 2 * v
      BY <3>2, <3>3
    <3> QED
      BY <3>3, <3>4
  <2>3. Holds(n + 1)
    BY <2>2
  <2> HIDE DEF Holds
  <2> QED
    BY <1>5, <2>3
<1>8. Nat \subseteq Good
  BY <1>6, <1>7, NaturalInduction
<1>9. Holds(s)
  <2> HIDE DEF Holds
  <2> QED
    BY <1>5, <1>8
<1> QED
  BY <1>9 DEF c, x, i, m, W

\* The coefficient y of AmountsInGrowing, and the parabola.
Linear(fee) ==
    2 * FEE_DENOMINATOR * fee.reference_amount
      + Numerator(fee.fee_increment_bps) * fee.reference_amount
      - 2 * fee.cliff_fee_numerator * fee.reference_amount

Parabola(fee, t) == Linear(fee) * t - Numerator(fee.fee_increment_bps) * (t * t)

LEMMA LinearTypes ==
    ASSUME NEW fee, Limits(fee)
    PROVE  /\ Linear(fee) \in Nat
           /\ Linear(fee) < 3 * (FEE_DENOMINATOR * fee.reference_amount)
           /\ Linear(fee) < Power(2, SQRT_BITS)
           /\ Power(2, SQRT_BITS) \in Nat
<1> DEFINE c == fee.cliff_fee_numerator
           x == fee.reference_amount
           i == Numerator(fee.fee_increment_bps)
           D == FEE_DENOMINATOR
           y == Linear(fee)
           P == Power(2, SQRT_BITS)
<1>1. c \in Nat /\ x \in Nat \ {0} /\ i \in Nat \ {0} /\ D \in Nat \ {0} /\ c < D /\ i < D
  <2>1. c \in Nat /\ x \in Nat \ {0} /\ i \in Nat \ {0} /\ Numerator(fee.max_fee_bps) \in Nat
        /\ c <= Numerator(fee.max_fee_bps)
    BY LimiterFields
  <2>2. D \in Nat \ {0} /\ Numerator(fee.max_fee_bps) <= MAX_FEE_NUMERATOR
        /\ MAX_FEE_NUMERATOR \in Nat /\ MAX_FEE_NUMERATOR + 9 <= D /\ i < D
    BY GreatestFees
  <2> QED
    BY <2>1, <2>2
<1>2. y = 2 * D * x + i * x - 2 * c * x
  BY DEF Linear
<1>3. P \in Nat
  <2>1. SQRT_BITS \in Nat
    BY FeesAssumption
  <2> QED
    BY <2>1, PowerOfFour
<1>4. 3 * D * x <= P
  <2>1. fee \in BaseFees \cap Limiters
    BY FeesAssumption DEF Limits, IsLimiter, Schedulers
  <2> QED
    BY <2>1, FeesAssumption
<1> HIDE DEF c, x, i, D, y, P
<1>5. c * x < D * x /\ i * x < D * x
  <2>1. (c + 1) * x <= D * x /\ (i + 1) * x <= D * x
    BY <1>1, Monotone
  <2>2. (c + 1) * x = c * x + x /\ (i + 1) * x = i * x + x
        /\ c * x \in Nat /\ i * x \in Nat /\ D * x \in Nat
    BY <1>1
  <2> QED
    BY <1>1, <2>1, <2>2
<1>6. y = 2 * (D * x) + i * x - 2 * (c * x) /\ 3 * D * x = 3 * (D * x)
  BY <1>1, <1>2
<1>7. c * x \in Nat /\ i * x \in Nat /\ D * x \in Nat
  BY <1>1
<1>8. y \in Nat /\ y < 3 * (D * x) /\ y < P
  BY <1>3, <1>4, <1>5, <1>6, <1>7
<1> QED
  BY <1>3, <1>8 DEF x, D, y, P

LEMMA NetParabola ==
    ASSUME NEW fee, Limits(fee), NEW t \in Nat,
           t <= (MaxIndex(fee) + 1) * fee.reference_amount
    PROVE  /\ 2 * (fee.reference_amount * Net(fee, t)) <= Parabola(fee, t)
           /\ t % fee.reference_amount = 0 =>
                2 * (fee.reference_amount * Net(fee, t)) = Parabola(fee, t)
<1> DEFINE c == fee.cliff_fee_numerator
           x == fee.reference_amount
           i == Numerator(fee.fee_increment_bps)
           m == MaxIndex(fee)
           D == FEE_DENOMINATOR
           a == t \div x
           b == t % x
           r == Rate(fee, a)
           W == WholeSteps(fee, a)
           S == Charged(fee, t)
<1>1. c \in Nat /\ x \in Nat \ {0} /\ i \in Nat \ {0} /\ m \in Nat /\ D \in Nat \ {0}
  BY LimiterFields, GreatestFees
<1>2. a \in Nat /\ b \in 0 .. x - 1 /\ t = a * x + b
  BY <1>1, Division
<1>3. S = W + b * r /\ r \in Nat /\ W \in Nat
  <2> HIDE DEF a
  <2>1. r \in Nat /\ W \in Nat
    BY <1>2, ChargeTypes
  <2> QED
    BY <2>1 DEF Charged, a
<1>4. Rate(fee, a) = IF a <= m THEN c + a * i ELSE Numerator(fee.max_fee_bps)
  BY DEF Rate
<1>5. Net(fee, t) = D * t - S
  BY DEF Net
<1>6. Parabola(fee, t) = (2 * D * x + i * x - 2 * c * x) * t - i * (t * t)
  BY DEF Parabola, Linear
<1>7. a <= m + 1 => 2 * W = x * (2 * (c * a) + i * (a * a - a))
  <2> HIDE DEF a
  <2> QED
    BY <1>2, WholeStepsTwice
<1>8. t <= (m + 1) * x
  OBVIOUS
<1> HIDE DEF c, x, i, m, D, a, b, W, S
<1>9. a <= m + 1
  <2>1. a * x <= (m + 1) * x
    <3>1. a * x \in Nat /\ (m + 1) * x \in Nat
      BY <1>1, <1>2
    <3> QED
      BY <1>2, <1>8, <3>1
  <2> QED
    BY <1>1, <1>2, <2>1, CancelLe
<1>10. b # 0 => r = c + a * i
  <2> SUFFICES ASSUME b # 0 PROVE a <= m
    BY <1>4
  <2> SUFFICES ASSUME a = m + 1 PROVE FALSE
    BY <1>1, <1>2, <1>9
  <2>1. (m + 1) * x \in Nat
    BY <1>1
  <2> QED
    BY <1>2, <1>8, <2>1
<1> HIDE DEF r
<1> DEFINE gap == i * (b * (x - b))
<1>11. gap \in Nat /\ (b = 0 => gap = 0)
  <2>1. b \in Nat /\ x - b \in Nat
    BY <1>1, <1>2
  <2> QED
    BY <1>1, <2>1
<1>12. b * r = b * (c + a * i)
  <2>1. CASE b = 0
    <3>1. 0 * r = 0 /\ 0 * (c + a * i) = 0
      BY <1>1, <1>2, <1>3
    <3> QED
      BY <2>1, <3>1
  <2>2. CASE b # 0
    BY <1>10, <2>2
  <2> QED
    BY <2>1, <2>2
<1>13. 2 * (x * Net(fee, t)) = Parabola(fee, t) - gap
  <2>1. b \in Nat
    BY <1>1, <1>2
  <2> DEFINE w == x * (2 * (c * a) + i * (a * a - a))
             v == b * (c + a * i)
  <2>2. 2 * W = w /\ S = W + v
    BY <1>3, <1>7, <1>9, <1>12
  <2>3. 2 * (x * (D * t - S)) = 2 * (x * (D * t)) - x * (2 * W) - 2 * (x * v)
    <3>1. v \in Nat
      BY <1>1, <1>2, <2>1
    <3>2. D * t \in Nat
      BY <1>1
    <3> DEFINE dt == D * t
    <3> HIDE DEF v, dt
    <3>3. 2 * (x * (dt - (W + v))) = 2 * (x * dt) - x * (2 * W) - 2 * (x * v)
      BY <1>1, <1>3, <3>1, <3>2 DEF dt
    <3> QED
      BY <2>2, <3>3 DEF dt
  <2>4. 2 * (x * (D * (a * x + b))) - x * w - 2 * (x * v)
          = ((2 * D * x + i * x - 2 * c * x) * (a * x + b) - i * ((a * x + b) * (a * x + b)))
              - gap
    BY <1>1, <1>2, <2>1
  <2>5. x * (2 * W) = x * w
    BY <2>2
  <2> HIDE DEF w, v, gap
  <2> QED
    BY <1>2, <1>5, <1>6, <2>3, <2>4, <2>5
<1>14. Parabola(fee, t) \in Int
  <2>1. Linear(fee) \in Nat
    BY LinearTypes
  <2> QED
    BY <1>1, <2>1 DEF Parabola, i
<1> HIDE DEF gap
<1> DEFINE q == Parabola(fee, t)
           l == 2 * (x * Net(fee, t))
<1>15. l = q - gap /\ q \in Int
  BY <1>13, <1>14
<1> HIDE DEF q, l
<1>16. l <= q /\ (b = 0 => l = q)
  BY <1>11, <1>15
<1> QED
  BY <1>16 DEF l, q, x, b

\* The root splits the amounts into those before and those behind the point
\* where the parabola has the height of z.
LEMMA RootSplits ==
    ASSUME NEW y \in Nat, NEW i \in Nat \ {0}, NEW z \in Nat,
           y < Power(2, SQRT_BITS), y * y >= 4 * i * z
    PROVE  /\ Root(y * y - 4 * i * z) \in 0 .. y
           /\ \A t \in Nat :
                /\ 2 * (i * t) <= y - Root(y * y - 4 * i * z) =>
                     2 * (i * (y * t - i * (t * t) - z)) <= y
                /\ y - Root(y * y - 4 * i * z) < 2 * (i * t) /\ 2 * (i * t) <= y =>
                     z <= y * t - i * (t * t)
<1> DEFINE d == y * y - 4 * i * z
           p == Root(d)
           P == Power(2, SQRT_BITS)
<1>1. d \in Nat /\ d <= y * y
  <2>1. y * y \in Nat /\ 4 * i * z \in Nat
    OBVIOUS
  <2> QED
    BY <2>1
<1>2. P \in Nat \ {0}
  <2>1. SQRT_BITS \in Nat
    BY FeesAssumption
  <2> QED
    BY <2>1, PowerOfFour
<1>3. d < P * P
  <2> HIDE DEF P, d
  <2>1. y * y <= y * P /\ y * P < P * P
    <3>1. y <= P /\ y + 1 <= P
      BY <1>2 DEF P
    <3>2. y * y <= P * y /\ (y + 1) * P <= P * P
      BY <1>2, <3>1, Monotone
    <3>3. (y + 1) * P = y * P + P /\ P * y = y * P /\ y * P \in Nat /\ P * P \in Nat /\ y * y \in Nat
      BY <1>2
    <3> QED
      BY <1>2, <3>2, <3>3
  <2>2. y * y \in Nat /\ y * P \in Nat /\ P * P \in Nat
    BY <1>2
  <2> QED
    BY <1>1, <2>1, <2>2
<1>4. p \in Nat /\ p * p <= d /\ d < (p + 1) * (p + 1)
  <2> HIDE DEF d
  <2> QED
    BY <1>1, <1>3, RootIs DEF P
<1>5. p <= y
  <2> SUFFICES ASSUME y + 1 <= p PROVE FALSE
    <3> HIDE DEF p
    <3> QED
      BY <1>4
  <2> HIDE DEF p, d
  <2>1. (y + 1) * (y + 1) <= p * (y + 1) /\ (y + 1) * p <= p * p
    BY <1>4, Monotone
  <2>2. (y + 1) * (y + 1) = y * y + 2 * y + 1 /\ p * (y + 1) = (y + 1) * p
        /\ y * y \in Nat /\ p * p \in Nat /\ p * (y + 1) \in Nat
    BY <1>4
  <2> QED
    BY <1>1, <1>4, <2>1, <2>2
<1>6. ASSUME NEW t \in Nat
      PROVE  /\ 2 * (i * t) <= y - p => 2 * (i * (y * t - i * (t * t) - z)) <= y
             /\ y - p < 2 * (i * t) /\ 2 * (i * t) <= y => z <= y * t - i * (t * t)
  <2> DEFINE u == y - 2 * (i * t)
             e == y * t - i * (t * t) - z
             ie == i * e
  <2>1. u \in Int /\ e \in Int /\ ie \in Int
    OBVIOUS
  <2>2. 4 * ie = d - u * u
    OBVIOUS
  <2>3. i * t \in Nat
    OBVIOUS
  <2>4. ASSUME 2 * (i * t) <= y - p PROVE 2 * ie <= y
    <3> HIDE DEF p, d, ie, e
    <3>1. u \in Nat /\ p <= u
      BY <1>4, <1>5, <2>3, <2>4
    <3> HIDE DEF u
    <3>2. p * p <= u * u
      <4>1. p * p <= u * p /\ p * u <= u * u
        BY <1>4, <3>1, Monotone
      <4>2. u * p = p * u /\ p * p \in Nat /\ u * p \in Nat /\ u * u \in Nat
        BY <1>4, <3>1
      <4> QED
        BY <4>1, <4>2
    <3>3. (p + 1) * (p + 1) = p * p + 2 * p + 1 /\ p * p \in Nat /\ u * u \in Nat
      BY <1>4, <3>1
    <3> QED
      BY <1>1, <1>4, <1>5, <2>1, <2>2, <3>2, <3>3
  <2>5. ASSUME y - p < 2 * (i * t), 2 * (i * t) <= y PROVE 0 <= e
    <3>1. 0 <= 4 * ie
      <4> HIDE DEF p, d, ie, e
      <4>1. u \in Nat /\ u <= p
        BY <1>4, <2>3, <2>5
      <4> HIDE DEF u
      <4>2. u * u <= p * p
        <5>1. u * u <= p * u /\ u * p <= p * p
          BY <1>4, <4>1, Monotone
        <5>2. u * p = p * u /\ p * p \in Nat /\ u * p \in Nat /\ u * u \in Nat
          BY <1>4, <4>1
        <5> QED
          BY <5>1, <5>2
      <4>3. p * p \in Nat /\ u * u \in Nat
        BY <1>4, <4>1
      <4> QED
        BY <1>1, <1>4, <2>2, <4>2, <4>3
    <3> HIDE DEF e
    <3>2. 0 * i <= e * i
      <4>1. 0 * i = 0 /\ e * i = ie
        BY <2>1
      <4> HIDE DEF ie
      <4> QED
        BY <2>1, <3>1, <4>1
    <3> QED
      BY <2>1, <3>2, CancelLe
  <2>6. 0 <= e => z <= y * t - i * (t * t)
    <3> DEFINE q == y * t - i * (t * t)
    <3>1. q \in Int
      OBVIOUS
    <3> HIDE DEF q
    <3> QED
      BY <3>1 DEF q
  <2> HIDE DEF p, d
  <2> QED
    BY <2>4, <2>5, <2>6
<1>7. p \in 0 .. y
  <2> HIDE DEF p
  <2> QED
    BY <1>4, <1>5
<1> QED
  BY <1>6, <1>7

LEMMA CheckedTypes ==
    ASSUME NEW fee, Limits(fee)
    PROVE  /\ (MaxIndex(fee) + 1) * fee.reference_amount \in Nat
           /\ CheckedAmount(fee) \in Nat /\ MAX_AMOUNT \in Nat
           /\ CheckedAmount(fee) <= MAX_AMOUNT
           /\ CheckedAmount(fee) <= (MaxIndex(fee) + 1) * fee.reference_amount
           /\ (MaxIndex(fee) + 1) * fee.reference_amount <= MAX_AMOUNT =>
                CheckedAmount(fee) = (MaxIndex(fee) + 1) * fee.reference_amount
           /\ (MaxIndex(fee) + 1) * fee.reference_amount > MAX_AMOUNT =>
                CheckedAmount(fee) = MAX_AMOUNT
<1> DEFINE K == (MaxIndex(fee) + 1) * fee.reference_amount
<1>1. K \in Nat
  <2>1. MaxIndex(fee) \in Nat /\ fee.reference_amount \in Nat
    BY LimiterFields
  <2> QED
    BY <2>1
<1>2. MAX_AMOUNT \in Nat
  BY FeesAssumption
<1>3. CheckedAmount(fee) = IF MAX_AMOUNT < K THEN MAX_AMOUNT ELSE K
  BY DEF CheckedAmount, Least
<1> HIDE DEF K
<1>4. /\ CheckedAmount(fee) \in Nat /\ CheckedAmount(fee) <= MAX_AMOUNT
      /\ CheckedAmount(fee) <= K
      /\ K <= MAX_AMOUNT => CheckedAmount(fee) = K
      /\ K > MAX_AMOUNT => CheckedAmount(fee) = MAX_AMOUNT
  BY <1>1, <1>2, <1>3
<1> QED
  BY <1>1, <1>2, <1>4 DEF K

\* The amount found from a whole part: what is missing, and the fee of one
\* step on top of it.
AmountFrom(fee, whole, excluded) ==
    LET rest == excluded - Excluded(fee, whole)
    IN whole + rest + FeeOnTop(rest, RateAt(fee, whole))

LEMMA AmountFromBounds ==
    ASSUME NEW fee, Limits(fee), NEW w \in Nat, NEW e \in Nat, Excluded(fee, w) <= e
    PROVE  /\ AmountFrom(fee, w, e) \in Nat /\ w <= AmountFrom(fee, w, e)
           /\ e <= AmountFrom(fee, w, e)
           /\ Net(fee, AmountFrom(fee, w, e)) < FEE_DENOMINATOR * (e + 2 + UnitOf(w))
           /\ FEE_DENOMINATOR * e
                <= Net(fee, w) + (AmountFrom(fee, w, e) - w)
                                   * (FEE_DENOMINATOR - RateAt(fee, w))
<1> DEFINE D == FEE_DENOMINATOR
           r == RateAt(fee, w)
           f == Excluded(fee, w)
           rest == e - f
           d == CeilDiv(rest * D, D - r)
           p == AmountFrom(fee, w, e)
           N == Net(fee, w)
           u == UnitOf(w)
<1>1. D \in Nat \ {0} /\ r \in Nat /\ r < D
  <2>1. D \in Nat \ {0} /\ Numerator(fee.max_fee_bps) <= MAX_FEE_NUMERATOR
        /\ MAX_FEE_NUMERATOR \in Nat /\ MAX_FEE_NUMERATOR + 9 <= D
    BY GreatestFees
  <2>2. r \in Nat /\ r <= Numerator(fee.max_fee_bps) /\ Numerator(fee.max_fee_bps) \in Nat
    <3>1. w <= w
      OBVIOUS
    <3> QED
      BY <3>1, RatesAt, LimiterFields
  <2> QED
    BY <2>1, <2>2
<1>2. f \in Int /\ D * f <= N /\ N < D * (f + 1 + u)
  BY ExcludedIsNet
<1>3. u \in Nat
  BY UnitTypes
<1>4. N \in Nat /\ N <= w * D
  <2>1. Net(fee, w) <= Net(fee, 0) + (w - 0) * D /\ Net(fee, w) \in Nat
    <3>1. 0 \in Nat /\ 0 <= w /\ w <= w
      OBVIOUS
    <3>2. Net(fee, w) <= Net(fee, 0) + (w - 0) * D
      BY <3>1, NetGrows
    <3>3. Net(fee, w) \in Nat
      BY <3>1, NetGrows
    <3> QED
      BY <3>2, <3>3
  <2>2. Net(fee, 0) = 0
    <3>1. D * 0 = 0
      BY <1>1
    <3> QED
      BY <3>1, ChargedOfNothing DEF Net
  <2>3. (w - 0) * D = w * D /\ w * D \in Nat
    BY <1>1
  <2> QED
    BY <2>1, <2>2, <2>3
<1>5. rest \in Nat /\ rest * D \in Nat /\ D - r \in Nat \ {0}
  <2>1. rest \in Nat
    <3> HIDE DEF f
    <3> QED
      BY <1>2 DEF f
  <2> HIDE DEF rest
  <2> QED
    BY <1>1, <2>1
<1>6. d \in Nat /\ rest * D <= d * (D - r) /\ d * (D - r) < rest * D + (D - r)
  <2> HIDE DEF rest, r, D
  <2> QED
    BY <1>5, CeilBounds
<1>7. p = w + d
  <2>1. p = w + rest + (d - rest)
    BY DEF AmountFrom, FeeOnTop, MulDiv
  <2> HIDE DEF p, d, rest
  <2> QED
    BY <1>5, <1>6, <2>1
<1>8. p \in Nat /\ w <= p /\ p - w = d
  <2> HIDE DEF p, d
  <2> QED
    BY <1>6, <1>7
<1>9. Net(fee, p) <= N + (p - w) * (D - r)
  <2> HIDE DEF p
  <2> QED
    BY <1>8, NetGrows
<1>10. Net(fee, p) \in Nat
  <2> HIDE DEF p
  <2>1. p <= p
    BY <1>8
  <2> QED
    BY <1>8, <2>1, NetGrows
<1>11. e = f + rest
  <2> HIDE DEF f
  <2> QED
    BY <1>2
<1> HIDE DEF D, r, f, rest, d, p, N, u
<1>12. D * e = D * f + rest * D
       /\ D * (f + 1 + u) = D * f + D + D * u
       /\ D * (e + 2 + u) = D * f + rest * D + 2 * D + D * u
       /\ D * f \in Int /\ D * u \in Nat /\ d * (D - r) \in Nat
  BY <1>1, <1>2, <1>3, <1>5, <1>6, <1>11
<1>13. Net(fee, p) < D * (e + 2 + u)
  BY <1>1, <1>2, <1>4, <1>5, <1>6, <1>8, <1>9, <1>10, <1>12
<1>14. D * e <= N + (p - w) * (D - r)
  BY <1>1, <1>2, <1>4, <1>5, <1>6, <1>8, <1>12
<1>15. e <= p
  <2>1. f <= w
    <3>1. f * D <= w * D
      <4>1. f * D = D * f /\ w * D \in Nat
        BY <1>1, <1>2
      <4> QED
        BY <1>2, <1>4, <1>12, <4>1
    <3> QED
      BY <1>1, <1>2, <3>1, CancelLe
  <2>2. rest <= d
    <3>1. rest * D <= d * D
      <4>1. (D - r) * d <= D * d
        BY <1>1, <1>6, Monotone
      <4>2. (D - r) * d = d * (D - r) /\ D * d = d * D /\ d * D \in Nat
        BY <1>1, <1>6
      <4> QED
        BY <1>5, <1>6, <1>12, <4>1, <4>2
    <3> QED
      BY <1>1, <1>5, <1>6, <3>1, CancelLe
  <2> QED
    BY <1>2, <1>5, <1>6, <1>7, <1>11, <2>1, <2>2
<1> QED
  BY <1>8, <1>13, <1>14, <1>15 DEF D, r, p, N, u

\* All tokens behind the whole part pay the fee of one step.
LEMMA AmountFromAlike ==
    ASSUME NEW fee, Limits(fee), NEW w \in Nat, NEW e \in Nat, Excluded(fee, w) <= e,
           w < AmountFrom(fee, w, e) =>
             RateAt(fee, AmountFrom(fee, w, e) - 1) = RateAt(fee, w)
    PROVE  FEE_DENOMINATOR * e <= Net(fee, AmountFrom(fee, w, e))
<1> DEFINE D == FEE_DENOMINATOR
           r == RateAt(fee, w)
           p == AmountFrom(fee, w, e)
           d == p - w
           a == Charged(fee, w)
           b == Charged(fee, p)
<1>1. p \in Nat /\ w <= p /\ D * e <= Net(fee, w) + (p - w) * (D - r)
  BY AmountFromBounds
<1>2. D \in Nat /\ r \in Nat
  <2>1. w <= w
    OBVIOUS
  <2> QED
    BY <2>1, CurveAssumption, RatesAt
<1>3. d \in Nat /\ w + d = p
  <2> HIDE DEF p
  <2> QED
    BY <1>1
<1>4. a \in Nat /\ b \in Nat
  <2> HIDE DEF p
  <2> QED
    BY <1>1, ChargedTypes
<1>5. b = a + d * r
  <2>1. d # 0 => w < p /\ p - 1 = w + d - 1
    <3> HIDE DEF p
    <3> QED
      BY <1>1
  <2>2. d # 0 => RateAt(fee, w + d - 1) = RateAt(fee, w)
    BY <2>1
  <2> HIDE DEF d, p
  <2>3. Charged(fee, w + d) = Charged(fee, w) + d * RateAt(fee, w)
    BY <1>3, <2>2, ChargedAlike
  <2> QED
    BY <1>3, <2>3
<1>6. Net(fee, w) = D * w - a /\ Net(fee, p) = D * p - b
  BY DEF Net
<1> HIDE DEF D, r, p, a, b
<1>7. D * e <= Net(fee, w) + d * (D - r)
  BY <1>1
<1> HIDE DEF d
<1>8. D * (w + d) = D * w + D * d /\ d * (D - r) = D * d - d * r
      /\ D * w \in Nat /\ D * d \in Nat /\ d * r \in Nat /\ D * e \in Nat
  BY <1>2, <1>3
<1>9. D * e <= D * (w + d) - b
  BY <1>4, <1>5, <1>6, <1>7, <1>8
<1> QED
  BY <1>3, <1>6, <1>9 DEF D, p

\* The whole part of the amount found between the first step and the last.
Whole(fee, excluded) ==
    LET y == Linear(fee)
        z == 2 * excluded * FEE_DENOMINATOR * fee.reference_amount
        i == Numerator(fee.fee_increment_bps)
    IN (y - Root(y * y - 4 * i * z)) \div (2 * i)

\* It is the last one of which no more is left than is asked for, and what is
\* left at the end of its step is enough.
LEMMA WholeIs ==
    ASSUME NEW fee, Limits(fee), NEW e \in Nat, e < Excluded(fee, CheckedAmount(fee))
    PROVE  LET w == Whole(fee, e)
               x == fee.reference_amount
               y == Linear(fee)
               z == 2 * e * FEE_DENOMINATOR * x
               i == Numerator(fee.fee_increment_bps)
           IN /\ z \in Nat /\ y * y >= 4 * i * z
              /\ w \in Nat /\ w < CheckedAmount(fee)
              /\ Net(fee, w) < FEE_DENOMINATOR * (e + 1)
              /\ \A n \in Nat :
                   w < n * x /\ n <= MaxIndex(fee) + 1 /\ 2 * (i * (n * x)) <= y =>
                      FEE_DENOMINATOR * e <= Net(fee, n * x)
<1> DEFINE w == Whole(fee, e)
           x == fee.reference_amount
           y == Linear(fee)
           i == Numerator(fee.fee_increment_bps)
           D == FEE_DENOMINATOR
           z == 2 * e * D * x
           k == CheckedAmount(fee)
           K == (MaxIndex(fee) + 1) * x
           q(t) == y * t - i * (t * t)
           N(t) == Net(fee, t)
           s == y - Root(y * y - 4 * i * z)
           h == x * D
<1>1. /\ x \in Nat \ {0} /\ i \in Nat \ {0} /\ MaxIndex(fee) \in Nat /\ D \in Nat \ {0}
  BY LimiterFields, GreatestFees
<1>2. y \in Nat /\ y < 3 * (D * x) /\ y < Power(2, SQRT_BITS)
  BY LinearTypes
<1>3. k \in Nat /\ K \in Nat /\ k <= K
  BY CheckedTypes
<1>4. \A t \in Nat : t <= K => 2 * (x * N(t)) <= q(t) /\ (t % x = 0 => 2 * (x * N(t)) = q(t))
  BY NetParabola DEF Parabola
<1>5. \A t \in Nat : N(t) \in Nat
  <2>1. \A t \in Nat : t <= t
    OBVIOUS
  <2> QED
    BY <2>1, NetGrows
<1>6. D * (e + 1) <= N(k)
  <2> DEFINE f == Excluded(fee, k)
  <2>1. f \in Int /\ D * f <= N(k)
    BY <1>3, ExcludedIsNet
  <2>2. e + 1 <= f
    BY <2>1
  <2> HIDE DEF f, k, N
  <2>3. (e + 1) * D <= f * D
    BY <1>1, <2>1, <2>2, Monotone
  <2>4. (e + 1) * D = D * (e + 1) /\ f * D = D * f /\ D * (e + 1) \in Nat /\ D * f \in Int
        /\ N(k) \in Nat
    BY <1>1, <1>3, <1>5, <2>1
  <2> QED
    BY <2>1, <2>3, <2>4
<1> HIDE DEF x, y, i, D, k, K, N, h
<1>7. h \in Nat \ {0} /\ z = 2 * (e * h) /\ e * h \in Nat
  BY <1>1 DEF h
<1>8. z \in Nat
  BY <1>7
<1>9. \A t \in Nat : t <= K /\ D * (e + 1) <= N(t) => z + 2 * h <= q(t)
  <2> SUFFICES ASSUME NEW t \in Nat, t <= K, D * (e + 1) <= N(t) PROVE z + 2 * h <= q(t)
    OBVIOUS
  <2> DEFINE n == N(t)
  <2>1. n \in Nat /\ 2 * (x * n) <= q(t)
    BY <1>4, <1>5
  <2>2. (D * (e + 1)) * x <= n * x
    <3> HIDE DEF n
    <3>1. D * (e + 1) \in Nat /\ D * (e + 1) <= n
      BY <1>1 DEF n
    <3> QED
      BY <1>1, <2>1, <3>1, Monotone
  <2>3. (D * (e + 1)) * x = e * h + h
    BY <1>1 DEF h
  <2>4. n * x = x * n /\ x * n \in Nat
    <3> HIDE DEF n
    <3> QED
      BY <1>1, <2>1
  <2> DEFINE qt == q(t)
  <2>5. qt \in Int
    BY <1>1, <1>2
  <2> HIDE DEF n, q, z, qt
  <2>6. z + 2 * h <= qt
    <3>1. 2 * (x * n) <= qt
      BY <2>1 DEF qt
    <3> QED
      BY <1>7, <2>2, <2>3, <2>4, <2>5, <3>1
  <2> QED
    BY <2>6 DEF qt
<1>10. z + 2 * h <= q(k)
  <2> HIDE DEF z, q
  <2> QED
    BY <1>3, <1>6, <1>9
<1>11. y * y >= 4 * i * z
  <2> DEFINE iq == i * q(k)
             u == y - 2 * (i * k)
  <2>1. 4 * iq = y * y - u * u /\ u \in Int /\ u * u >= 0 /\ u * u \in Int /\ y * y \in Nat
    BY <1>1, <1>2, <1>3
  <2> DEFINE qk == q(k)
  <2>2. qk \in Int /\ z <= qk
    <3>1. qk \in Int
      BY <1>1, <1>2, <1>3
    <3> HIDE DEF z, q
    <3> QED
      BY <1>7, <1>8, <1>10, <3>1
  <2> HIDE DEF z, u, qk
  <2>3. z * i <= qk * i
    BY <1>1, <1>8, <2>2, Monotone
  <2>4. qk * i = iq /\ 4 * i * z = 4 * (z * i) /\ z * i \in Nat
    BY <1>1, <1>8, <2>2 DEF qk
  <2>5. iq \in Int
    <3> HIDE DEF iq
    <3> QED
      BY <1>1, <2>2, <2>4
  <2> HIDE DEF iq
  <2> QED
    BY <2>1, <2>3, <2>4, <2>5
<1>12. /\ s \in Nat
       /\ \A t \in Nat : /\ 2 * (i * t) <= s => 2 * (i * (y * t - i * (t * t) - z)) <= y
                         /\ s < 2 * (i * t) /\ 2 * (i * t) <= y => z <= y * t - i * (t * t)
  <2> HIDE DEF z
  <2>1. Root(y * y - 4 * i * z) \in 0 .. y
    BY <1>1, <1>2, <1>8, <1>11, RootSplits
  <2>2. s \in Nat
    <3> DEFINE p == Root(y * y - 4 * i * z)
    <3> HIDE DEF p
    <3>1. p \in 0 .. y
      BY <2>1 DEF p
    <3>2. s = y - p
      BY DEF p
    <3> QED
      BY <1>2, <3>1, <3>2
  <2> QED
    BY <1>1, <1>2, <1>8, <1>11, <2>2, RootSplits
<1> HIDE DEF s
<1>13. w = s \div (2 * i)
  BY DEF Whole, s, y, i, D, x
<1>14. w \in Nat /\ 2 * (i * w) <= s /\ s < 2 * (i * (w + 1))
  <2> HIDE DEF w
  <2>1. 2 * i \in Nat \ {0}
    BY <1>1
  <2>2. w \in Nat /\ w * (2 * i) <= s /\ s < w * (2 * i) + 2 * i
    BY <1>12, <1>13, <2>1, DivBounds
  <2>3. w * (2 * i) = 2 * (i * w) /\ 2 * (i * (w + 1)) = 2 * (i * w) + 2 * i
    BY <1>1, <2>2
  <2> QED
    BY <2>2, <2>3
<1> HIDE DEF w
\* no amount up to the whole part leaves a whole token more
<1>15. \A t \in Nat : 2 * (i * t) <= s => ~ (z + 2 * h <= q(t))
  <2> SUFFICES ASSUME NEW t \in Nat, 2 * (i * t) <= s, z + 2 * h <= q(t) PROVE FALSE
    OBVIOUS
  <2> DEFINE g == q(t) - z
  <2>1. 2 * (i * g) <= y
    BY <1>12
  <2>2. g \in Int /\ 2 * h <= g
    <3>1. q(t) \in Int
      BY <1>1, <1>2
    <3> HIDE DEF q, z
    <3> QED
      BY <1>7, <1>8, <3>1
  <2> HIDE DEF g, z, q
  <2>3. g <= i * g
    <3>1. g \in Nat /\ 1 <= i
      BY <1>1, <1>7, <2>2
    <3>2. 1 * g <= i * g
      BY <1>1, <3>1, Monotone
    <3> QED
      BY <3>1, <3>2
  <2>4. h = D * x /\ i * g \in Int
    BY <1>1, <2>2 DEF h
  <2>5. y < 3 * h
    BY <1>2, <2>4
  <2> QED
    BY <1>2, <1>7, <2>1, <2>2, <2>3, <2>4, <2>5
<1>16. w < k
  <2> SUFFICES ASSUME k <= w PROVE FALSE
    BY <1>3, <1>14
  <2>1. k * i <= w * i
    BY <1>1, <1>3, <1>14, Monotone
  <2>2. k * i = i * k /\ w * i = i * w /\ i * k \in Nat /\ i * w \in Nat
    BY <1>1, <1>3, <1>14
  <2>3. 2 * (i * k) <= s
    BY <1>12, <1>14, <2>1, <2>2
  <2> HIDE DEF z, q
  <2> QED
    BY <1>3, <1>10, <1>15, <2>3
<1>17. N(w) < D * (e + 1)
  <2> SUFFICES ASSUME D * (e + 1) <= N(w) PROVE FALSE
    <3> DEFINE nw == N(w)
               de == D * (e + 1)
    <3>1. nw \in Nat /\ de \in Nat
      BY <1>1, <1>5, <1>14
    <3> HIDE DEF nw, de
    <3>2. nw < de \/ de <= nw
      BY <3>1
    <3> QED
      BY <3>2 DEF nw, de
  <2> HIDE DEF z, q
  <2>1. w <= K
    BY <1>3, <1>14, <1>16
  <2> QED
    BY <1>9, <1>14, <1>15, <2>1
<1>18. ASSUME NEW n \in Nat, w < n * x, n <= MaxIndex(fee) + 1, 2 * (i * (n * x)) <= y
       PROVE  D * e <= N(n * x)
  <2> DEFINE t == n * x
  <2>1. t \in Nat /\ t <= K
    <3>1. n * x <= (MaxIndex(fee) + 1) * x
      BY <1>1, <1>18, Monotone
    <3> QED
      BY <1>1, <3>1 DEF K
  <2>2. t % x = 0
    <3>1. 0 \in 0 .. x - 1 /\ t = n * x + 0
      BY <1>1, <2>1
    <3> HIDE DEF t
    <3> QED
      BY <1>1, <2>1, <3>1, DivisionIs
  <2>3. s < 2 * (i * t)
    <3>1. w + 1 <= t
      BY <1>14, <1>18, <2>1
    <3> HIDE DEF t
    <3>2. (w + 1) * i <= t * i
      BY <1>1, <1>14, <2>1, <3>1, Monotone
    <3>3. (w + 1) * i = i * (w + 1) /\ t * i = i * t /\ i * (w + 1) \in Nat /\ i * t \in Nat
      BY <1>1, <1>14, <2>1
    <3> QED
      BY <1>12, <1>14, <3>2, <3>3
  <2>4. z <= q(t)
    <3>1. 2 * (i * t) <= y
      BY <1>18
    <3> HIDE DEF t, z
    <3> QED
      BY <1>12, <2>1, <2>3, <3>1
  <2>5. 2 * (x * N(t)) = q(t)
    <3> HIDE DEF t, q
    <3> QED
      BY <1>4, <2>1, <2>2
  <2> HIDE DEF t
  <2> DEFINE nt == N(t)
             qt == q(t)
  <2>6. nt \in Nat /\ qt \in Int /\ 2 * (x * nt) = qt /\ z <= qt
    BY <1>1, <1>2, <1>5, <2>1, <2>4, <2>5
  <2> HIDE DEF z, q, nt, qt
  <2>7. e * h <= x * nt /\ e * h = (D * e) * x /\ x * nt = nt * x
    <3>1. e * h = (D * e) * x /\ x * nt = nt * x /\ x * nt \in Nat
      BY <1>1, <2>6 DEF h
    <3> QED
      BY <1>7, <2>6, <3>1
  <2>8. (D * e) * x <= nt * x /\ D * e \in Nat
    BY <1>1, <2>7
  <2>9. D * e <= nt
    BY <1>1, <2>6, <2>8, CancelLe
  <2> QED
    BY <2>9 DEF nt, t
<1>19. /\ w \in Nat /\ w < CheckedAmount(fee)
       /\ Net(fee, w) < D * (e + 1)
  BY <1>14, <1>16, <1>17 DEF k, N
<1>20. \A n \in Nat :
          w < n * x /\ n <= MaxIndex(fee) + 1 /\ 2 * (i * (n * x)) <= y =>
             D * e <= Net(fee, n * x)
  BY <1>18 DEF N
<1> QED
  BY <1>8, <1>11, <1>19, <1>20 DEF w, x, y, i, D

LEMMA GrowingFrom ==
    ASSUME NEW fee, Limits(fee), NEW e \in Nat, e < Excluded(fee, CheckedAmount(fee))
    PROVE  \E w \in Nat :
             /\ w < CheckedAmount(fee) /\ Excluded(fee, w) <= e
             /\ AmountsInGrowing(fee, e) = {AmountFrom(fee, w, e)}
             /\ AmountFrom(fee, w, e) <= MAX_AMOUNT =>
                  FEE_DENOMINATOR * e <= Net(fee, AmountFrom(fee, w, e))
<1> DEFINE w == Whole(fee, e)
           c == fee.cliff_fee_numerator
           x == fee.reference_amount
           y == Linear(fee)
           i == Numerator(fee.fee_increment_bps)
           m == MaxIndex(fee)
           M == Numerator(fee.max_fee_bps)
           D == FEE_DENOMINATOR
           z == 2 * e * D * x
           k == CheckedAmount(fee)
           n == w \div x
           p == AmountFrom(fee, w, e)
           f == Excluded(fee, w)
           E == (n + 1) * x
<1>1. /\ c \in Nat /\ x \in Nat \ {0} /\ i \in Nat \ {0} /\ m \in Nat /\ D \in Nat \ {0}
      /\ M \in Nat /\ c + m * i <= M /\ M < D
  <2>1. c \in Nat /\ x \in Nat \ {0} /\ i \in Nat \ {0} /\ m \in Nat /\ M \in Nat
    BY LimiterFields
  <2>2. D \in Nat \ {0} /\ c + m * i <= M /\ M <= MAX_FEE_NUMERATOR
        /\ MAX_FEE_NUMERATOR \in Nat /\ MAX_FEE_NUMERATOR + 9 <= D
    BY GreatestFees
  <2> QED
    BY <2>1, <2>2
<1>2. z \in Nat /\ y * y >= 4 * i * z /\ w \in Nat /\ w < k /\ Net(fee, w) < D * (e + 1)
  BY WholeIs
<1>3. \A j \in Nat : w < j * x /\ j <= m + 1 /\ 2 * (i * (j * x)) <= y => D * e <= Net(fee, j * x)
  BY WholeIs
<1>4. k \in Nat /\ k <= (m + 1) * x /\ MAX_AMOUNT \in Nat
      /\ ((m + 1) * x <= MAX_AMOUNT => k = (m + 1) * x)
  BY CheckedTypes
<1>5. f \in Int /\ f <= e
  <2> HIDE DEF w
  <2>1. f \in Int /\ D * f <= Net(fee, w) /\ Net(fee, w) \in Nat
    <3>1. w <= w
      BY <1>2
    <3> QED
      BY <1>2, <3>1, ExcludedIsNet, NetGrows
  <2> HIDE DEF f, D
  <2>2. f * D < (e + 1) * D
    <3>1. f * D = D * f /\ (e + 1) * D = D * (e + 1) /\ D * f \in Int /\ D * (e + 1) \in Nat
      BY <1>1, <2>1
    <3> QED
      BY <1>2, <2>1, <3>1
  <2>3. f < e + 1
    BY <1>1, <2>1, <2>2, Cancel
  <2> QED
    BY <2>1, <2>3
<1>6. n \in Nat /\ n <= m /\ n * x <= w /\ w < E /\ E \in Nat /\ n * x \in Nat /\ E = n * x + x
  <2> HIDE DEF w, x, m, k
  <2>1. n \in Nat /\ n * x <= w /\ w < n * x + x
    BY <1>1, <1>2, DivBounds
  <2> HIDE DEF n
  <2>2. E = n * x + x /\ n * x \in Nat
    BY <1>1, <2>1
  <2>3. n * x < (m + 1) * x
    <3>1. (m + 1) * x \in Nat
      BY <1>1
    <3> QED
      BY <1>2, <1>4, <2>1, <2>2, <3>1
  <2>4. n < m + 1
    BY <1>1, <2>1, <2>3, Cancel
  <2> QED
    BY <1>1, <2>1, <2>2, <2>4
<1>7. RateAt(fee, w) = c + n * i
  <2>1. Rate(fee, n) = IF n <= m THEN c + n * i ELSE M
    BY DEF Rate
  <2> QED
    BY <1>6, <2>1 DEF RateAt
<1>8. AmountsInGrowing(fee, e) = {p}
  <2> DEFINE step == c + i * n
  <2>1. step = c + n * i /\ step < D
    <3> HIDE DEF c, i, n, M, D, m
    <3>1. n * i <= m * i /\ n * i \in Nat /\ m * i \in Nat /\ i * n = n * i
      BY <1>1, <1>6, Monotone
    <3> QED
      BY <1>1, <3>1
  <2>2. ~ (y * y < 4 * i * z) /\ ~ (e - f < 0) /\ ~ (step >= D)
    <3>1. ~ (y * y < 4 * i * z)
      <4> DEFINE a == y * y
                 b == 4 * i * z
      <4>1. y \in Nat
        BY LinearTypes
      <4>2. a \in Nat /\ b \in Nat /\ a >= b
        BY <1>1, <1>2, <4>1
      <4> HIDE DEF a, b
      <4>3. ~ (a < b)
        BY <4>2
      <4> QED
        BY <4>3 DEF a, b
    <3>2. ~ (e - f < 0)
      <4> HIDE DEF f
      <4> QED
        BY <1>5
    <3>3. ~ (step >= D)
      <4>1. step \in Nat
        <5> HIDE DEF c, i, n
        <5> QED
          BY <1>1, <1>6
      <4> HIDE DEF step, D
      <4> QED
        BY <1>1, <2>1, <4>1
    <3> QED
      BY <3>1, <3>2, <3>3
  <2>3. AmountsInGrowing(fee, e)
          = IF y * y < 4 * i * z \/ e - f < 0 \/ step >= D
            THEN {} ELSE {w + (e - f) + FeeOnTop(e - f, step)}
    BY DEF AmountsInGrowing, Whole, Linear
  <2>4. p = w + (e - f) + FeeOnTop(e - f, step)
    BY <1>7, <2>1 DEF AmountFrom
  <2> HIDE DEF y, z, f, step, p, w, i, D
  <2> QED
    BY <2>2, <2>3, <2>4
<1>9. p \in Nat /\ w <= p
  BY <1>2, <1>5, AmountFromBounds
<1>10. ASSUME p <= MAX_AMOUNT PROVE D * e <= Net(fee, p)
  <2>1. CASE p <= E
    <3>1. w < p => RateAt(fee, p - 1) = RateAt(fee, w)
      <4> SUFFICES ASSUME w < p PROVE RateAt(fee, p - 1) = RateAt(fee, w)
        OBVIOUS
      <4> DEFINE b == p - 1 - n * x
      <4> HIDE DEF p, w, n, x, E
      <4>1. p - 1 \in Nat /\ p - 1 >= n * x /\ p - 1 < n * x + x
        BY <1>1, <1>2, <1>6, <1>9, <2>1
      <4>2. b \in 0 .. x - 1 /\ p - 1 = n * x + b
        BY <1>1, <1>6, <4>1
      <4>3. (p - 1) \div x = n
        <5> HIDE DEF b
        <5> QED
          BY <1>1, <1>6, <4>1, <4>2, DivisionIs
      <4> QED
        BY <4>3 DEF RateAt, n, x
    <3> HIDE DEF w
    <3> QED
      BY <1>2, <1>5, <3>1, AmountFromAlike
  <2>2. CASE E < p
    <3>1. Net(fee, E) <= Net(fee, p) /\ Net(fee, E) \in Nat /\ Net(fee, p) \in Nat
      <4> HIDE DEF E, p
      <4>1. E <= p /\ p <= p
        BY <1>6, <1>9, <2>2
      <4> QED
        BY <1>6, <1>9, <4>1, NetGrows
    <3>2. D * e <= Net(fee, E)
      <4>1. CASE n < m
        <5>1. 2 * (i * E) <= y
          <6>1. y = 2 * D * x + i * x - 2 * c * x
            BY DEF Linear
          <6> DEFINE a == c + (n + 1) * i
          <6>2. a <= M
            <7> HIDE DEF c, n, i, m, M
            <7>1. n + 1 <= m
              BY <1>1, <1>6, <4>1
            <7>2. (n + 1) * i <= m * i /\ (n + 1) * i \in Nat /\ m * i \in Nat
              BY <1>1, <1>6, <7>1, Monotone
            <7> QED
              BY <1>1, <7>2
          <6>3. a \in Nat
            <7> HIDE DEF c, n, i
            <7> QED
              BY <1>1, <1>6
          <6>4. a * x <= D * x
            <7> HIDE DEF a, D, M, x
            <7> QED
              BY <1>1, <6>2, <6>3, Monotone
          <6> HIDE DEF c, n, i, x, D, y
          <6>5. a * x = c * x + i * ((n + 1) * x) /\ c * x \in Nat /\ i * ((n + 1) * x) \in Nat
                /\ D * x \in Nat /\ i * x \in Nat /\ 2 * D * x = 2 * (D * x) /\ 2 * c * x = 2 * (c * x)
            BY <1>1, <1>6
          <6> HIDE DEF a
          <6> QED
            BY <6>1, <6>4, <6>5
        <5>2. n + 1 \in Nat /\ n + 1 <= m + 1
          <6> HIDE DEF n, m
          <6> QED
            BY <1>1, <1>6
        <5>3. w < (n + 1) * x
          BY <1>6
        <5>4. 2 * (i * ((n + 1) * x)) <= y
          BY <5>1
        <5> HIDE DEF w, n, x, i, y, D, m
        <5> QED
          BY <1>3, <5>2, <5>3, <5>4
      <4>2. CASE n = m
        <5>1. E = k
          <6>1. E = (m + 1) * x
            BY <4>2
          <6> HIDE DEF E, p, k
          <6>2. (m + 1) * x <= MAX_AMOUNT
            BY <1>4, <1>6, <1>9, <1>10, <2>2, <6>1
          <6> QED
            BY <1>4, <6>1, <6>2
        <5> DEFINE g == Excluded(fee, k)
                   N == Net(fee, k)
        <5>2. g \in Int /\ D * g <= N /\ e < g
          <6> HIDE DEF k
          <6> QED
            BY <1>4, ExcludedIsNet DEF k
        <5>3. N \in Nat
          BY <3>1, <5>1
        <5> HIDE DEF g, N, D
        <5>4. e * D <= g * D
          BY <1>1, <5>2, Monotone
        <5>5. e * D = D * e /\ g * D = D * g /\ D * e \in Nat /\ D * g \in Int
          BY <1>1, <5>2
        <5>6. D * e <= N
          BY <5>2, <5>3, <5>4, <5>5
        <5> QED
          BY <5>1, <5>6 DEF N
      <4> HIDE DEF n, m
      <4> QED
        BY <1>1, <1>6, <4>1, <4>2
    <3>3. D * e \in Nat
      BY <1>1
    <3> DEFINE a == Net(fee, E)
               b == Net(fee, p)
               de == D * e
    <3> HIDE DEF a, b, de
    <3>4. a \in Nat /\ b \in Nat /\ de \in Nat /\ de <= a /\ a <= b
      BY <3>1, <3>2, <3>3 DEF a, b, de
    <3>5. de <= b
      BY <3>4
    <3> QED
      BY <3>5 DEF b, de
  <2> HIDE DEF p, E
  <2> QED
    BY <1>6, <1>9, <2>1, <2>2
<1>11. /\ w \in Nat /\ w < CheckedAmount(fee) /\ Excluded(fee, w) <= e
       /\ AmountsInGrowing(fee, e) = {AmountFrom(fee, w, e)}
       /\ AmountFrom(fee, w, e) <= MAX_AMOUNT =>
            FEE_DENOMINATOR * e <= Net(fee, AmountFrom(fee, w, e))
  BY <1>2, <1>5, <1>8, <1>10
<1> HIDE DEF w
<1> QED
  BY <1>11

LEMMA BeyondFrom ==
    ASSUME NEW fee, Limits(fee), NEW e \in Nat, e > Excluded(fee, CheckedAmount(fee)),
           (MaxIndex(fee) + 1) * fee.reference_amount <= MAX_AMOUNT
    PROVE  LET k == CheckedAmount(fee)
           IN /\ AmountsInBeyond(fee, e) = {AmountFrom(fee, k, e)}
              /\ FEE_DENOMINATOR * e <= Net(fee, AmountFrom(fee, k, e))
<1> DEFINE x == fee.reference_amount
           m == MaxIndex(fee)
           M == Numerator(fee.max_fee_bps)
           k == CheckedAmount(fee)
           p == AmountFrom(fee, k, e)
           f == Excluded(fee, k)
<1>1. x \in Nat \ {0} /\ m \in Nat
  BY LimiterFields
<1>2. k \in Nat /\ k = (m + 1) * x
  BY CheckedTypes
<1>3. \A t \in Nat : k <= t => RateAt(fee, t) = M
  <2> SUFFICES ASSUME NEW t \in Nat, k <= t PROVE RateAt(fee, t) = M
    OBVIOUS
  <2> DEFINE s == t \div x
  <2>1. s \in Nat /\ m + 1 <= s
    <3> HIDE DEF x, m, k
    <3>1. m + 1 \in Int /\ (m + 1) * x <= t
      BY <1>1, <1>2
    <3> QED
      BY <1>1, <3>1, DivAtLeast, DivBounds
  <2>2. Rate(fee, s) = IF s <= m THEN fee.cliff_fee_numerator
                                      + s * Numerator(fee.fee_increment_bps) ELSE M
    BY DEF Rate
  <2>3. ~ s <= m
    <3> HIDE DEF s, m
    <3> QED
      BY <1>1, <2>1
  <2> QED
    BY <2>2, <2>3 DEF RateAt
<1>4. RateAt(fee, k) = M
  <2>1. k <= k
    BY <1>2
  <2> QED
    BY <1>2, <1>3, <2>1
<1>5. f \in Int /\ f <= e
  <2>1. f \in Int
    BY <1>2, ExcludedIsNet
  <2> HIDE DEF f
  <2> QED
    BY <2>1 DEF f
<1>6. p \in Nat /\ k <= p
  BY <1>2, <1>5, AmountFromBounds
<1>7. k < p => RateAt(fee, p - 1) = RateAt(fee, k)
  <2> SUFFICES ASSUME k < p PROVE RateAt(fee, p - 1) = M
    BY <1>4
  <2> HIDE DEF p, k
  <2>1. p - 1 \in Nat /\ k <= p - 1
    BY <1>2, <1>6
  <2> QED
    BY <1>3, <2>1
<1>8. FEE_DENOMINATOR * e <= Net(fee, p)
  <2> HIDE DEF k
  <2> QED
    BY <1>2, <1>5, <1>7, AmountFromAlike
<1>9. AmountsInBeyond(fee, e) = {p}
  <2>1. AmountsInBeyond(fee, e)
          = IF (m + 1) * x > MAX_AMOUNT THEN {} ELSE {k + (e - f) + FeeOnTop(e - f, M)}
    BY DEF AmountsInBeyond
  <2>2. p = k + (e - f) + FeeOnTop(e - f, M)
    BY <1>4 DEF AmountFrom
  <2>3. ~ ((m + 1) * x > MAX_AMOUNT)
    <3> DEFINE K == (m + 1) * x
    <3>1. K \in Nat /\ MAX_AMOUNT \in Nat /\ K <= MAX_AMOUNT
      BY <1>2, CheckedTypes
    <3> HIDE DEF K
    <3>2. ~ (K > MAX_AMOUNT)
      BY <3>1
    <3> QED
      BY <3>2 DEF K
  <2> HIDE DEF p, f, M
  <2> QED
    BY <2>1, <2>2, <2>3
<1> QED
  BY <1>8, <1>9

\* The amounts in that get_fee_numerator_from_excluded_fee_amount finds.
AmountsIn(fee, excluded) ==
    IF excluded < Excluded(fee, CheckedAmount(fee))
    THEN AmountsInGrowing(fee, excluded) ELSE AmountsInBeyond(fee, excluded)

\* They leave what is asked for, and less than two tokens and a unit more.
LEMMA AmountsInAreNear ==
    ASSUME NEW fee, Limits(fee), NEW e \in Nat, e # Excluded(fee, CheckedAmount(fee)),
           NEW p \in AmountsIn(fee, e), p <= MAX_AMOUNT
    PROVE  /\ p \in Nat /\ e <= p
           /\ FEE_DENOMINATOR * e <= Net(fee, p)
           /\ Net(fee, p) < FEE_DENOMINATOR * (e + 2 + UnitOf(p))
<1> DEFINE k == CheckedAmount(fee)
           most == Excluded(fee, k)
<1>1. k \in Nat /\ k <= MAX_AMOUNT /\ MAX_AMOUNT \in Nat
      /\ (MaxIndex(fee) + 1) * fee.reference_amount \in Nat
  BY CheckedTypes
<1>2. most \in Int
  BY <1>1, ExcludedIsNet
<1>3. \E w \in Nat : /\ Excluded(fee, w) <= e /\ p = AmountFrom(fee, w, e)
                     /\ FEE_DENOMINATOR * e <= Net(fee, p)
  <2>1. CASE e < most
    BY <2>1, GrowingFrom DEF AmountsIn
  <2>2. CASE ~ e < most
    <3>1. e > most
      <4> HIDE DEF most
      <4> QED
        BY <1>2, <2>2 DEF most
    <3>2. (MaxIndex(fee) + 1) * fee.reference_amount <= MAX_AMOUNT
      <4> DEFINE K == (MaxIndex(fee) + 1) * fee.reference_amount
      <4>1. ~ (K > MAX_AMOUNT)
        BY <2>2 DEF AmountsIn, AmountsInBeyond
      <4> HIDE DEF K
      <4>2. K <= MAX_AMOUNT
        BY <1>1, <4>1 DEF K
      <4> QED
        BY <4>2 DEF K
    <3>3. p = AmountFrom(fee, k, e) /\ FEE_DENOMINATOR * e <= Net(fee, AmountFrom(fee, k, e))
      BY <2>2, <3>1, <3>2, BeyondFrom DEF AmountsIn
    <3>4. most <= e
      <4> HIDE DEF most
      <4> QED
        BY <1>2, <3>1 DEF most
    <3> QED
      BY <1>1, <3>3, <3>4
  <2> QED
    BY <2>1, <2>2
<1>4. PICK w \in Nat : /\ Excluded(fee, w) <= e /\ p = AmountFrom(fee, w, e)
                       /\ FEE_DENOMINATOR * e <= Net(fee, p)
  BY <1>3
<1>5. p \in Nat /\ w <= p /\ e <= p /\ Net(fee, p) < FEE_DENOMINATOR * (e + 2 + UnitOf(w))
  BY <1>4, AmountFromBounds
<1>6. Net(fee, p) < FEE_DENOMINATOR * (e + 2 + UnitOf(p))
  <2> DEFINE u == UnitOf(w)
             v == UnitOf(p)
             D == FEE_DENOMINATOR
             n == Net(fee, p)
  <2>1. u \in Nat /\ v \in Nat /\ u <= v /\ D \in Nat \ {0}
    BY <1>5, UnitTypes, UnitGrows, CurveAssumption
  <2>2. n \in Nat
    <3>1. p <= p
      BY <1>5
    <3> QED
      BY <1>5, <3>1, NetGrows
  <2>3. n < D * (e + 2 + u)
    BY <1>5
  <2> HIDE DEF u, v, D, n
  <2>4. (e + 2 + u) * D <= (e + 2 + v) * D
    BY <2>1, Monotone
  <2>5. n < D * (e + 2 + v)
    <3>1. (e + 2 + u) * D = D * (e + 2 + u) /\ (e + 2 + v) * D = D * (e + 2 + v)
          /\ D * (e + 2 + u) \in Nat /\ D * (e + 2 + v) \in Nat
      BY <2>1
    <3> QED
      BY <2>2, <2>3, <2>4, <3>1
  <2> QED
    BY <2>5 DEF v, D, n
<1> QED
  BY <1>4, <1>5, <1>6

\* Up to the last few amounts out, they are found.
LEMMA AmountsInExist ==
    ASSUME NEW fee, Limits(fee), NEW e \in Nat, e # Excluded(fee, CheckedAmount(fee)),
           e + UnitOf(MAX_AMOUNT) + 2 <= Excluded(fee, MAX_AMOUNT)
    PROVE  \E p \in AmountsIn(fee, e) : p <= MAX_AMOUNT
<1> DEFINE k == CheckedAmount(fee)
           most == Excluded(fee, k)
           V == UnitOf(MAX_AMOUNT)
           D == FEE_DENOMINATOR
           X == Excluded(fee, MAX_AMOUNT)
           NM == Net(fee, MAX_AMOUNT)
<1>1. k \in Nat /\ k <= MAX_AMOUNT /\ MAX_AMOUNT \in Nat
  BY CheckedTypes
<1>2. most \in Int /\ X \in Int /\ D * X <= NM /\ V \in Nat /\ D \in Nat \ {0}
  BY <1>1, ExcludedIsNet, UnitTypes, CurveAssumption
<1>3. \E w \in Nat : /\ w <= k /\ Excluded(fee, w) <= e
                     /\ AmountFrom(fee, w, e) \in AmountsIn(fee, e)
  <2>1. CASE e < most
    <3>1. PICK w \in Nat : /\ w < k /\ Excluded(fee, w) <= e
                           /\ AmountsInGrowing(fee, e) = {AmountFrom(fee, w, e)}
      BY <2>1, GrowingFrom
    <3>2. w <= k
      BY <1>1, <3>1
    <3> QED
      BY <2>1, <3>1, <3>2 DEF AmountsIn
  <2>2. CASE ~ e < most
    <3>1. e > most /\ most <= e
      <4> HIDE DEF most
      <4> QED
        BY <1>2, <2>2 DEF most
    <3>2. (MaxIndex(fee) + 1) * fee.reference_amount <= MAX_AMOUNT
      <4> DEFINE K == (MaxIndex(fee) + 1) * fee.reference_amount
      <4>1. K \in Nat /\ (K > MAX_AMOUNT => k = MAX_AMOUNT)
        BY CheckedTypes
      <4> HIDE DEF K
      <4>2. K <= MAX_AMOUNT
        <5> SUFFICES ASSUME k = MAX_AMOUNT PROVE FALSE
          BY <1>1, <4>1
        <5>1. most = X
          OBVIOUS
        <5>2. e + V + 2 <= X
          OBVIOUS
        <5> HIDE DEF most, X, V
        <5> QED
          BY <1>2, <3>1, <5>1, <5>2
      <4> QED
        BY <4>2 DEF K
    <3>3. AmountsInBeyond(fee, e) = {AmountFrom(fee, k, e)}
      BY <3>1, <3>2, BeyondFrom
    <3>4. k <= k
      BY <1>1
    <3> QED
      BY <1>1, <2>2, <3>1, <3>3, <3>4 DEF AmountsIn
  <2> QED
    BY <2>1, <2>2
<1>4. PICK w \in Nat : /\ w <= k /\ Excluded(fee, w) <= e
                       /\ AmountFrom(fee, w, e) \in AmountsIn(fee, e)
  BY <1>3
<1> DEFINE p == AmountFrom(fee, w, e)
           u == UnitOf(w)
           np == Net(fee, p)
<1>5. p \in Nat /\ np < D * (e + 2 + u)
  BY <1>4, AmountFromBounds
<1>6. u \in Nat /\ u <= V
  <2>1. w <= MAX_AMOUNT
    BY <1>1, <1>4
  <2> QED
    BY <1>1, <2>1, UnitTypes, UnitGrows
<1>7. p <= MAX_AMOUNT
  <2> SUFFICES ASSUME ~ p <= MAX_AMOUNT PROVE FALSE
    OBVIOUS
  <2>1. NM <= np /\ NM \in Nat /\ np \in Nat
    <3> HIDE DEF p
    <3>1. MAX_AMOUNT <= p /\ p <= p
      BY <1>1, <1>5
    <3> QED
      BY <1>1, <1>5, <3>1, NetGrows
  <2>2. e + 2 + u <= X
    <3>1. e + V + 2 <= X
      OBVIOUS
    <3> HIDE DEF X, V, u
    <3> QED
      BY <1>2, <1>6, <3>1
  <2> HIDE DEF p, u, np, D, X, NM
  <2>3. (e + 2 + u) * D <= X * D
    BY <1>2, <1>6, <2>2, Monotone
  <2>4. (e + 2 + u) * D = D * (e + 2 + u) /\ X * D = D * X
        /\ D * (e + 2 + u) \in Nat /\ D * X \in Int
    BY <1>2, <1>6
  <2> QED
    BY <1>2, <1>5, <2>1, <2>3, <2>4
<1> QED
  BY <1>4, <1>7

-----------------------------------------------------------------------------
(* Fees within an amount and on top of one.                                *)

LEMMA FeeWithinIs ==
    ASSUME NEW t \in Nat, NEW n \in Nat
    PROVE  /\ FeeWithin(t, n) \in Nat
           /\ t * n <= FeeWithin(t, n) * FEE_DENOMINATOR
           /\ FeeWithin(t, n) * FEE_DENOMINATOR < t * n + FEE_DENOMINATOR
<1>1. t * n \in Nat /\ FEE_DENOMINATOR \in Nat \ {0}
  BY CurveAssumption
<1> DEFINE a == t * n
<1> HIDE DEF a
<1>2. /\ CeilDiv(a, FEE_DENOMINATOR) \in Nat
      /\ a <= CeilDiv(a, FEE_DENOMINATOR) * FEE_DENOMINATOR
      /\ CeilDiv(a, FEE_DENOMINATOR) * FEE_DENOMINATOR < a + FEE_DENOMINATOR
  BY <1>1, CeilBounds DEF a
<1> QED
  BY <1>2 DEF FeeWithin, MulDiv, a

LEMMA FeeWithinGrows ==
    ASSUME NEW t \in Nat, NEW m \in Nat, NEW n \in Nat, m <= n
    PROVE  FeeWithin(t, m) <= FeeWithin(t, n)
<1> DEFINE f == FeeWithin(t, n)
           D == FEE_DENOMINATOR
           a == t * m
<1>1. f \in Nat /\ t * n <= f * D /\ D \in Nat \ {0}
  BY FeeWithinIs, CurveAssumption
<1> HIDE DEF f, D
<1>2. m * t <= n * t /\ m * t = a /\ n * t = t * n /\ a \in Nat /\ t * n \in Nat
  BY Monotone
<1>3. f * D \in Nat
  BY <1>1
<1> HIDE DEF a
<1>4. a <= f * D
  BY <1>1, <1>2, <1>3
<1>5. CeilDiv(a, D) <= f
  BY <1>1, <1>2, <1>4, CeilAtMost
<1> QED
  BY <1>5 DEF FeeWithin, MulDiv, f, D, a

\* An amount with a fee on top: the same fee within it is that fee.
LEMMA PaidIs ==
    ASSUME NEW e \in Nat, NEW n \in Nat, n < FEE_DENOMINATOR
    PROVE  LET paid == e + FeeOnTop(e, n)
               G == FEE_DENOMINATOR - n
           IN /\ paid \in Nat /\ e <= paid
              /\ FeeOnTop(e, n) = paid - e
              /\ e * FEE_DENOMINATOR <= paid * G
              /\ paid * G < e * FEE_DENOMINATOR + G
              /\ FeeWithin(paid, n) = paid - e
<1> DEFINE D == FEE_DENOMINATOR
           G == D - n
           d == CeilDiv(e * D, G)
           paid == e + FeeOnTop(e, n)
<1>1. D \in Nat \ {0} /\ G \in Nat \ {0} /\ e * D \in Nat /\ G <= D
  BY CurveAssumption
<1>2. d \in Nat /\ e * D <= d * G /\ d * G < e * D + G
  <2> HIDE DEF D, G
  <2> QED
    BY <1>1, CeilBounds
<1>3. FeeOnTop(e, n) = d - e
  BY DEF FeeOnTop, MulDiv
<1>4. paid = d
  <2> HIDE DEF d
  <2> QED
    BY <1>2, <1>3
<1>5. n = D - G
  BY <1>1
<1> HIDE DEF D, G, d, paid
<1>6. e <= d
  <2>1. G * d <= D * d
    BY <1>1, <1>2, Monotone
  <2>2. G * d = d * G /\ D * d = d * D /\ d * D \in Nat /\ d * G \in Nat
    BY <1>1, <1>2
  <2>3. e * D <= d * D
    BY <1>1, <1>2, <2>1, <2>2
  <2> QED
    BY <1>1, <1>2, <2>3, CancelLe
<1>7. FeeWithin(d, n) = d - e
  <2>1. d * n = d * D - d * G /\ (d - e) * D = d * D - e * D
        /\ d * D \in Nat /\ d * G \in Nat /\ d * n \in Nat
    BY <1>1, <1>2, <1>5
  <2>2. d * n <= (d - e) * D /\ (d - e) * D < d * n + D
    BY <1>1, <1>2, <2>1
  <2>3. CeilDiv(d * n, D) = d - e
    <3> DEFINE a == d * n
    <3>1. d - e \in Int
      BY <1>2
    <3> HIDE DEF a
    <3> QED
      BY <1>1, <2>1, <2>2, <3>1, CeilIs DEF a
  <2> QED
    BY <2>3 DEF FeeWithin, MulDiv, D
<1> QED
  BY <1>2, <1>3, <1>4, <1>6, <1>7 DEF D, G, paid

LEMMA NumeratorCharges ==
    ASSUME NEW fee, Limits(fee), NEW t \in Nat \ {0}
    PROVE  /\ LimiterNumerator(fee, t) \in Nat
           /\ Charged(fee, t) <= LimiterNumerator(fee, t) * t
           /\ LimiterNumerator(fee, t) * t < Charged(fee, t) + FEE_DENOMINATOR + t
<1> DEFINE n == LimiterNumerator(fee, t)
           S == Charged(fee, t)
           D == FEE_DENOMINATOR
           k == CeilDiv(S, D)
<1>1. n \in Nat /\ S \in Nat /\ D \in Nat \ {0} /\ fee.reference_amount \in Nat
  BY LimiterAtLeastCliff, ChargedTypes, CurveAssumption, LimiterFields
<1>2. CASE t <= fee.reference_amount
  <2>1. S = t * n
    BY <1>2, NumeratorOfCharged
  <2> HIDE DEF n, S, D
  <2>2. t * n = n * t /\ n * t \in Nat
    BY <1>1
  <2>3. S <= n * t /\ n * t < S + D + t
    BY <1>1, <2>1, <2>2
  <2> QED
    BY <1>1, <2>3 DEF n, S, D
<1>3. CASE t > fee.reference_amount
  <2>1. n = CeilDiv(k * D, t)
    BY <1>3, NumeratorOfCharged
  <2>2. k \in Nat /\ S <= k * D /\ k * D < S + D
    BY <1>1, CeilBounds
  <2> HIDE DEF n, S, D, k
  <2>3. k * D \in Nat
    BY <1>1, <2>2
  <2>4. k * D <= n * t /\ n * t < k * D + t
    <3> DEFINE a == k * D
    <3> HIDE DEF a
    <3> QED
      BY <2>1, <2>3, CeilBounds DEF a
  <2>5. n * t \in Nat
    BY <1>1
  <2>6. S <= n * t /\ n * t < S + D + t
    BY <1>1, <2>2, <2>3, <2>4, <2>5
  <2> QED
    BY <1>1, <2>6 DEF n, S, D
<1> QED
  BY <1>1, <1>2, <1>3

\* Amounts that leave nearly the same have nearly the same units.
LEMMA UnitsNear ==
    ASSUME NEW fee, Limits(fee), NEW s \in Nat \ {0}, NEW t \in Nat,
           Net(fee, t) < Net(fee, s) + FEE_DENOMINATOR * (2 + UnitOf(t))
    PROVE  UnitOf(t) <= 2 * UnitOf(s)
<1> DEFINE D == FEE_DENOMINATOR
           u == UnitOf(s)
           v == UnitOf(t)
           g == D - Numerator(fee.max_fee_bps)
           a == Net(fee, s)
           b == Net(fee, t)
<1>1. D \in Nat \ {0} /\ g \in Nat /\ 9 <= g
  <2>1. D \in Nat \ {0} /\ Numerator(fee.max_fee_bps) <= MAX_FEE_NUMERATOR
        /\ MAX_FEE_NUMERATOR \in Nat /\ MAX_FEE_NUMERATOR + 9 <= D
    BY GreatestFees
  <2>2. Numerator(fee.max_fee_bps) \in Nat
    BY LimiterFields
  <2> QED
    BY <2>1, <2>2
<1>2. u \in Nat /\ s <= u * D /\ u >= 1
  BY UnitTypes
<1>3. v \in Nat /\ v * D < t + D
  BY UnitTypes
<1>4. CASE t <= s
  <2>1. v <= u
    BY <1>4, UnitGrows
  <2> HIDE DEF u, v
  <2>2. v <= 2 * u
    BY <1>2, <1>3, <2>1
  <2> QED
    BY <2>2 DEF u, v
<1>5. CASE s < t
  <2>1. a + (t - s) * g <= b /\ a \in Nat /\ b \in Nat
    <3>1. s \in Nat /\ s <= t /\ t <= t
      BY <1>5
    <3> QED
      BY <3>1, NetGrows
  <2>2. b < a + D * (2 + v)
    OBVIOUS
  <2> HIDE DEF D, u, v, g, a, b
  <2>3. 9 * (t - s) <= (t - s) * g
    <3>1. t - s \in Nat
      BY <1>5
    <3>2. 9 * (t - s) <= g * (t - s)
      BY <1>1, <3>1, Monotone
    <3> QED
      BY <1>1, <3>1, <3>2
  <2>4. (t - s) * g \in Int /\ D * (2 + v) = 2 * D + v * D /\ v * D \in Nat /\ u * D \in Nat
    BY <1>1, <1>2, <1>3
  <2>5. 8 * (v * D) < 9 * (u * D) + 11 * D
    BY <1>1, <1>2, <1>3, <2>1, <2>2, <2>3, <2>4
  <2>6. (8 * v) * D < (9 * u + 11) * D
    <3>1. (8 * v) * D = 8 * (v * D) /\ (9 * u + 11) * D = 9 * (u * D) + 11 * D
      BY <1>1, <1>2, <1>3
    <3> QED
      BY <2>5, <3>1
  <2>7. 8 * v < 9 * u + 11
    BY <1>1, <1>2, <1>3, <2>6, Cancel
  <2>8. v <= 2 * u
    BY <1>2, <1>3, <2>7
  <2> QED
    BY <2>8 DEF u, v
<1> QED
  BY <1>4, <1>5

\* An amount that leaves enough: the closed form leaves at most a unit less.
LEMMA NotLess ==
    ASSUME NEW fee, Limits(fee), NEW e \in Nat, NEW t \in Nat,
           FEE_DENOMINATOR * e <= Net(fee, t)
    PROVE  e - UnitOf(t) <= Excluded(fee, t)
<1> DEFINE D == FEE_DENOMINATOR
           u == UnitOf(t)
           f == Excluded(fee, t)
           n == Net(fee, t)
<1>1. D \in Nat \ {0} /\ u \in Nat /\ f \in Int /\ n < D * (f + 1 + u)
  BY CurveAssumption, UnitTypes, ExcludedIsNet
<1>2. n \in Nat /\ D * e <= n
  <2>1. t <= t
    OBVIOUS
  <2> QED
    BY <2>1, NetGrows
<1> HIDE DEF D, u, f, n
<1>3. e * D < (f + 1 + u) * D
  <2>1. e * D = D * e /\ (f + 1 + u) * D = D * (f + 1 + u) /\ D * e \in Nat
        /\ D * (f + 1 + u) \in Int
    BY <1>1
  <2> QED
    BY <1>1, <1>2, <2>1
<1>4. e < f + 1 + u
  <2>1. f + 1 + u \in Int
    BY <1>1
  <2> QED
    BY <1>1, <1>3, <2>1, Cancel
<1>5. e - u <= f
  BY <1>1, <1>4
<1> QED
  BY <1>5 DEF u, f

\* An amount that leaves little: the closed form leaves no more.
LEMMA NotMore ==
    ASSUME NEW fee, Limits(fee), NEW e \in Nat, NEW t \in Nat, NEW more \in Nat,
           Net(fee, t) < FEE_DENOMINATOR * (e + more + 1)
    PROVE  Excluded(fee, t) <= e + more
<1> DEFINE D == FEE_DENOMINATOR
           f == Excluded(fee, t)
           n == Net(fee, t)
<1>1. D \in Nat \ {0} /\ f \in Int /\ D * f <= n
  BY CurveAssumption, ExcludedIsNet
<1>2. n \in Nat /\ n < D * (e + more + 1)
  <2>1. t <= t
    OBVIOUS
  <2> QED
    BY <2>1, NetGrows
<1> HIDE DEF D, f, n
<1>3. f * D < (e + more + 1) * D
  <2>1. f * D = D * f /\ (e + more + 1) * D = D * (e + more + 1) /\ D * f \in Int
        /\ D * (e + more + 1) \in Nat
    BY <1>1
  <2> QED
    BY <1>1, <1>2, <2>1
<1>4. f < e + more + 1
  <2>1. e + more + 1 \in Int
    OBVIOUS
  <2> QED
    BY <1>1, <1>3, <2>1, Cancel
<1>5. f <= e + more
  BY <1>1, <1>4
<1> QED
  BY <1>5 DEF f

\* Less than an amount that leaves nearly what is asked for.
LEMMA UpToNear ==
    ASSUME NEW fee, Limits(fee), NEW e \in Nat, NEW t \in Nat \ {0}, NEW p \in Nat, t <= p,
           FEE_DENOMINATOR * e <= Net(fee, t),
           Net(fee, p) < FEE_DENOMINATOR * (e + 2 + UnitOf(p))
    PROVE  Net(fee, t) < FEE_DENOMINATOR * (e + Rounding(t) + 1)
<1> DEFINE D == FEE_DENOMINATOR
           u == UnitOf(t)
           v == UnitOf(p)
           a == Net(fee, t)
           b == Net(fee, p)
<1>1. D \in Nat \ {0} /\ u \in Nat /\ u >= 1 /\ v \in Nat
  BY CurveAssumption, UnitTypes
<1>2. a \in Nat /\ b \in Nat /\ a <= b
  <2>1. t \in Nat /\ p <= p
    OBVIOUS
  <2> QED
    BY <2>1, NetGrows
<1>3. D * e <= a /\ b < D * (e + 2 + v)
  OBVIOUS
<1>4. b < a + D * (2 + v)
  <2> HIDE DEF D, v, a, b
  <2>1. D * (e + 2 + v) = D * e + D * (2 + v) /\ D * e \in Nat /\ D * (2 + v) \in Nat
    BY <1>1
  <2> QED
    BY <1>2, <1>3, <2>1
<1>5. v <= 2 * u
  BY <1>4, UnitsNear
<1> HIDE DEF D, u, v, a, b
<1>6. (e + 2 + v) * D <= (e + 4 * u + 1) * D
  <2>1. e + 2 + v <= e + 4 * u + 1 /\ e + 2 + v \in Int /\ e + 4 * u + 1 \in Int
    BY <1>1, <1>5
  <2> QED
    BY <1>1, <2>1, Monotone
<1>7. (e + 2 + v) * D = D * (e + 2 + v) /\ (e + 4 * u + 1) * D = D * (e + 4 * u + 1)
      /\ D * (e + 2 + v) \in Nat /\ D * (e + 4 * u + 1) \in Nat
  BY <1>1
<1>8. a < D * (e + 4 * u + 1)
  BY <1>2, <1>3, <1>6, <1>7
<1>9. Rounding(t) = 4 * u
  BY DEF Rounding, u
<1> QED
  BY <1>8, <1>9 DEF D, a

-----------------------------------------------------------------------------
(* The numerator for an amount out.                                        *)

\* The numerator found for an amount in.
FoundFor(p, excluded) == MulDiv(p - excluded, FEE_DENOMINATOR, p, "Up")

LEMMA FoundForIs ==
    ASSUME NEW fee, Limits(fee), NEW e \in Nat, NEW p \in Nat \ {0}, e <= p,
           FEE_DENOMINATOR * e <= Net(fee, p)
    PROVE  LET n == FoundFor(p, e)
           IN /\ n \in Nat /\ fee.cliff_fee_numerator <= n
              /\ p * FEE_DENOMINATOR - e * FEE_DENOMINATOR <= n * p
              /\ n * p < p * FEE_DENOMINATOR - e * FEE_DENOMINATOR + p
<1> DEFINE D == FEE_DENOMINATOR
           c == fee.cliff_fee_numerator
           S == Charged(fee, p)
           a == (p - e) * D
           n == CeilDiv(a, p)
<1>1. D \in Nat \ {0} /\ c \in Nat /\ S \in Nat /\ S >= p * c
  BY CurveAssumption, LimiterFields, ChargedTypes
<1>2. FoundFor(p, e) = n
  BY DEF FoundFor, MulDiv
<1>3. D * e <= D * p - S
  BY DEF Net
<1> HIDE DEF D, c, S
<1>4. a = p * D - e * D /\ a \in Nat
  <2>1. p - e \in Nat
    OBVIOUS
  <2> QED
    BY <1>1, <2>1
<1> HIDE DEF a
<1>5. n \in Nat /\ a <= n * p /\ n * p < a + p
  BY <1>4, CeilBounds
<1> HIDE DEF n
<1>6. c <= n
  <2>1. c * p <= n * p
    <3>1. c * p = p * c /\ p * c \in Nat /\ n * p \in Nat /\ D * e = e * D /\ D * p = p * D
          /\ e * D \in Nat /\ p * D \in Nat
      BY <1>1, <1>5
    <3> QED
      BY <1>1, <1>3, <1>4, <1>5, <3>1
  <2> QED
    BY <1>1, <1>5, <2>1, CancelLe
<1> QED
  BY <1>2, <1>4, <1>5, <1>6 DEF D, c

\* Where a numerator for an amount out comes from: it is the cliff fee, or it
\* was found for an amount p in that leaves nearly what is asked for, or it
\* is that of the amount p at which the fee stops growing.
Found(fee, e, n, p) ==
    /\ FEE_DENOMINATOR * e <= Net(fee, p)
    /\ p * FEE_DENOMINATOR - e * FEE_DENOMINATOR <= n * p
    /\ n * p < p * FEE_DENOMINATOR - e * FEE_DENOMINATOR + p

Charges(fee, e, n, p) ==
    /\ n * p <= p * FEE_DENOMINATOR - e * FEE_DENOMINATOR
    /\ Charged(fee, p) <= n * p

Near(fee, e, n, p) ==
    /\ p # 0 /\ e <= p
    /\ Net(fee, p) < FEE_DENOMINATOR * (e + 2 + UnitOf(p))
    /\ n * p < Charged(fee, p) + FEE_DENOMINATOR * (2 + UnitOf(p)) + p
    /\ Found(fee, e, n, p) \/ Charges(fee, e, n, p)

LEMMA FirstExcluded ==
    ASSUME NEW fee, Limits(fee)
    PROVE  LET f == Excluded(fee, fee.reference_amount)
           IN /\ f \in Nat
              /\ f * FEE_DENOMINATOR
                   <= fee.reference_amount * (FEE_DENOMINATOR - fee.cliff_fee_numerator)
<1> DEFINE c == fee.cliff_fee_numerator
           x == fee.reference_amount
           D == FEE_DENOMINATOR
           g == FeeWithin(x, c)
           f == Excluded(fee, x)
<1>1. c \in Nat /\ x \in Nat \ {0} /\ D \in Nat \ {0} /\ c <= D
  <2>1. c \in Nat /\ x \in Nat \ {0} /\ Numerator(fee.max_fee_bps) \in Nat
        /\ c <= Numerator(fee.max_fee_bps)
    BY LimiterFields
  <2>2. D \in Nat \ {0} /\ Numerator(fee.max_fee_bps) <= MAX_FEE_NUMERATOR
        /\ MAX_FEE_NUMERATOR \in Nat /\ MAX_FEE_NUMERATOR + 9 <= D
    BY GreatestFees
  <2> QED
    BY <2>1, <2>2
<1>2. f = x - g
  <2>1. x <= x
    BY <1>1
  <2>2. LimiterNumerator(fee, x) = c
    BY <1>1, <2>1, NumeratorOfCharged
  <2> QED
    BY <2>2 DEF Excluded
<1>3. g \in Nat /\ x * c <= g * D /\ g * D < x * c + D
  BY <1>1, FeeWithinIs
<1> HIDE DEF c, x, D, g, f
<1>4. g <= x
  <2>1. c * x <= D * x
    BY <1>1, Monotone
  <2>2. g * D < (x + 1) * D
    <3>1. c * x = x * c /\ (x + 1) * D = D * x + D /\ x * c \in Nat /\ D * x \in Nat
          /\ g * D \in Nat
      BY <1>1, <1>3
    <3> QED
      BY <1>1, <1>3, <2>1, <3>1
  <2>3. g < x + 1
    BY <1>1, <1>3, <2>2, Cancel
  <2> QED
    BY <1>1, <1>3, <2>3
<1>5. f \in Nat /\ f * D <= x * (D - c)
  <2>1. f * D = x * D - g * D /\ x * (D - c) = x * D - x * c
        /\ x * D \in Nat /\ g * D \in Nat /\ x * c \in Nat
    BY <1>1, <1>2, <1>3
  <2>2. f \in Nat
    BY <1>1, <1>2, <1>3, <1>4
  <2> QED
    BY <1>3, <2>1, <2>2
<1> QED
  BY <1>5 DEF c, x, D, f

LEMMA NumeratorsFound ==
    ASSUME NEW fee, Limits(fee), NEW e \in Nat, NEW n \in NumeratorsForOutput(fee, e)
    PROVE  /\ n \in Nat /\ fee.cliff_fee_numerator <= n
           /\ \/ n = fee.cliff_fee_numerator /\ e <= Excluded(fee, fee.reference_amount)
              \/ \E p \in Nat : Near(fee, e, n, p)
<1> DEFINE k == CheckedAmount(fee)
           c == fee.cliff_fee_numerator
           D == FEE_DENOMINATOR
           most == Excluded(fee, k)
           first == Excluded(fee, fee.reference_amount)
           found == {FoundFor(amount, e) : amount \in {a \in AmountsIn(fee, e) : a <= MAX_AMOUNT}}
<1>1. NumeratorsForOutput(fee, e)
        = IF e <= first THEN {c}
          ELSE IF e = most THEN {LimiterNumerator(fee, k)}
          ELSE {m \in found : m >= c}
  BY DEF NumeratorsForOutput, AmountsIn, FoundFor
<1>2. c \in Nat /\ D \in Nat \ {0} /\ k \in Nat
  BY LimiterFields, CurveAssumption, CheckedTypes
<1>3. first \in Nat
  BY FirstExcluded
<1>4. CASE e <= first
  <2>1. n = c
    BY <1>1, <1>4
  <2>2. c <= c
    BY <1>2
  <2> QED
    BY <1>2, <1>4, <2>1, <2>2
<1>5. CASE ~ e <= first /\ e = most
  <2>1. n = LimiterNumerator(fee, k)
    BY <1>1, <1>5
  <2>2. e # 0
    <3> HIDE DEF first
    <3> QED
      BY <1>3, <1>5
  <2> DEFINE N == Net(fee, k)
             S == Charged(fee, k)
             u == UnitOf(k)
             f == FeeWithin(k, n)
  <2>3. D * e <= N /\ N < D * (e + 1 + u) /\ u \in Nat /\ N \in Nat
    <3>1. k <= k
      BY <1>2
    <3>2. N \in Nat
      <4> HIDE DEF k
      <4> QED
        BY <1>2, <3>1, NetGrows
    <3>3. u \in Nat
      BY <1>2, UnitTypes
    <3> QED
      BY <1>2, <1>5, <3>2, <3>3, ExcludedIsNet
  <2>4. N = D * k - S /\ S \in Nat
    BY <1>2, ChargedTypes DEF Net
  <2>5. k # 0
    <3> SUFFICES ASSUME k = 0 PROVE FALSE
      OBVIOUS
    <3>1. D * k = 0
      BY <1>2
    <3> HIDE DEF k, S, N, D
    <3>2. D * e > 0
      <4>1. 1 * D <= e * D
        <5>1. 1 <= e
          BY <2>2
        <5> QED
          BY <1>2, <5>1, Monotone
      <4>2. e * D = D * e /\ 1 * D = D /\ D * e \in Nat
        BY <1>2
      <4> QED
        BY <1>2, <4>1, <4>2
    <3>3. D * e \in Nat
      BY <1>2
    <3> QED
      BY <2>3, <2>4, <3>1, <3>2, <3>3
  <2>6. n \in Nat /\ S <= n * k /\ n * k < S + D + k /\ c <= n
    <3>1. k \in Nat \ {0}
      BY <1>2, <2>5
    <3> HIDE DEF k
    <3> QED
      BY <2>1, <3>1, NumeratorCharges, LimiterAtLeastCliff DEF k
  <2>7. e = k - f
    BY <1>5, <2>1 DEF Excluded
  <2>8. f \in Nat /\ k * n <= f * D
    <3> HIDE DEF k
    <3> QED
      BY <1>2, <2>6, FeeWithinIs
  <2>9. n * k <= k * D - e * D
    <3> HIDE DEF k, f, D
    <3>1. f = k - e
      BY <1>2, <2>7, <2>8
    <3>2. f * D = k * D - e * D /\ n * k = k * n
      BY <1>2, <2>6, <3>1
    <3> QED
      BY <2>8, <3>2
  <2>10. e <= k
    <3> HIDE DEF k, f
    <3> QED
      BY <1>2, <2>7, <2>8
  <2>11. N < D * (e + 2 + u) /\ n * k < S + D * (2 + u) + k
    <3> HIDE DEF N, D, u, k, S
    <3>1. D * (e + 2 + u) = D * (e + 1 + u) + D /\ D * (2 + u) = 2 * D + D * u
          /\ D * (e + 1 + u) \in Nat /\ D * u \in Nat /\ n * k \in Nat
      BY <1>2, <2>3, <2>6
    <3> QED
      BY <1>2, <2>3, <2>4, <2>6, <3>1
  <2>12. Near(fee, e, n, k)
    BY <2>5, <2>6, <2>9, <2>10, <2>11 DEF Near, Charges
  <2> QED
    BY <1>2, <2>6, <2>12
<1>6. CASE ~ e <= first /\ e # most
  <2>1. n \in found
    BY <1>1, <1>6
  <2>2. PICK p \in AmountsIn(fee, e) : p <= MAX_AMOUNT /\ n = FoundFor(p, e)
    BY <2>1
  <2>3. p \in Nat /\ e <= p /\ D * e <= Net(fee, p) /\ Net(fee, p) < D * (e + 2 + UnitOf(p))
    BY <1>6, <2>2, AmountsInAreNear
  <2>4. p # 0
    <3> HIDE DEF first
    <3> QED
      BY <1>3, <1>6, <2>3
  <2>5. n \in Nat /\ c <= n /\ p * D - e * D <= n * p /\ n * p < p * D - e * D + p
    BY <2>2, <2>3, <2>4, FoundForIs
  <2>6. n * p < Charged(fee, p) + D * (2 + UnitOf(p)) + p
    <3> DEFINE N == Net(fee, p)
               S == Charged(fee, p)
               u == UnitOf(p)
    <3>1. N = D * p - S /\ S \in Nat /\ u \in Nat
      BY <2>3, ChargedTypes, UnitTypes DEF Net
    <3>2. N < D * (e + 2 + u)
      BY <2>3
    <3> HIDE DEF N, S, u, D
    <3>3. D * (e + 2 + u) = e * D + D * (2 + u) /\ p * D = D * p /\ D * (2 + u) \in Nat
          /\ e * D \in Nat /\ D * p \in Nat /\ n * p \in Nat
      BY <1>2, <2>3, <2>5, <3>1
    <3>4. n * p < S + D * (2 + u) + p
      BY <2>3, <2>5, <3>1, <3>2, <3>3
    <3> QED
      BY <3>4 DEF S, u
  <2>7. Near(fee, e, n, p)
    BY <2>3, <2>4, <2>5, <2>6 DEF Near, Found
  <2> QED
    BY <2>3, <2>5, <2>7
<1> QED
  BY <1>4, <1>5, <1>6

\* There is at most one, and one for all amounts but the last few.
LEMMA NumeratorsAgree ==
    ASSUME NEW fee, NEW e, NEW m \in NumeratorsForOutput(fee, e),
           NEW n \in NumeratorsForOutput(fee, e)
    PROVE  m = n
<1> DEFINE first == Excluded(fee, fee.reference_amount)
           most == Excluded(fee, CheckedAmount(fee))
           found == {FoundFor(amount, e) : amount \in {a \in AmountsIn(fee, e) : a <= MAX_AMOUNT}}
<1>1. NumeratorsForOutput(fee, e)
        = IF e <= first THEN {fee.cliff_fee_numerator}
          ELSE IF e = most THEN {LimiterNumerator(fee, CheckedAmount(fee))}
          ELSE {l \in found : l >= fee.cliff_fee_numerator}
  BY DEF NumeratorsForOutput, AmountsIn, FoundFor
<1>2. \A a, b \in AmountsInGrowing(fee, e) : a = b
  <2>1. \E P, v : AmountsInGrowing(fee, e) = IF P THEN {} ELSE {v}
    BY DEF AmountsInGrowing
  <2> QED
    BY <2>1
<1>3. \A a, b \in AmountsInBeyond(fee, e) : a = b
  <2>1. \E P, v : AmountsInBeyond(fee, e) = IF P THEN {} ELSE {v}
    BY DEF AmountsInBeyond
  <2> QED
    BY <2>1
<1>4. \A a, b \in AmountsIn(fee, e) : a = b
  BY <1>2, <1>3 DEF AmountsIn
<1>5. \A a, b \in found : a = b
  BY <1>4
<1> HIDE DEF first, most, found
<1>6. CASE e <= first
  BY <1>1, <1>6
<1>7. CASE ~ e <= first /\ e = most
  BY <1>1, <1>7
<1>8. CASE ~ e <= first /\ e # most
  BY <1>1, <1>5, <1>8
<1> QED
  BY <1>6, <1>7, <1>8

LEMMA NumeratorsExist ==
    ASSUME NEW fee, Limits(fee), NEW e \in Nat,
           e + UnitOf(MAX_AMOUNT) + 2 <= Excluded(fee, MAX_AMOUNT)
    PROVE  NumeratorsForOutput(fee, e) # {}
<1> DEFINE k == CheckedAmount(fee)
           c == fee.cliff_fee_numerator
           most == Excluded(fee, k)
           first == Excluded(fee, fee.reference_amount)
           found == {FoundFor(amount, e) : amount \in {a \in AmountsIn(fee, e) : a <= MAX_AMOUNT}}
<1>1. NumeratorsForOutput(fee, e)
        = IF e <= first THEN {c}
          ELSE IF e = most THEN {LimiterNumerator(fee, k)}
          ELSE {m \in found : m >= c}
  BY DEF NumeratorsForOutput, AmountsIn, FoundFor
<1>2. CASE e <= first
  BY <1>1, <1>2
<1>3. CASE ~ e <= first /\ e = most
  BY <1>1, <1>3
<1>4. CASE ~ e <= first /\ e # most
  <2>1. PICK p \in AmountsIn(fee, e) : p <= MAX_AMOUNT
    BY <1>4, AmountsInExist
  <2>2. p \in Nat /\ e <= p /\ FEE_DENOMINATOR * e <= Net(fee, p)
    BY <1>4, <2>1, AmountsInAreNear
  <2>3. p # 0
    <3>1. first \in Nat
      BY FirstExcluded
    <3> HIDE DEF first
    <3> QED
      BY <1>4, <2>2, <3>1
  <2> DEFINE n == FoundFor(p, e)
  <2>4. n \in Nat /\ c <= n
    BY <2>2, <2>3, FoundForIs
  <2>5. n >= c
    <3>1. c \in Nat
      BY LimiterFields
    <3> HIDE DEF n, c
    <3> QED
      BY <2>4, <3>1
  <2>6. n \in found
    BY <2>1
  <2> HIDE DEF n, found
  <2>7. n \in NumeratorsForOutput(fee, e)
    BY <1>1, <1>4, <2>5, <2>6
  <2> QED
    BY <2>7
<1> QED
  BY <1>2, <1>3, <1>4

\* What more can be left of an amount that is greater than the one found by
\* what the rounding of the numerator is of that one.
LEMMA StepUp ==
    ASSUME NEW D \in Nat \ {0}, NEW p \in Nat \ {0}, NEW u \in Nat, NEW G \in Nat, 9 <= G,
           NEW e \in Nat, NEW U \in Nat \ {0}, NEW A \in Nat, NEW B \in Nat,
           u * G < p + G, e <= G * U, A < D * (e + 2 + U), B <= A + u * D,
           B * p <= A * (p + u)
    PROVE  B < D * (e + 4 * U + 1)
<1> DEFINE du == D * U
           de == D * e
<1>1. du \in Nat /\ de \in Nat /\ D <= du
  <2>1. 1 * D <= U * D
    BY Monotone
  <2>2. 1 * D = D /\ U * D = D * U /\ D * U \in Nat /\ D * e \in Nat
    OBVIOUS
  <2> QED
    BY <2>1, <2>2
<1>2. D * (e + 2 + U) = de + 2 * D + du /\ D * (e + 4 * U + 1) = de + 4 * du + D
  OBVIOUS
<1> HIDE DEF du, de
<1>3. A < de + 2 * D + du
  BY <1>2
<1>4. CASE p <= 2 * G
  <2>1. u * G < 3 * G
    <3>1. u * G \in Nat
      OBVIOUS
    <3> QED
      BY <1>4, <3>1
  <2>2. u < 3
    BY <2>1, Cancel
  <2>3. u * D <= 2 * D
    <3>1. u <= 2
      BY <2>2
    <3> QED
      BY <3>1, Monotone
  <2>4. u * D \in Nat
    OBVIOUS
  <2>5. B < de + 4 * du + D
    BY <1>1, <1>3, <2>3, <2>4
  <2> QED
    BY <1>2, <2>5
<1>5. CASE 2 * G < p
  <2>1. CASE B <= A
    <3>1. B < de + 4 * du + D
      BY <1>1, <1>3, <2>1
    <3> QED
      BY <1>2, <3>1
  <2>2. CASE A < B
    <3> DEFINE C == B - A
               au == A * u
               g == G * u
    <3>1. C \in Nat /\ au \in Nat /\ g \in Nat
      BY <2>2
    <3>2. C * p <= au
      <4>1. C * p = B * p - A * p /\ A * (p + u) = A * p + au
        OBVIOUS
      <4>2. B * p \in Nat /\ A * p \in Nat
        OBVIOUS
      <4> HIDE DEF C, au
      <4>3. C * p \in Nat
        BY <3>1
      <4> QED
        BY <3>1, <4>1, <4>2, <4>3
    <3>3. 2 * g <= 3 * p
      <4>1. u * G = g
        OBVIOUS
      <4> HIDE DEF g
      <4> QED
        BY <1>5, <3>1, <4>1
    <3>4. (2 * (G * C)) * p <= (3 * A) * p
      <4>1. (C * p) * (2 * G) <= au * (2 * G)
        <5> HIDE DEF C, au
        <5>1. C * p \in Nat /\ 2 * G \in Nat
          BY <3>1
        <5> QED
          BY <3>1, <3>2, <5>1, Monotone
      <4>2. (2 * g) * A <= (3 * p) * A
        <5> HIDE DEF g
        <5>1. 2 * g \in Nat /\ 3 * p \in Nat
          BY <3>1
        <5> QED
          BY <3>1, <3>3, <5>1, Monotone
      <4>3. (C * p) * (2 * G) = (2 * (G * C)) * p
        <5> HIDE DEF C
        <5> QED
          BY <3>1
      <4>4. au * (2 * G) = (2 * g) * A /\ (3 * p) * A = (3 * A) * p
        OBVIOUS
      <4>5. (2 * (G * C)) * p \in Int /\ (2 * g) * A \in Int /\ (3 * A) * p \in Int
        <5> HIDE DEF C, g
        <5> QED
          BY <3>1
      <4> HIDE DEF C, g, au
      <4> QED
        BY <4>1, <4>2, <4>3, <4>4, <4>5
    <3> HIDE DEF C, au, g
    <3> DEFINE gc == G * C
    <3>5. gc \in Nat /\ 2 * gc <= 3 * A
      <4>1. 2 * (G * C) \in Int /\ 3 * A \in Int /\ gc \in Nat
        BY <3>1
      <4>2. 2 * (G * C) <= 3 * A
        BY <3>4, <4>1, CancelLe
      <4> QED
        BY <4>1, <4>2
    <3> DEFINE gdu == G * du
    <3>6. gdu \in Nat /\ 9 * du <= gdu /\ de <= gdu
      <4>1. 9 * du <= G * du
        BY <1>1, Monotone
      <4>2. e * D <= (G * U) * D
        <5>1. G * U \in Int
          OBVIOUS
        <5> QED
          BY <5>1, Monotone
      <4>3. e * D = de /\ (G * U) * D = G * (D * U)
        BY DEF de
      <4>4. G * du \in Nat /\ G * du = G * (D * U)
        BY <1>1 DEF du
      <4> QED
        BY <4>1, <4>2, <4>3, <4>4
    <3> HIDE DEF gdu
    <3>7. 2 * gc < 4 * gdu
      <4> HIDE DEF gc
      <4> QED
        BY <1>1, <1>3, <3>5, <3>6
    <3>8. C * G < (2 * du) * G
      <4>1. gc = C * G /\ 2 * gdu = (2 * du) * G
        BY <1>1, <3>1 DEF gdu
      <4> HIDE DEF gc
      <4> QED
        BY <3>5, <3>6, <3>7, <4>1
    <3>9. C < 2 * du
      BY <1>1, <3>1, <3>8, Cancel
    <3>10. B < de + 4 * du + D
      BY <1>1, <1>3, <3>1, <3>9 DEF C
    <3> QED
      BY <1>2, <3>10
  <2> QED
    BY <2>1, <2>2
<1> QED
  BY <1>4, <1>5

\* What is paid for an amount out, at a numerator up to the greatest.
Paid(excluded, n) == excluded + FeeOnTop(excluded, Least(MAX_FEE_NUMERATOR, n))

LEMMA PaidTypes ==
    ASSUME NEW e \in Nat, NEW n \in Nat
    PROVE  LET t == Least(MAX_FEE_NUMERATOR, n)
               paid == Paid(e, n)
               G == FEE_DENOMINATOR - t
           IN /\ t \in Nat /\ t <= n /\ t <= MAX_FEE_NUMERATOR
              /\ n <= MAX_FEE_NUMERATOR => t = n
              /\ MAX_FEE_NUMERATOR < n => t = MAX_FEE_NUMERATOR
              /\ t < FEE_DENOMINATOR
              /\ G \in Nat /\ 9 <= G /\ FEE_DENOMINATOR \in Nat \ {0}
              /\ MAX_FEE_NUMERATOR \in Nat
              /\ paid \in Nat /\ e <= paid
              /\ e * FEE_DENOMINATOR <= paid * G
              /\ paid * G < e * FEE_DENOMINATOR + G
              /\ FeeWithin(paid, t) = paid - e
<1> DEFINE t == Least(MAX_FEE_NUMERATOR, n)
<1>1. FEE_DENOMINATOR \in Nat \ {0} /\ MAX_FEE_NUMERATOR \in Nat
      /\ MAX_FEE_NUMERATOR + 9 <= FEE_DENOMINATOR
  <2>1. FEE_DENOMINATOR \in Nat \ {0}
    BY CurveAssumption
  <2> QED
    BY <2>1, FeesAssumption
<1>2. /\ t \in Nat /\ t <= n /\ t <= MAX_FEE_NUMERATOR
      /\ n <= MAX_FEE_NUMERATOR => t = n
      /\ MAX_FEE_NUMERATOR < n => t = MAX_FEE_NUMERATOR
  BY <1>1 DEF Least
<1> HIDE DEF t
<1>3. t < FEE_DENOMINATOR /\ FEE_DENOMINATOR - t \in Nat /\ 9 <= FEE_DENOMINATOR - t
  BY <1>1, <1>2
<1>4. Paid(e, n) = e + FeeOnTop(e, t)
  BY DEF Paid, t
<1> QED
  BY <1>1, <1>2, <1>3, <1>4, PaidIs DEF t

LEMMA CliffIsPaid ==
    ASSUME NEW fee, Limits(fee), NEW e \in Nat, e <= Excluded(fee, fee.reference_amount)
    PROVE  LET c == fee.cliff_fee_numerator
               paid == Paid(e, c)
           IN /\ c \in Nat /\ c <= MAX_FEE_NUMERATOR
              /\ paid <= fee.reference_amount
              /\ LimiterNumerator(fee, paid) = c
              /\ Net(fee, paid) = paid * (FEE_DENOMINATOR - c)
<1> DEFINE c == fee.cliff_fee_numerator
           x == fee.reference_amount
           D == FEE_DENOMINATOR
           p == Paid(e, c)
           G == D - c
           f == Excluded(fee, x)
<1>1. c \in Nat /\ x \in Nat \ {0} /\ MAX_FEE_NUMERATOR \in Nat /\ c <= MAX_FEE_NUMERATOR
  <2>1. c \in Nat /\ x \in Nat \ {0} /\ Numerator(fee.max_fee_bps) \in Nat
        /\ c <= Numerator(fee.max_fee_bps)
    BY LimiterFields
  <2>2. Numerator(fee.max_fee_bps) <= MAX_FEE_NUMERATOR /\ MAX_FEE_NUMERATOR \in Nat
    BY GreatestFees
  <2> QED
    BY <2>1, <2>2
<1>2. /\ p \in Nat /\ G \in Nat /\ 9 <= G /\ D \in Nat \ {0}
      /\ e * D <= p * G /\ p * G < e * D + G
  <2> HIDE DEF c
  <2>1. Least(MAX_FEE_NUMERATOR, c) = c
    BY <1>1, PaidTypes
  <2> QED
    BY <1>1, <2>1, PaidTypes
<1>3. f \in Nat /\ f * D <= x * G /\ e <= f
  BY FirstExcluded
<1> HIDE DEF p, G, D, f
<1>4. p <= x
  <2>1. e * D <= f * D
    BY <1>2, <1>3, Monotone
  <2>2. p * G < (x + 1) * G
    <3>1. (x + 1) * G = x * G + G /\ x * G \in Nat /\ p * G \in Nat /\ e * D \in Nat /\ f * D \in Nat
      BY <1>1, <1>2, <1>3
    <3> QED
      BY <1>2, <1>3, <2>1, <3>1
  <2>3. p < x + 1
    BY <1>1, <1>2, <2>2, Cancel
  <2> QED
    BY <1>1, <1>2, <2>3
<1>5. LimiterNumerator(fee, p) = c
  BY <1>4 DEF LimiterNumerator
<1>6. Charged(fee, p) = p * c
  <2>1. CASE p = 0
    <3>1. p * c = 0
      BY <1>1, <2>1
    <3> QED
      BY <2>1, <3>1, ChargedOfNothing
  <2>2. CASE p # 0
    BY <1>2, <1>4, <2>2, NumeratorOfCharged
  <2> QED
    BY <2>1, <2>2
<1>7. Net(fee, p) = p * G
  <2>1. Net(fee, p) = D * p - p * c
    BY <1>6 DEF Net, D
  <2>2. D * p - p * c = p * (D - c)
    BY <1>1, <1>2
  <2> QED
    BY <2>1, <2>2 DEF G
<1> QED
  BY <1>1, <1>4, <1>5, <1>7 DEF G, D, p

\* What is paid leaves at least what is asked for.
LEMMA PaidLeavesEnough ==
    ASSUME NEW fee, Limits(fee), NEW e \in Nat, NEW n \in NumeratorsForOutput(fee, e),
           n <= MAX_FEE_NUMERATOR
    PROVE  FEE_DENOMINATOR * e <= Net(fee, Paid(e, n))
<1> DEFINE D == FEE_DENOMINATOR
           G == D - n
           t == Paid(e, n)
           c == fee.cliff_fee_numerator
<1>1. n \in Nat /\ (\/ n = c /\ e <= Excluded(fee, fee.reference_amount)
                    \/ \E p \in Nat : Near(fee, e, n, p))
  BY NumeratorsFound
<1>2. /\ t \in Nat /\ G \in Nat \ {0} /\ D \in Nat \ {0} /\ e * D <= t * G /\ t * G < e * D + G
  <2>1. Least(MAX_FEE_NUMERATOR, n) = n
    BY <1>1, PaidTypes
  <2>2. /\ t \in Nat /\ G \in Nat /\ 9 <= G /\ D \in Nat \ {0} /\ e * D <= t * G /\ t * G < e * D + G
    BY <1>1, <2>1, PaidTypes
  <2> HIDE DEF G, t, D
  <2> QED
    BY <2>2
<1>3. D * e = e * D /\ e * D \in Nat
  BY <1>2
<1>4. CASE n = c /\ e <= Excluded(fee, fee.reference_amount)
  <2>1. Net(fee, t) = t * G
    BY <1>4, CliffIsPaid
  <2> HIDE DEF t, G, D
  <2> QED
    BY <1>2, <1>3, <2>1 DEF t, D
<1>5. ASSUME NEW p \in Nat, Near(fee, e, n, p), Found(fee, e, n, p)
      PROVE  D * e <= Net(fee, t)
  <2>1. D * e <= Net(fee, p) /\ p * D - e * D <= n * p
    BY <1>5 DEF Found
  <2> HIDE DEF t, D
  <2>2. p <= t
    <3>1. p * G <= e * D
      <4>1. p * (D - n) = p * D - n * p /\ p * D \in Nat /\ n * p \in Nat
        BY <1>1, <1>2
      <4> QED
        BY <1>3, <2>1, <4>1
    <3> HIDE DEF G
    <3>2. p * G <= t * G
      <4>1. p * G \in Nat /\ t * G \in Nat
        BY <1>2
      <4> QED
        BY <1>2, <1>3, <3>1, <4>1
    <3> QED
      BY <1>2, <3>2, CancelLe
  <2>3. Net(fee, p) <= Net(fee, t) /\ Net(fee, p) \in Nat /\ Net(fee, t) \in Nat
    <3>1. t <= t
      BY <1>2
    <3> QED
      BY <1>2, <2>2, <3>1, NetGrows
  <2> DEFINE a == Net(fee, p)
             b == Net(fee, t)
             de == D * e
  <2>4. de \in Nat /\ de <= a
    BY <1>3, <2>1
  <2> HIDE DEF a, b, de
  <2>5. de <= b
    BY <2>3, <2>4 DEF a, b
  <2> QED
    BY <2>5 DEF de, b
<1>6. ASSUME NEW p \in Nat, Near(fee, e, n, p), Charges(fee, e, n, p)
      PROVE  D * e <= Net(fee, t)
  <2> DEFINE S == Charged(fee, p)
             R == Charged(fee, t)
  <2>1. n * p <= p * D - e * D /\ S <= n * p /\ p # 0
    BY <1>6 DEF Charges, Near
  <2>2. S \in Nat /\ R \in Nat
    BY <1>2, ChargedTypes
  <2> HIDE DEF t, D
  <2>3. t <= p
    <3>1. e * D <= p * G
      <4>1. p * (D - n) = p * D - n * p /\ p * D \in Nat /\ n * p \in Nat
        BY <1>1, <1>2
      <4> QED
        BY <1>3, <2>1, <4>1
    <3> HIDE DEF G
    <3>2. t * G < (p + 1) * G
      <4>1. (p + 1) * G = p * G + G /\ p * G \in Nat /\ t * G \in Nat
        BY <1>2
      <4> QED
        BY <1>2, <1>3, <3>1, <4>1
    <3>3. t < p + 1
      BY <1>2, <3>2, Cancel
    <3> QED
      BY <1>2, <3>3
  <2>4. R * p <= S * t
    <3> DEFINE d == p - t
    <3>1. d \in Nat /\ t + d = p
      BY <1>2, <2>3
    <3> HIDE DEF d
    <3>2. Charged(fee, t) * (t + d) <= Charged(fee, t + d) * t
      BY <1>2, <3>1, AverageGrows
    <3> QED
      BY <3>1, <3>2
  <2> HIDE DEF S, R
  <2>5. S * t <= (n * p) * t
    <3>1. n * p \in Nat
      BY <1>1
    <3> QED
      BY <1>2, <2>1, <2>2, <3>1, Monotone
  <2>6. R * p <= (n * t) * p
    <3>1. (n * p) * t = (n * t) * p /\ R * p \in Nat /\ S * t \in Nat /\ (n * t) * p \in Nat
      BY <1>1, <1>2, <2>2
    <3> QED
      BY <2>4, <2>5, <3>1
  <2>7. R <= n * t
    <3>1. n * t \in Int /\ p \in Nat \ {0}
      BY <1>1, <1>2, <2>1
    <3> QED
      BY <2>2, <2>6, <3>1, CancelLe
  <2>8. Net(fee, t) = D * t - R
    BY DEF Net, R, D
  <2>9. t * G = D * t - n * t /\ t * G \in Nat /\ D * t \in Nat /\ n * t \in Nat
    BY <1>1, <1>2
  <2>10. D * e <= D * t - R
    <3> HIDE DEF G
    <3> QED
      BY <1>2, <1>3, <2>2, <2>7, <2>9
  <2> QED
    BY <2>8, <2>10
<1>7. D * e <= Net(fee, t)
  <2>1. CASE n = c /\ e <= Excluded(fee, fee.reference_amount)
    BY <2>1, <1>4
  <2>2. CASE \E p \in Nat : Near(fee, e, n, p)
    <3>1. PICK p \in Nat : Near(fee, e, n, p)
      BY <2>2
    <3>2. Found(fee, e, n, p) \/ Charges(fee, e, n, p)
      BY <3>1 DEF Near
    <3> QED
      BY <3>1, <3>2, <1>5, <1>6
  <2> QED
    BY <1>1, <2>1, <2>2
<1> QED
  BY <1>7 DEF t, D

\* What is paid leaves at most a few units more than what is asked for.
LEMMA PaidLeavesNoMore ==
    ASSUME NEW fee, Limits(fee), NEW e \in Nat, NEW n \in NumeratorsForOutput(fee, e),
           FEE_DENOMINATOR * e <= Net(fee, Paid(e, n))
    PROVE  Net(fee, Paid(e, n)) < FEE_DENOMINATOR * (e + Rounding(Paid(e, n)) + 1)
<1> DEFINE D == FEE_DENOMINATOR
           m == Least(MAX_FEE_NUMERATOR, n)
           G == D - m
           t == Paid(e, n)
           c == fee.cliff_fee_numerator
           U == UnitOf(t)
           B == Net(fee, t)
<1>1. n \in Nat /\ (\/ n = c /\ e <= Excluded(fee, fee.reference_amount)
                    \/ \E p \in Nat : Near(fee, e, n, p))
  BY NumeratorsFound
<1>2. /\ m \in Nat /\ m <= n /\ m <= MAX_FEE_NUMERATOR /\ MAX_FEE_NUMERATOR \in Nat
      /\ n <= MAX_FEE_NUMERATOR => m = n
      /\ MAX_FEE_NUMERATOR < n => m = MAX_FEE_NUMERATOR
  BY <1>1, PaidTypes
<1>3. /\ t \in Nat /\ G \in Nat /\ 9 <= G /\ D \in Nat \ {0} /\ e * D <= t * G /\ t * G < e * D + G
  BY <1>1, PaidTypes
<1> HIDE DEF m
<1>4. U \in Nat /\ t <= U * D /\ (t # 0 => U >= 1) /\ B \in Nat
  <2> HIDE DEF t
  <2>1. t <= t
    BY <1>3
  <2> QED
    BY <1>3, <2>1, UnitTypes, NetGrows
<1>5. Rounding(t) = 4 * U
  BY DEF Rounding
<1>6. D * e <= B
  OBVIOUS
<1>7. G = D - m /\ G <= D
  <2> HIDE DEF D
  <2> QED
    BY <1>2, <1>3
<1> HIDE DEF D, G, U, B
<1>8. B < D * (e + 4 * U + 1)
  <2>1. CASE n = c /\ e <= Excluded(fee, fee.reference_amount)
    <3>1. B = t * (D - c) /\ c <= MAX_FEE_NUMERATOR
      BY <2>1, CliffIsPaid DEF B, D
    <3>2. D - c = G
      BY <1>2, <1>7, <2>1, <3>1
    <3> HIDE DEF t
    <3>3. D * (e + 4 * U + 1) = e * D + 4 * (D * U) + D /\ D * U \in Nat /\ e * D \in Nat
          /\ t * G \in Nat
      BY <1>3, <1>4
    <3> QED
      BY <1>3, <1>7, <3>1, <3>2, <3>3
  <2>2. CASE \E p \in Nat : Near(fee, e, n, p)
    <3>1. PICK p \in Nat : Near(fee, e, n, p)
      BY <2>2
    <3> DEFINE v == UnitOf(p)
               A == Net(fee, p)
    <3>2. p # 0 /\ e <= p /\ A < D * (e + 2 + v)
          /\ (Found(fee, e, n, p) \/ Charges(fee, e, n, p))
      BY <3>1 DEF Near, D
    <3>3. v \in Nat /\ A \in Nat
      <4>1. p <= p
        OBVIOUS
      <4> QED
        BY <4>1, UnitTypes, NetGrows
    <3>4. CASE t = 0
      <4>1. B = 0
        <5>1. FEE_DENOMINATOR * 0 = 0
          BY CurveAssumption
        <5> QED
          BY <3>4, <5>1, ChargedOfNothing DEF B, Net
      <4> DEFINE s == e + 4 * U + 1
      <4>2. s \in Nat /\ 1 <= s
        BY <1>4
      <4> HIDE DEF s
      <4>3. 1 * D <= s * D
        BY <1>3, <4>2, Monotone
      <4>4. 1 * D = D /\ s * D = D * s /\ D * s \in Nat
        BY <1>3, <4>2
      <4>5. B < D * s
        BY <1>3, <4>1, <4>3, <4>4
      <4> QED
        BY <4>5 DEF s
    <3>5. CASE t # 0 /\ t <= p
      <4>1. t \in Nat \ {0}
        BY <1>3, <3>5
      <4> HIDE DEF t
      <4>2. Net(fee, t) < FEE_DENOMINATOR * (e + Rounding(t) + 1)
        <5>1. FEE_DENOMINATOR * e <= Net(fee, t)
          BY <1>6 DEF D, B
        <5>2. Net(fee, p) < FEE_DENOMINATOR * (e + 2 + UnitOf(p))
          BY <3>2 DEF D
        <5> QED
          BY <3>5, <4>1, <5>1, <5>2, UpToNear
      <4> QED
        BY <1>5, <4>2 DEF B, D
    <3>6. CASE p < t
      <4> HIDE DEF t
      <4>1. e * D < p * G + p
        <5> DEFINE pd == p * D
                   np == n * p
                   ed == e * D
                   pm == p * m
        <5>1. pd \in Nat /\ np \in Nat /\ ed \in Nat /\ pm \in Nat /\ p * G = pd - pm
          BY <1>1, <1>2, <1>3, <1>7
        <5>2. CASE Found(fee, e, n, p)
          <6>1. np < pd - ed + p
            BY <5>2 DEF Found, D
          <6>2. pm <= np
            <7>1. m * p <= n * p
              BY <1>1, <1>2, Monotone
            <7> QED
              BY <1>1, <1>2, <7>1
          <6> HIDE DEF pd, np, ed, pm
          <6> QED
            BY <5>1, <6>1, <6>2 DEF ed
        <5>3. CASE Charges(fee, e, n, p)
          <6>1. np <= pd - ed
            BY <5>3 DEF Charges, D
          <6>2. pm <= np
            <7>1. m * p <= n * p
              BY <1>1, <1>2, Monotone
            <7> QED
              BY <1>1, <1>2, <7>1
          <6> HIDE DEF pd, np, ed, pm
          <6> QED
            BY <3>2, <5>1, <6>1, <6>2 DEF ed
        <5> QED
          BY <3>2, <5>2, <5>3
      <4> DEFINE u == t - p
      <4>2. u \in Nat /\ t = p + u
        BY <1>3, <3>6
      <4> HIDE DEF u
      <4>3. u * G < p + G
        <5>1. t * G = p * G + u * G /\ p * G \in Nat /\ u * G \in Nat /\ e * D \in Nat
          BY <1>3, <4>2
        <5> QED
          BY <1>3, <4>1, <5>1
      <4>4. e <= G * U
        <5>1. t * G <= (U * D) * G
          <6>1. U * D \in Nat
            BY <1>3, <1>4
          <6> QED
            BY <1>3, <1>4, <6>1, Monotone
        <5>2. (U * D) * G = (G * U) * D /\ (G * U) * D \in Nat /\ e * D \in Nat /\ t * G \in Nat
          BY <1>3, <1>4
        <5>3. e * D <= (G * U) * D
          BY <1>3, <5>1, <5>2
        <5>4. G * U \in Int
          BY <1>3, <1>4
        <5> QED
          BY <1>3, <5>3, <5>4, CancelLe
      <4>5. A < D * (e + 2 + U)
        <5>1. v <= U
          BY <1>3, <3>6, UnitGrows DEF U
        <5> HIDE DEF v, A
        <5>2. (e + 2 + v) * D <= (e + 2 + U) * D
          BY <1>3, <1>4, <3>3, <5>1, Monotone
        <5>3. (e + 2 + v) * D = D * (e + 2 + v) /\ (e + 2 + U) * D = D * (e + 2 + U)
              /\ D * (e + 2 + v) \in Nat /\ D * (e + 2 + U) \in Nat
          BY <1>3, <1>4, <3>3
        <5> QED
          BY <3>2, <3>3, <5>2, <5>3
      <4>6. B <= A + u * D /\ B * p <= A * (p + u)
        <5>1. p <= t
          BY <1>3, <3>6
        <5>2. Net(fee, t) <= Net(fee, p) + (t - p) * FEE_DENOMINATOR
              /\ Net(fee, t) * p <= Net(fee, p) * t
          BY <1>3, <5>1, NetGrows
        <5>3. t - p = u
          BY <4>2
        <5> QED
          BY <4>2, <5>2, <5>3 DEF B, D
      <4>7. U # 0
        BY <1>3, <1>4, <3>6
      <4> HIDE DEF A, v
      <4>8. p \in Nat \ {0} /\ U \in Nat \ {0}
        BY <1>4, <3>2, <4>7
      <4> QED
        BY <1>3, <1>4, <3>3, <4>2, <4>3, <4>4, <4>5, <4>6, <4>8, StepUp
    <3> HIDE DEF t
    <3> QED
      BY <1>3, <3>4, <3>5, <3>6
  <2> QED
    BY <1>1, <2>1, <2>2
<1> QED
  BY <1>5, <1>8 DEF B, D

-----------------------------------------------------------------------------
(* The inversion.                                                          *)

LEMMA NumeratorAtLeastCliff ==
    ASSUME NEW fee, Limits(fee), NEW t \in Nat
    PROVE  /\ LimiterNumerator(fee, t) \in Nat
           /\ fee.cliff_fee_numerator <= LimiterNumerator(fee, t)
           /\ fee.cliff_fee_numerator \in Nat
<1>1. fee.cliff_fee_numerator \in Nat /\ fee.reference_amount \in Nat
  BY LimiterFields
<1>2. CASE t = 0
  <2>1. LimiterNumerator(fee, t) = fee.cliff_fee_numerator
    BY <1>1, <1>2 DEF LimiterNumerator
  <2> QED
    BY <1>1, <2>1
<1>3. CASE t # 0
  BY <1>1, <1>3, LimiterAtLeastCliff
<1> QED
  BY <1>2, <1>3

\* What the greatest fee makes of a numerator.
LEMMA CappedIs ==
    ASSUME NEW n \in Nat
    PROVE  LET t == Least(MAX_FEE_NUMERATOR, n)
           IN /\ t \in Nat /\ t <= n /\ t <= MAX_FEE_NUMERATOR /\ MAX_FEE_NUMERATOR \in Nat
              /\ n <= MAX_FEE_NUMERATOR => t = n
              /\ MAX_FEE_NUMERATOR < n => t = MAX_FEE_NUMERATOR
BY FeesAssumption, CurveAssumption DEF Least

\* What is paid in for an amount out would, paid in, buy that amount within a
\* few units of the numerator.
LEMMA InvertsNearly ==
    ASSUME NEW fee, Limits(fee), NEW e \in Nat, NEW n \in NumeratorsForOutput(fee, e)
    PROVE  LET paid == Paid(e, n)
               buys == paid - FeeWithin(paid, Least(MAX_FEE_NUMERATOR,
                                                    LimiterNumerator(fee, paid)))
           IN buys \in e - UnitOf(paid) .. e + Rounding(paid)
<1> DEFINE paid == Paid(e, n)
           N == LimiterNumerator(fee, paid)
           T == Least(MAX_FEE_NUMERATOR, N)
           m == Least(MAX_FEE_NUMERATOR, n)
           U == UnitOf(paid)
           F == FeeWithin(paid, T)
           Ex == Excluded(fee, paid)
<1>1. n \in Nat
  BY NumeratorsFound
<1>2. /\ paid \in Nat /\ e <= paid /\ FeeWithin(paid, m) = paid - e
      /\ m \in Nat /\ m <= MAX_FEE_NUMERATOR /\ MAX_FEE_NUMERATOR \in Nat
      /\ n <= MAX_FEE_NUMERATOR => m = n
      /\ MAX_FEE_NUMERATOR < n => m = MAX_FEE_NUMERATOR
  <2> HIDE DEF paid, m
  <2> QED
    BY <1>1, PaidTypes DEF paid, m
<1>3. U \in Nat /\ Rounding(paid) = 4 * U
  BY <1>2, UnitTypes DEF Rounding
<1>4. N \in Nat
  <2> HIDE DEF paid
  <2> QED
    BY <1>2, NumeratorAtLeastCliff
<1> HIDE DEF N, m
<1>5. /\ T \in Nat /\ T <= N /\ T <= MAX_FEE_NUMERATOR
      /\ N <= MAX_FEE_NUMERATOR => T = N
      /\ MAX_FEE_NUMERATOR < N => T = MAX_FEE_NUMERATOR
  BY <1>4, CappedIs
<1> HIDE DEF T
<1>6. /\ F \in Nat /\ FeeWithin(paid, N) \in Nat /\ F <= FeeWithin(paid, N)
      /\ m <= T => paid - e <= F
      /\ T <= m => F <= paid - e
  <2> HIDE DEF paid
  <2>1. F \in Nat /\ FeeWithin(paid, N) \in Nat
    BY <1>2, <1>4, <1>5, FeeWithinIs
  <2>2. F <= FeeWithin(paid, N)
    BY <1>2, <1>4, <1>5, FeeWithinGrows
  <2>3. ASSUME m <= T PROVE paid - e <= F
    BY <1>2, <1>5, <2>3, FeeWithinGrows
  <2>4. ASSUME T <= m PROVE F <= paid - e
    BY <1>2, <1>5, <2>4, FeeWithinGrows
  <2> QED
    BY <2>1, <2>2, <2>3, <2>4
<1>7. Ex = paid - FeeWithin(paid, N)
  BY DEF Excluded, N
<1> HIDE DEF F
<1>8. paid - F <= e + 4 * U
  <2>1. CASE m <= T
    <3> HIDE DEF U, paid
    <3> QED
      BY <1>2, <1>3, <1>6, <2>1
  <2>2. CASE T < m
    <3> HIDE DEF U, paid, Ex
    <3>1. T = N
      BY <1>2, <1>4, <1>5, <2>2
    <3>2. paid - F = Ex /\ Ex \in Int
      BY <1>2, <1>6, <1>7, <3>1 DEF F
    <3>3. CASE Ex < e
      BY <1>3, <3>2, <3>3
    <3>4. CASE e <= Ex
      <4>1. FEE_DENOMINATOR * e <= Net(fee, paid)
        <5>1. FEE_DENOMINATOR * Ex <= Net(fee, paid)
          BY <1>2, ExcludedIsNet DEF Ex
        <5>2. FEE_DENOMINATOR \in Nat
          BY CurveAssumption
        <5>3. FEE_DENOMINATOR * e <= FEE_DENOMINATOR * Ex
          BY <3>2, <3>4, <5>2
        <5>4. Net(fee, paid) \in Nat
          <6>1. paid <= paid
            BY <1>2
          <6> QED
            BY <1>2, <6>1, NetGrows
        <5>5. FEE_DENOMINATOR * e \in Nat /\ FEE_DENOMINATOR * Ex \in Int
          BY <3>2, <5>2
        <5> QED
          BY <5>1, <5>3, <5>4, <5>5
      <4>2. Net(fee, paid) < FEE_DENOMINATOR * (e + 4 * U + 1)
        <5>1. Net(fee, paid) < FEE_DENOMINATOR * (e + Rounding(paid) + 1)
          BY <4>1, PaidLeavesNoMore DEF paid
        <5> QED
          BY <1>3, <5>1
      <4>3. 4 * U \in Nat
        BY <1>3
      <4>4. Ex <= e + 4 * U
        BY <1>2, <4>2, <4>3, NotMore DEF Ex
      <4> QED
        BY <3>2, <4>4
    <3> QED
      BY <3>2, <3>3, <3>4
  <2> QED
    BY <1>2, <1>5, <2>1, <2>2
<1>9. e - U <= paid - F
  <2>1. CASE MAX_FEE_NUMERATOR < n
    <3> HIDE DEF U, paid
    <3> QED
      BY <1>2, <1>3, <1>5, <1>6, <2>1
  <2>2. CASE n <= MAX_FEE_NUMERATOR
    <3>1. FEE_DENOMINATOR * e <= Net(fee, paid)
      BY <2>2, PaidLeavesEnough
    <3> HIDE DEF paid
    <3>2. e - U <= Ex
      BY <1>2, <3>1, NotLess
    <3> HIDE DEF U, Ex
    <3> QED
      BY <1>2, <1>3, <1>6, <1>7, <3>2
  <2> QED
    BY <1>1, <1>2, <2>1, <2>2
<1>10. paid - F \in Int
  BY <1>2, <1>6
<1>11. paid - F \in e - U .. e + Rounding(paid)
  <2> HIDE DEF U, paid
  <2> QED
    BY <1>2, <1>3, <1>6, <1>8, <1>9, <1>10
<1> QED
  BY <1>11 DEF F, T, N

\* An exact-out trade is no way around the limiter: for every accepted limiter
\* and amount out, whatever numerator the quadratic and its rest come to, and
\* where the greatest fee cuts in, what is paid for the amount buys it, paid
\* in, to within a unit of the numerator less and four more.
THEOREM LimiterIsInverted == Spec => []LimiterInverts
<1>1. FeesInv => LimiterInverts
  <2> SUFFICES ASSUME FeesInv, IsLimiter(base_fee), ~ IsZeroLimiter(base_fee),
                      NEW amount \in 1 .. MAX_AMOUNT,
                      NEW n \in NumeratorsForOutput(base_fee, amount)
               PROVE  LET paid == Paid(amount, n)
                          buys == paid - FeeWithin(paid, Least(MAX_FEE_NUMERATOR,
                                             LimiterNumerator(base_fee, paid)))
                      IN buys \in amount - UnitOf(paid) .. amount + Rounding(paid)
    BY DEF LimiterInverts, Paid
  <2>1. Limits(base_fee) /\ amount \in Nat
    BY FeesAssumption DEF FeesInv, TypeOK, Limits
  <2> QED
    BY <2>1, InvertsNearly
<1> QED
  BY <1>1, FeesInvariant, PTL

-----------------------------------------------------------------------------
(* A fee for every trade.                                                  *)

\* Whether the amount includes the fee or not makes a difference only where
\* the limiter applies.
LEMMA NotLimited ==
    ASSUME FeesInv, NEW point \in Points, NEW dir \in Directions, NEW amount,
           IsLimiter(base_fee) => ~ LimiterApplied(base_fee, point, dir)
    PROVE  \E n \in Nat :
              /\ n >= MIN_FEE_NUMERATOR
              /\ IncludedNumerators(base_fee, point, dir, amount) = {n}
              /\ ExcludedNumerators(base_fee, point, dir, amount) = {n}
<1>1. base_fee \in BaseFees /\ ValidBaseFee(base_fee) /\ point \in Nat
  BY FeesAssumption DEF FeesInv, TypeOK, Points
<1>2. CASE ~ IsLimiter(base_fee)
  <2>1. PICK n \in Nat : SchedulerNumerators(base_fee, point) = {n} /\ n >= MIN_FEE_NUMERATOR
    BY <1>1, <1>2, ScheduledFee
  <2> QED
    BY <1>2, <2>1 DEF IncludedNumerators, ExcludedNumerators
<1>3. CASE IsLimiter(base_fee)
  <2>1. base_fee.cliff_fee_numerator \in Nat
    BY <1>1, FeesAssumption DEF Schedulers, Limiters
  <2>2. base_fee.cliff_fee_numerator >= MIN_FEE_NUMERATOR
    BY <1>1, <1>3 DEF ValidBaseFee, ValidLimiter
  <2> QED
    BY <1>3, <2>1, <2>2 DEF IncludedNumerators, ExcludedNumerators
<1> QED
  BY <1>2, <1>3

\* No trade fails for want of a fee, whatever the accepted parameters, the
\* time, the amount and the volatility: a linear schedule never goes below
\* zero, a limiter's closed form never below the cliff fee, the inversion
\* finds an amount in for every amount out but the last few of the u64 range,
\* and its numerator is at least the cliff fee, so that the total is at least
\* the least fee and at most the greatest.
THEOREM TradesHaveAFee == Spec => []EveryTradeHasAFee
<1>1. FeesInv => EveryTradeHasAFee
  <2> SUFFICES ASSUME FeesInv, NEW point \in Points, NEW dir \in Directions,
                      NEW amount \in 1 .. MAX_AMOUNT
               PROVE  LET in  == IncludedNumerators(base_fee, point, dir, amount)
                          out == ExcludedNumerators(base_fee, point, dir, amount)
                      IN /\ in # {} /\ \A n \in in : Allowed(n)
                         /\ Reachable(base_fee, point, dir, amount) =>
                                out # {} /\ \A n \in out : Allowed(n)
    BY DEF EveryTradeHasAFee, Allowed
  <2>1. CASE IsLimiter(base_fee) => ~ LimiterApplied(base_fee, point, dir)
    <3>1. PICK n \in Nat : /\ n >= MIN_FEE_NUMERATOR
                           /\ IncludedNumerators(base_fee, point, dir, amount) = {n}
                           /\ ExcludedNumerators(base_fee, point, dir, amount) = {n}
      BY <2>1, NotLimited
    <3> QED
      BY <3>1, TotalIsAllowed
  <2>2. CASE IsLimiter(base_fee) /\ LimiterApplied(base_fee, point, dir)
    <3>1. Limits(base_fee) /\ amount \in Nat
      BY <2>2, FeesAssumption DEF FeesInv, TypeOK, Limits, LimiterApplied
    <3>2. base_fee.cliff_fee_numerator \in Nat /\ MIN_FEE_NUMERATOR \in Nat
          /\ base_fee.cliff_fee_numerator >= MIN_FEE_NUMERATOR
      BY <3>1, LimiterFields, FeesAssumption
    <3>3. ASSUME NEW n \in Nat, base_fee.cliff_fee_numerator <= n PROVE Allowed(n)
      BY <3>2, <3>3, TotalIsAllowed
    <3>4. /\ IncludedNumerators(base_fee, point, dir, amount)
               = {LimiterNumerator(base_fee, amount)}
          /\ ExcludedNumerators(base_fee, point, dir, amount)
               = NumeratorsForOutput(base_fee, amount)
      BY <2>2 DEF IncludedNumerators, ExcludedNumerators
    <3>5. Allowed(LimiterNumerator(base_fee, amount))
      BY <3>1, <3>3, NumeratorAtLeastCliff
    <3>6. ASSUME NEW n \in NumeratorsForOutput(base_fee, amount) PROVE Allowed(n)
      BY <3>1, <3>3, NumeratorsFound
    <3>7. ASSUME Reachable(base_fee, point, dir, amount)
          PROVE  NumeratorsForOutput(base_fee, amount) # {}
      <4>1. amount + UnitOf(MAX_AMOUNT) + 2 <= Excluded(base_fee, MAX_AMOUNT)
        BY <2>2, <3>7 DEF Reachable
      <4> QED
        BY <3>1, <4>1, NumeratorsExist
    <3> QED
      BY <3>4, <3>5, <3>6, <3>7
  <2> QED
    BY <2>1, <2>2
<1> QED
  BY <1>1, FeesInvariant, PTL

-----------------------------------------------------------------------------
(* The three modes.                                                        *)

\* A numerator below the denominator, and what grows with it.
LEMMA GrowsIs ==
    ASSUME NEW n \in Nat, n <= MAX_FEE_NUMERATOR
    PROVE  /\ FEE_DENOMINATOR - n \in Nat \ {0} /\ n < FEE_DENOMINATOR
           /\ Grows(n) \in Nat \ {0}
           /\ FEE_DENOMINATOR <= Grows(n) * (FEE_DENOMINATOR - n)
<1>1. FEE_DENOMINATOR \in Nat \ {0} /\ MAX_FEE_NUMERATOR \in Nat
      /\ MAX_FEE_NUMERATOR <= FEE_DENOMINATOR - 9
  BY FeesAssumption, CurveAssumption
<1>2. FEE_DENOMINATOR - n \in Nat \ {0} /\ n < FEE_DENOMINATOR
  BY <1>1
<1>3. /\ Grows(n) \in Nat
      /\ FEE_DENOMINATOR <= Grows(n) * (FEE_DENOMINATOR - n)
  BY <1>1, <1>2, CeilBounds DEF Grows
<1>4. Grows(n) # 0
  <2>1. 0 * (FEE_DENOMINATOR - n) = 0
    BY <1>2
  <2> QED
    BY <1>1, <1>3, <2>1
<1> QED
  BY <1>2, <1>3, <1>4

\* What is put on top of what two numerators differ by: it is paid for, as a
\* share of less than what is paid.
LEMMA DifferenceOfFees ==
    ASSUME NEW D \in Nat \ {0}, NEW paid \in Nat, NEW p \in Nat, NEW g \in Nat,
           NEW delta \in Nat, NEW U \in Nat \ {0}, NEW more \in Int,
           paid <= p * g, delta * p < D * (2 + U) + p, p <= U * D,
           more * D < paid * delta + D
    PROVE  more <= (4 * U) * g
<1> DEFINE b == D * (2 + 2 * U)
<1>1. delta * p <= b /\ b \in Nat
  <2>1. D * (2 + U) = 2 * D + U * D /\ b = 2 * D + U * D + U * D /\ U * D \in Nat
    BY SMT
  <2>2. delta * p \in Nat
    OBVIOUS
  <2> QED
    BY <2>1, <2>2
<1> HIDE DEF b
<1>2. paid * delta <= (p * g) * delta
  <2>1. p * g \in Nat
    OBVIOUS
  <2> QED
    BY <2>1, Monotone
<1>3. (p * g) * delta = (delta * p) * g
  OBVIOUS
<1>4. (delta * p) * g <= b * g
  <2>1. delta * p \in Nat
    OBVIOUS
  <2> QED
    BY <1>1, <2>1, Monotone
<1>5. b * g = ((2 + 2 * U) * g) * D
  BY DEF b
<1>6. more * D < ((2 + 2 * U) * g + 1) * D
  <2>1. ((2 + 2 * U) * g + 1) * D = ((2 + 2 * U) * g) * D + D
    OBVIOUS
  <2>2. paid * delta \in Nat /\ (delta * p) * g \in Nat /\ b * g \in Nat /\ more * D \in Int
    BY <1>1
  <2> QED
    BY <1>2, <1>3, <1>4, <1>5, <2>1, <2>2
<1>7. more < (2 + 2 * U) * g + 1
  <2>1. (2 + 2 * U) * g + 1 \in Int
    OBVIOUS
  <2> QED
    BY <1>6, <2>1, Cancel
<1>8. (2 + 2 * U) * g <= (4 * U) * g
  BY Monotone
<1>9. (2 + 2 * U) * g \in Nat /\ (4 * U) * g \in Nat
  OBVIOUS
<1> QED
  BY <1>7, <1>8, <1>9

\* With a variable fee on top, an exact-out amount is charged at most a few
\* tokens more than an exact-in amount.
LEMMA OnTopIsNoMore ==
    ASSUME NEW fee, Limits(fee), NEW v \in Nat, NEW e \in Nat,
           NEW n \in NumeratorsForOutput(fee, e)
    PROVE  LET most == Least(MAX_FEE_NUMERATOR, v + n)
               paid == e + FeeOnTop(e, most)
               within == Least(MAX_FEE_NUMERATOR, v + LimiterNumerator(fee, paid))
           IN FeeOnTop(e, most) - FeeWithin(paid, within) <= Rounding(paid) * Grows(most)
<1> DEFINE most == Least(MAX_FEE_NUMERATOR, v + n)
           paid == e + FeeOnTop(e, most)
           N == LimiterNumerator(fee, paid)
           within == Least(MAX_FEE_NUMERATOR, v + N)
           D == FEE_DENOMINATOR
           G == D - most
           g == Grows(most)
           U == UnitOf(paid)
           F == FeeWithin(paid, within)
           Ex == Excluded(fee, paid)
<1>1. n \in Nat /\ (\/ n = fee.cliff_fee_numerator /\ e <= Excluded(fee, fee.reference_amount)
                    \/ \E p \in Nat : Near(fee, e, n, p))
  BY NumeratorsFound
<1>2. most \in Nat /\ most <= MAX_FEE_NUMERATOR /\ most <= v + n /\ MAX_FEE_NUMERATOR \in Nat
  <2>1. v + n \in Nat
    BY <1>1
  <2> QED
    BY <2>1, CappedIs
<1> HIDE DEF most
<1>3. /\ G \in Nat \ {0} /\ most < D /\ g \in Nat \ {0} /\ D <= g * G /\ D \in Nat \ {0}
  BY <1>2, GrowsIs, CurveAssumption
<1>4. /\ paid \in Nat /\ e <= paid /\ FeeOnTop(e, most) = paid - e
      /\ paid * G < e * D + G
      /\ FeeWithin(paid, most) = paid - e
  <2> HIDE DEF paid
  <2> QED
    BY <1>2, <1>3, PaidIs DEF paid
<1> HIDE DEF paid, g, G, D
<1>5. U \in Nat /\ Rounding(paid) = 4 * U /\ (paid # 0 => U >= 1)
  BY <1>4, UnitTypes DEF Rounding
<1>6. N \in Nat /\ fee.cliff_fee_numerator <= N /\ fee.cliff_fee_numerator \in Nat
  BY <1>4, NumeratorAtLeastCliff
<1> HIDE DEF N
<1>7. /\ within \in Nat /\ within <= MAX_FEE_NUMERATOR
      /\ v + N <= MAX_FEE_NUMERATOR => within = v + N
      /\ MAX_FEE_NUMERATOR < v + N => within = MAX_FEE_NUMERATOR
  <2>1. v + N \in Nat
    BY <1>6
  <2> QED
    BY <2>1, CappedIs
<1> HIDE DEF within
<1>8. F \in Nat /\ paid * within <= F * D
  BY <1>4, <1>7, FeeWithinIs DEF D
<1>9. (4 * U) * g \in Nat /\ 4 * U <= (4 * U) * g
  <2>1. 4 * U \in Nat
    BY <1>5
  <2> HIDE DEF U
  <2>2. (4 * U) * g \in Nat
    BY <1>3, <2>1
  <2>3. 1 * (4 * U) <= g * (4 * U)
    BY <1>3, <2>1, Monotone
  <2> QED
    BY <1>3, <2>1, <2>2, <2>3
<1> HIDE DEF U
<1>10. paid - e - F <= (4 * U) * g
  <2>1. CASE most <= within
    <3>1. FeeWithin(paid, most) <= F
      BY <1>2, <1>4, <1>7, <2>1, FeeWithinGrows
    <3> HIDE DEF F
    <3> QED
      BY <1>4, <1>8, <1>9, <3>1
  <2>2. CASE within < most
    <3>1. within = v + N
      BY <1>2, <1>6, <1>7, <2>2
    <3>2. N < n
      BY <1>1, <1>2, <1>6, <2>2, <3>1
    <3>3. PICK p \in Nat : Near(fee, e, n, p)
      BY <1>1, <1>6, <3>2
    <3>4. /\ p \in Nat \ {0} /\ e <= p /\ Net(fee, p) < D * (e + 2 + UnitOf(p))
          /\ n * p < Charged(fee, p) + D * (2 + UnitOf(p)) + p
      BY <3>3 DEF Near, D
    <3>5. CASE paid = 0
      <4> HIDE DEF F
      <4> QED
        BY <1>4, <1>8, <1>9, <3>5
    <3>6. CASE paid # 0 /\ paid <= p
      <4>1. FeeWithin(paid, N) \in Nat /\ FeeWithin(paid, N) <= F
        <5>1. N <= within
          BY <1>6, <3>1
        <5> QED
          BY <1>4, <1>6, <1>7, <5>1, FeeWithinGrows, FeeWithinIs
      <4>2. Ex = paid - FeeWithin(paid, N)
        BY DEF Excluded, N
      <4>3. Ex \in Int /\ D * Ex <= Net(fee, paid)
        BY <1>4, ExcludedIsNet DEF D
      <4> HIDE DEF Ex, F
      <4>4. CASE Ex < e
        BY <1>4, <1>8, <1>9, <4>1, <4>2, <4>3, <4>4
      <4>5. CASE e <= Ex
        <5>1. D * e <= Net(fee, paid)
          <6>1. D * e <= D * Ex
            BY <1>3, <4>3, <4>5
          <6>2. Net(fee, paid) \in Nat
            <7>1. paid <= paid
              BY <1>4
            <7> QED
              BY <1>4, <7>1, NetGrows
          <6>3. D * e \in Nat /\ D * Ex \in Int
            BY <1>3, <4>3
          <6> QED
            BY <4>3, <6>1, <6>2, <6>3
        <5>2. Net(fee, paid) < D * (e + Rounding(paid) + 1)
          <6>1. paid \in Nat \ {0} /\ paid <= p
            BY <1>4, <3>6
          <6> QED
            BY <3>4, <5>1, <6>1, UpToNear DEF D
        <5>3. Net(fee, paid) < D * (e + 4 * U + 1)
          BY <1>5, <5>2
        <5>4. 4 * U \in Nat
          BY <1>5
        <5>5. Ex <= e + 4 * U
          BY <1>4, <5>3, <5>4, NotMore DEF Ex, D
        <5> QED
          BY <1>4, <1>8, <1>9, <4>1, <4>2, <4>3, <5>4, <5>5
      <4> QED
        BY <4>3, <4>4, <4>5
    <3>7. CASE p < paid
      <4> DEFINE delta == most - within
                 S == Charged(fee, p)
                 R == Charged(fee, paid)
                 up == UnitOf(p)
      <4>1. delta \in Nat /\ delta <= n - N /\ most = within + delta
        BY <1>1, <1>2, <1>6, <1>7, <2>2, <3>1
      <4>2. U >= 1 /\ paid # 0
        BY <1>4, <1>5, <3>4, <3>7
      <4>3. up \in Nat /\ p <= up * D /\ up <= U
        <5>1. p <= paid
          BY <1>4, <3>7
        <5> QED
          BY <1>4, <3>4, <5>1, UnitTypes, UnitGrows DEF D, U
      <4>4. p <= U * D
        <5>1. up * D <= U * D
          BY <1>3, <1>5, <4>3, Monotone
        <5>2. up * D \in Nat /\ U * D \in Nat
          BY <1>3, <1>5, <4>3
        <5> HIDE DEF up
        <5> QED
          BY <3>4, <4>3, <5>1, <5>2
      <4>5. S \in Nat /\ R \in Nat
        BY <1>4, ChargedTypes
      <4>6. S <= N * p
        <5> DEFINE d == paid - p
        <5>1. d \in Nat /\ p + d = paid
          BY <1>4, <3>7
        <5> HIDE DEF d
        <5>2. S * paid <= R * p
          <6>1. Charged(fee, p) * (p + d) <= Charged(fee, p + d) * p
            BY <5>1, AverageGrows
          <6> QED
            BY <5>1, <6>1
        <5>3. R <= N * paid
          BY <1>4, <4>2, NumeratorCharges DEF N
        <5> HIDE DEF S, R
        <5>4. R * p <= (N * paid) * p
          <6>1. N * paid \in Nat
            BY <1>4, <1>6
          <6> QED
            BY <4>5, <5>3, <6>1, Monotone
        <5>5. (N * paid) * p = (N * p) * paid
          BY <1>4, <1>6
        <5>6. S * paid <= (N * p) * paid
          <6>1. S * paid \in Nat /\ R * p \in Nat /\ (N * p) * paid \in Nat
            BY <1>4, <1>6, <4>5
          <6> QED
            BY <5>2, <5>4, <5>5, <6>1
        <5>7. N * p \in Nat /\ paid \in Nat \ {0}
          BY <1>4, <1>6, <4>2
        <5> QED
          BY <4>5, <5>6, <5>7, CancelLe
      <4>7. delta * p < D * (2 + U) + p
        <5>1. delta * p <= (n - N) * p
          <6>1. n - N \in Int
            BY <1>1, <1>6
          <6> HIDE DEF delta
          <6> QED
            BY <4>1, <6>1, Monotone
        <5>2. (n - N) * p = n * p - N * p /\ n * p \in Nat /\ N * p \in Nat
          BY <1>1, <1>6
        <5>3. D * (2 + up) <= D * (2 + U)
          <6>1. (2 + up) * D <= (2 + U) * D
            <7> HIDE DEF up
            <7> QED
              BY <1>3, <1>5, <4>3, Monotone
          <6> QED
            BY <1>3, <1>5, <4>3, <6>1
        <5>4. D * (2 + up) \in Nat /\ D * (2 + U) \in Nat /\ delta * p \in Nat
          BY <1>3, <1>5, <4>1, <4>3
        <5> HIDE DEF S, delta, up
        <5>5. n * p < S + D * (2 + up) + p
          BY <3>4 DEF S, up
        <5> QED
          BY <3>4, <4>5, <4>6, <5>1, <5>2, <5>3, <5>4, <5>5
      <4>8. paid <= p * g
        <5>1. e * D <= e * (g * G)
          <6>1. D * e <= (g * G) * e
            <7>1. g * G \in Nat
              BY <1>3
            <7> QED
              BY <1>3, <7>1, Monotone
          <6> QED
            BY <1>3, <6>1
        <5>2. e * (g * G) = (e * g) * G /\ (e * g) * G + G = (e * g + 1) * G
          BY <1>3
        <5>3. paid * G < (e * g + 1) * G
          <6>1. paid * G \in Nat /\ e * D \in Nat /\ (e * g) * G \in Nat
            BY <1>3, <1>4
          <6> QED
            BY <1>3, <1>4, <5>1, <5>2, <6>1
        <5>4. paid < e * g + 1
          <6>1. e * g + 1 \in Int
            BY <1>3
          <6> QED
            BY <1>3, <1>4, <5>3, <6>1, Cancel
        <5>5. e * g <= p * g
          BY <1>3, <3>4, Monotone
        <5>6. e * g \in Nat /\ p * g \in Nat
          BY <1>3
        <5> QED
          BY <1>4, <5>4, <5>5, <5>6
      <4>9. (paid - e - F) * D < paid * delta + D
        <5>1. (paid - e) * D < paid * most + D
          BY <1>2, <1>4, FeeWithinIs DEF D
        <5> HIDE DEF F, delta
        <5>2. paid * most = paid * within + paid * delta
          BY <1>4, <1>7, <4>1
        <5>3. (paid - e - F) * D = (paid - e) * D - F * D
          BY <1>3, <1>4, <1>8
        <5>4. /\ (paid - e) * D \in Int /\ F * D \in Int /\ paid * within \in Int
              /\ paid * delta \in Int
          BY <1>3, <1>4, <1>7, <1>8, <4>1
        <5> QED
          BY <1>3, <1>8, <5>1, <5>2, <5>3, <5>4
      <4> DEFINE more == paid - e - F
      <4>10. more \in Int /\ U \in Nat \ {0}
        BY <1>4, <1>5, <1>8, <4>2
      <4> HIDE DEF more, delta
      <4>11. more * D < paid * delta + D
        BY <4>9 DEF more
      <4>12. more <= (4 * U) * g
        BY <1>3, <1>4, <3>4, <4>1, <4>4, <4>7, <4>8, <4>10, <4>11, DifferenceOfFees
      <4> QED
        BY <4>12 DEF more
    <3> QED
      BY <1>4, <3>4, <3>5, <3>6, <3>7
  <2> QED
    BY <1>2, <1>7, <2>1, <2>2
<1>11. FeeOnTop(e, most) - F <= Rounding(paid) * g
  BY <1>4, <1>5, <1>10
<1> QED
  BY <1>11 DEF F, within, N, paid, g, most

\* An offer that leaves more than is needed pays for it, at a fee that is no
\* greater.
LEMMA OfferPays ==
    ASSUME NEW a \in Nat, NEW e \in Nat, NEW m \in Nat, NEW t \in Nat,
           m <= t, t <= MAX_FEE_NUMERATOR, e < a - FeeWithin(a, t)
    PROVE  e + FeeOnTop(e, m) <= a
<1> DEFINE D == FEE_DENOMINATOR
           paid == e + FeeOnTop(e, m)
           F == FeeWithin(a, t)
           G == D - m
           H == D - t
<1>1. MAX_FEE_NUMERATOR \in Nat /\ m <= MAX_FEE_NUMERATOR
  BY FeesAssumption, CurveAssumption
<1>2. D \in Nat \ {0} /\ G \in Nat \ {0} /\ H \in Nat \ {0} /\ H <= G /\ m < D
  BY <1>1, GrowsIs, CurveAssumption
<1>3. paid \in Nat /\ paid * G < e * D + G
  <2> HIDE DEF paid
  <2> QED
    BY <1>2, PaidIs DEF paid
<1>4. F \in Nat /\ a * t <= F * D
  BY FeeWithinIs
<1> HIDE DEF paid
<1>5. SUFFICES ASSUME a < paid PROVE FALSE
  BY <1>3 DEF paid
<1>6. a * G < e * D
  <2> HIDE DEF G
  <2>1. (a + 1) * G <= paid * G
    <3>1. a + 1 <= paid
      BY <1>3, <1>5
    <3> QED
      BY <1>2, <1>3, <3>1, Monotone
  <2>2. (a + 1) * G = a * G + G /\ a * G \in Nat /\ paid * G \in Nat /\ e * D \in Nat
    BY <1>2, <1>3
  <2> QED
    BY <1>2, <1>3, <2>1, <2>2
<1>7. (e + 1) * D <= (a - F) * D
  <2> HIDE DEF F, D
  <2>1. e + 1 <= a - F
    BY <1>4 DEF F
  <2> QED
    BY <1>2, <1>4, <2>1, Monotone
<1> HIDE DEF F
<1>8. (a - F) * D <= a * H
  <2>1. a * H = a * D - a * t /\ (a - F) * D = a * D - F * D
    BY <1>2, <1>4
  <2>2. a * D \in Nat /\ a * t \in Nat /\ F * D \in Nat
    BY <1>2, <1>4
  <2> QED
    BY <1>4, <2>1, <2>2
<1>9. a * H <= a * G
  <2> HIDE DEF H, G
  <2>1. H * a <= G * a
    BY <1>2, Monotone
  <2> QED
    BY <1>2, <2>1
<1> HIDE DEF G, H, D
<1>10. /\ (e + 1) * D = e * D + D /\ e * D \in Nat /\ (a - F) * D \in Int
       /\ a * H \in Nat /\ a * G \in Nat
  BY <1>2, <1>4
<1> QED
  BY <1>2, <1>6, <1>7, <1>8, <1>9, <1>10

\* What is paid for a part of an offer that would have bought more is at most
\* a few tokens more than the offer.
LEMMA PartIsNoMore ==
    ASSUME NEW fee, Limits(fee), NEW a \in Nat, NEW e \in Nat,
           NEW n \in NumeratorsForOutput(fee, e),
           e < a - FeeWithin(a, Least(MAX_FEE_NUMERATOR, LimiterNumerator(fee, a)))
    PROVE  Paid(e, n) <= a + Rounding(Paid(e, n)) * Grows(MAX_FEE_NUMERATOR)
<1> DEFINE N == LimiterNumerator(fee, a)
           t == Least(MAX_FEE_NUMERATOR, N)
           m == Least(MAX_FEE_NUMERATOR, n)
           paid == Paid(e, n)
           D == FEE_DENOMINATOR
           H == D - MAX_FEE_NUMERATOR
           M == Numerator(fee.max_fee_bps)
           g == Grows(MAX_FEE_NUMERATOR)
           U == UnitOf(paid)
<1>1. n \in Nat /\ N \in Nat
  BY NumeratorsFound, NumeratorAtLeastCliff
<1>2. /\ paid \in Nat /\ paid = e + FeeOnTop(e, m)
      /\ m \in Nat /\ m <= MAX_FEE_NUMERATOR /\ MAX_FEE_NUMERATOR \in Nat
  <2> HIDE DEF paid, m
  <2> QED
    BY <1>1, PaidTypes DEF paid, m, Paid
<1>3. /\ D \in Nat \ {0} /\ H \in Nat \ {0} /\ g \in Nat \ {0} /\ D <= g * H
  <2>1. MAX_FEE_NUMERATOR <= MAX_FEE_NUMERATOR
    BY <1>2
  <2> QED
    BY <1>2, <2>1, GrowsIs, CurveAssumption
<1>4. U \in Nat /\ Rounding(paid) = 4 * U
  BY <1>2, UnitTypes DEF Rounding
<1> HIDE DEF m, paid, g, N
<1>5. (4 * U) * g \in Nat
  BY <1>3, <1>4
<1>6. CASE paid <= a
  BY <1>2, <1>4, <1>5, <1>6 DEF paid, g
<1>7. CASE MAX_FEE_NUMERATOR < N
  <2>1. t = MAX_FEE_NUMERATOR
    BY <1>1, <1>7, CappedIs
  <2>2. m <= t /\ t <= MAX_FEE_NUMERATOR /\ t \in Nat
    BY <1>2, <2>1
  <2> HIDE DEF t
  <2>3. paid <= a
    BY <1>2, <2>2, OfferPays DEF t, N
  <2> QED
    BY <1>6, <2>3
<1>8. CASE N <= MAX_FEE_NUMERATOR /\ a < paid
  <2>1. t = N
    BY <1>1, <1>8, CappedIs
  <2>2. e < Excluded(fee, a)
    BY <2>1 DEF t, N, Excluded
  <2> DEFINE Ex == Excluded(fee, a)
             A == Net(fee, a)
             B == Net(fee, paid)
             over == paid - a
             de == D * e
  <2>3. Ex \in Int /\ D * Ex <= A
    BY ExcludedIsNet
  <2>4. over \in Nat /\ a <= paid
    BY <1>2, <1>8
  <2>5. A \in Nat /\ A <= B /\ A + over * (D - M) <= B /\ B \in Int
    <3>1. A \in Nat /\ A <= B /\ A + over * (D - M) <= B
      BY <1>2, <2>4, NetGrows
    <3>2. B \in Nat
      <4>1. paid <= paid
        BY <1>2
      <4> QED
        BY <1>2, <4>1, NetGrows
    <3> QED
      BY <3>1, <3>2
  <2>6. de + D <= A /\ de \in Nat
    <3>1. (e + 1) * D <= Ex * D
      <4>1. e + 1 <= Ex
        <5> HIDE DEF Ex
        <5> QED
          BY <2>2, <2>3 DEF Ex
      <4> HIDE DEF Ex
      <4> QED
        BY <1>3, <2>3, <4>1, Monotone
    <3> HIDE DEF Ex, A
    <3>2. (e + 1) * D = de + D /\ Ex * D = D * Ex /\ D * Ex \in Int /\ de \in Nat
      BY <1>3, <2>3
    <3> HIDE DEF de
    <3> QED
      BY <1>3, <2>3, <2>5, <3>1, <3>2
  <2>7. de <= B
    <3> HIDE DEF A, B, de
    <3> QED
      BY <1>3, <2>5, <2>6
  <2>8. B < D * (e + 4 * U + 1)
    <3>1. D * e <= Net(fee, Paid(e, n))
      BY <2>7 DEF paid
    <3>2. Net(fee, paid) < D * (e + Rounding(paid) + 1)
      BY <3>1, PaidLeavesNoMore DEF paid
    <3> QED
      BY <1>4, <3>2
  <2>9. D * (e + 4 * U + 1) = de + D + (4 * U) * D /\ (4 * U) * D \in Nat
    <3> HIDE DEF U
    <3> QED
      BY <1>3, <1>4
  <2>10. M \in Nat /\ M <= MAX_FEE_NUMERATOR
    BY GreatestFees, LimiterFields
  <2> HIDE DEF over, A, B, de, U, M
  <2>11. over * H <= over * (D - M)
    <3>1. H * over <= (D - M) * over
      <4>1. H <= D - M /\ D - M \in Int /\ H \in Int
        BY <1>2, <1>3, <2>10
      <4> HIDE DEF H
      <4> QED
        BY <2>4, <4>1, Monotone
    <3>2. H * over = over * H /\ (D - M) * over = over * (D - M)
      BY <1>2, <1>3, <2>4, <2>10
    <3> QED
      BY <3>1, <3>2
  <2>12. over * (D - M) < (4 * U) * D /\ over * (D - M) \in Int
    <3>1. over * (D - M) \in Int
      BY <1>3, <2>4, <2>10
    <3> QED
      BY <1>3, <2>5, <2>6, <2>8, <2>9, <3>1
  <2> HIDE DEF H
  <2>13. (4 * U) * D <= ((4 * U) * g) * H
    <3>1. D * (4 * U) <= (g * H) * (4 * U)
      <4>1. g * H \in Nat /\ 4 * U \in Nat
        BY <1>3, <1>4
      <4> QED
        BY <1>3, <4>1, Monotone
    <3>2. (g * H) * (4 * U) = ((4 * U) * g) * H /\ D * (4 * U) = (4 * U) * D
      BY <1>3, <1>4
    <3> QED
      BY <3>1, <3>2
  <2>14. over * H < ((4 * U) * g) * H
    <3>1. over * H \in Nat /\ ((4 * U) * g) * H \in Nat
      BY <1>3, <1>4, <2>4
    <3> QED
      BY <2>9, <2>11, <2>12, <2>13, <3>1
  <2>15. over < (4 * U) * g
    BY <1>3, <1>5, <2>4, <2>14, Cancel
  <2>16. paid <= a + (4 * U) * g
    BY <1>2, <1>5, <2>15 DEF over
  <2> QED
    BY <1>4, <2>16 DEF paid, g
<1> QED
  BY <1>1, <1>2, <1>6, <1>7, <1>8

\* The price never falls when B is paid in, and what is paid is a number.
LEMMA RisesIsPaid ==
    ASSUME NEW pool, NEW next \in Nat, pool.liquidity \in Nat, pool.sqrt_price \in Nat,
           pool.sqrt_price <= next
    PROVE  CurveIn(pool, "BtoA", next) \in Nat
<1> DEFINE d == next - pool.sqrt_price
<1>1. CurveIn(pool, "BtoA", next) = CeilDiv(pool.liquidity * d, PRICE_UNIT)
  BY DEF CurveIn, DeltaB, MulDiv
<1>2. d \in Nat
  OBVIOUS
<1> HIDE DEF d
<1>3. pool.liquidity * d \in Nat /\ PRICE_UNIT \in Nat \ {0}
  BY <1>2, CurveAssumption
<1> QED
  BY <1>1, <1>3, CeilBounds

LEMMA NextPriceRises ==
    ASSUME NEW price \in Nat \ {0}, NEW liquidity \in Nat \ {0}, NEW amount \in Nat,
           NEW next \in NextPricesFromOutput(price, liquidity, amount, "BtoA")
    PROVE  next \in Nat /\ price <= next
<1> DEFINE left == liquidity - amount * price
           ls == liquidity * price
<1>1. ~ left <= 0 /\ next = CeilDiv(ls, left)
  BY DEF NextPricesFromOutput
<1>2. amount * price \in Nat /\ ls \in Nat
  OBVIOUS
<1>3. left \in Nat \ {0} /\ left <= liquidity
  BY <1>1, <1>2
<1> HIDE DEF left, ls
<1>4. next \in Nat /\ ls <= next * left
  BY <1>1, <1>2, <1>3, CeilBounds
<1>5. left * price <= ls
  <2>1. left * price <= liquidity * price
    BY <1>3, Monotone
  <2> QED
    BY <2>1 DEF ls
<1>6. price * left <= next * left
  <2>1. price * left = left * price /\ left * price \in Nat /\ next * left \in Nat
    BY <1>3, <1>4
  <2> QED
    BY <1>2, <1>4, <1>5, <2>1
<1> QED
  BY <1>3, <1>4, <1>6, CancelLe

\* The pool a trade finds.
LEMMA PoolWithIs ==
    ASSUME FeesInv, NEW liquidity \in PoolLiquidities
    PROVE  LET pool == PoolWith(liquidity)
           IN /\ pool.liquidity = liquidity /\ liquidity \in Nat \ {0}
              /\ pool.sqrt_price = sqrt_price /\ sqrt_price \in Nat \ {0}
              /\ pool.collect_fee_mode = CollectFeeMode
              /\ pool.sqrt_max_price \in Nat /\ sqrt_price <= pool.sqrt_max_price
<1> DEFINE pool == PoolWith(liquidity)
<1>1. sqrt_price \in Prices /\ Prices \subseteq Nat \ {0} /\ liquidity \in Nat \ {0}
  BY FeesAssumption DEF FeesInv, TypeOK
<1>2. PICK least \in Prices, greatest \in Prices : Prices \subseteq least .. greatest
  BY FeesAssumption
<1>3. \A q \in Prices : greatest >= q
  BY <1>1, <1>2
<1>4. \E p \in Prices : \A q \in Prices : p >= q
  BY <1>3
<1>5. pool.sqrt_max_price = CHOOSE p \in Prices : \A q \in Prices : p >= q
  BY DEF PoolWith
<1>6. pool.sqrt_max_price \in Prices /\ \A q \in Prices : pool.sqrt_max_price >= q
  BY <1>4, <1>5
<1>7. /\ pool.liquidity = liquidity /\ pool.sqrt_price = sqrt_price
      /\ pool.collect_fee_mode = CollectFeeMode
  BY DEF PoolWith
<1> HIDE DEF pool
<1>8. sqrt_price <= pool.sqrt_max_price
  BY <1>1, <1>6
<1> QED
  BY <1>1, <1>6, <1>7, <1>8 DEF pool

\* The numerators of a pool with a limiter.
LEMMA TotalsAre ==
    ASSUME FeesInv, IsLimiter(base_fee), NEW point, NEW dir, NEW amount \in Nat
    PROVE  \E b \in Nat :
              /\ NumeratorsWithin(point, dir, amount) = {TotalNumerator(b)}
              /\ b = IF LimiterApplied(base_fee, point, dir)
                     THEN LimiterNumerator(base_fee, amount)
                     ELSE base_fee.cliff_fee_numerator
<1>1. base_fee \in BaseFees /\ ValidBaseFee(base_fee)
  BY DEF FeesInv, TypeOK
<1>2. base_fee.cliff_fee_numerator \in Nat
  BY <1>1, FeesAssumption DEF Schedulers, Limiters
<1>3. CASE LimiterApplied(base_fee, point, dir)
  <2>1. Limits(base_fee)
    BY <1>1, <1>3 DEF Limits, LimiterApplied
  <2>2. LimiterNumerator(base_fee, amount) \in Nat
    BY <2>1, NumeratorAtLeastCliff
  <2>3. NumeratorsWithin(point, dir, amount) = {TotalNumerator(LimiterNumerator(base_fee, amount))}
    BY <1>3 DEF NumeratorsWithin, IncludedNumerators
  <2> QED
    BY <1>3, <2>2, <2>3
<1>4. CASE ~ LimiterApplied(base_fee, point, dir)
  <2>1. NumeratorsWithin(point, dir, amount) = {TotalNumerator(base_fee.cliff_fee_numerator)}
    BY <1>4 DEF NumeratorsWithin, IncludedNumerators
  <2> QED
    BY <1>2, <1>4, <2>1
<1> QED
  BY <1>3, <1>4

LEMMA TotalsOnTopAre ==
    ASSUME FeesInv, IsLimiter(base_fee), NEW point, NEW dir, NEW e \in Nat,
           NEW n \in NumeratorsOnTop(point, dir, e)
    PROVE  \E b \in Nat :
              /\ n = TotalNumerator(b)
              /\ IF LimiterApplied(base_fee, point, dir)
                 THEN b \in NumeratorsForOutput(base_fee, e)
                 ELSE b = base_fee.cliff_fee_numerator
<1>1. base_fee \in BaseFees /\ ValidBaseFee(base_fee)
  BY DEF FeesInv, TypeOK
<1>2. PICK b \in ExcludedNumerators(base_fee, point, dir, e) : n = TotalNumerator(b)
  BY DEF NumeratorsOnTop
<1>3. CASE LimiterApplied(base_fee, point, dir)
  <2>1. b \in NumeratorsForOutput(base_fee, e)
    BY <1>2, <1>3 DEF ExcludedNumerators
  <2>2. Limits(base_fee)
    BY <1>1, <1>3 DEF Limits, LimiterApplied
  <2>3. b \in Nat
    BY <2>1, <2>2, NumeratorsFound
  <2> QED
    BY <1>2, <1>3, <2>1, <2>3
<1>4. CASE ~ LimiterApplied(base_fee, point, dir)
  <2>1. b = base_fee.cliff_fee_numerator
    BY <1>2, <1>4 DEF ExcludedNumerators
  <2>2. b \in Nat
    BY <1>1, <2>1, FeesAssumption DEF Schedulers, Limiters
  <2> QED
    BY <1>2, <1>4, <2>1, <2>2
<1> QED
  BY <1>3, <1>4

LEMMA TotalIs ==
    ASSUME FeesInv, NEW b \in Nat
    PROVE  /\ TotalNumerator(b) = Least(MAX_FEE_NUMERATOR, VariableFee + b)
           /\ TotalNumerator(b) \in Nat /\ TotalNumerator(b) <= MAX_FEE_NUMERATOR
           /\ VariableFee \in Nat /\ MAX_FEE_NUMERATOR \in Nat
<1>1. VariableFee \in Nat
  BY VariableFeeIsNat
<1>2. VariableFee + b \in Nat
  BY <1>1
<1> QED
  BY <1>1, <1>2, CappedIs DEF TotalNumerator

\* A trade that pays its fee in pays all it offers, and the fee within that,
\* or what the curve asks for and the fee on top.
LEMMA QuotesOnInput ==
    ASSUME FeesInv, IsLimiter(base_fee), NEW dir, FeesOnInput(CollectFeeMode, dir),
           NEW liquidity \in PoolLiquidities, NEW mode \in Modes, NEW point,
           NEW amount \in Nat,
           NEW q \in TradeQuotes(mode, PoolWith(liquidity), point, dir, amount)
    PROVE  \/ /\ q.paid = amount
              /\ \E n \in NumeratorsWithin(point, dir, amount) : q.fee = FeeWithin(amount, n)
           \/ \E e \in Nat : \E n \in NumeratorsOnTop(point, dir, e) :
                 /\ q.fee = FeeOnTop(e, n) /\ q.paid = e + q.fee
                 /\ mode = "PartialFill" =>
                      \E m \in NumeratorsWithin(point, dir, amount) :
                          e < amount - FeeWithin(amount, m)
<1> DEFINE pool == PoolWith(liquidity)
           within == NumeratorsWithin(point, dir, amount)
           on_top == [x \in Nat |-> NumeratorsOnTop(point, dir, x)]
           OnTop(e) == \E n \in NumeratorsOnTop(point, dir, e) :
                          q.fee = FeeOnTop(e, n) /\ q.paid = e + q.fee
<1>1. dir = "BtoA" /\ FeesOnInput(pool.collect_fee_mode, dir)
  BY PoolWithIs DEF FeesOnInput
<1>2. /\ pool.liquidity \in Nat \ {0} /\ pool.sqrt_price \in Nat \ {0}
      /\ pool.sqrt_max_price \in Nat /\ pool.sqrt_price <= pool.sqrt_max_price
  BY PoolWithIs
<1>3. ASSUME NEW e \in Nat, NEW f \in FeesOnTopOfInput(pool, dir, e, on_top)
      PROVE  \E n \in NumeratorsOnTop(point, dir, e) : f = FeeOnTop(e, n)
  BY <1>1, <1>3 DEF FeesOnTopOfInput
<1> HIDE DEF pool
<1>4. \/ mode = "ExactOut" /\ q \in ExactOutput(pool, dir, amount, on_top)
      \/ \E n \in within : mode = "ExactIn" /\ q \in ExactInput(pool, dir, amount, n)
      \/ \E n \in within : mode = "PartialFill"
                             /\ q \in PartialInput(pool, dir, amount, n, on_top)
  BY DEF TradeQuotes, Modes, pool
<1> HIDE DEF on_top
<1>5. ASSUME NEW n \in within, q \in ExactInput(pool, dir, amount, n)
      PROVE  q.paid = amount /\ q.fee = FeeWithin(amount, n)
  BY <1>1, <1>5 DEF ExactInput, InputFee, InputQuote, Quote
<1>6. ASSUME NEW n \in within, q \in PartialInput(pool, dir, amount, n, on_top)
      PROVE  \/ q.paid = amount /\ q.fee = FeeWithin(amount, n)
             \/ \E e \in Nat : OnTop(e) /\ e < amount - FeeWithin(amount, n)
  <2> DEFINE actual == amount - FeeWithin(amount, n)
             limit == pool.sqrt_max_price
             most == CurveIn(pool, dir, limit)
  <2>1. InputFee(pool, dir, amount, n) = FeeWithin(amount, n) /\ dir # "AtoB"
    BY <1>1 DEF InputFee
  <2>2. most \in Nat
    BY <1>1, <1>2, RisesIsPaid
  <2>3. actual \in Int
    <3>1. PICK b \in Nat : within = {TotalNumerator(b)}
      BY TotalsAre
    <3>2. n \in Nat
      BY <3>1, TotalIs
    <3>3. FeeWithin(amount, n) \in Nat
      BY <3>2, FeeWithinIs
    <3> HIDE DEF within
    <3> QED
      BY <3>3
  <2>4. \/ actual < most /\ q = InputQuote(pool, dir, amount, FeeWithin(amount, n),
                                   NextPriceFromInput(pool.sqrt_price, pool.liquidity,
                                                      actual, dir), n)
        \/ actual = most /\ q = InputQuote(pool, dir, amount, FeeWithin(amount, n), limit, n)
        \/ /\ ~ actual < most /\ actual # most
           /\ \E fee \in FeesOnTopOfInput(pool, dir, most, on_top) :
                q = InputQuote(pool, dir, most + fee, fee, limit, n)
    BY <1>6, <2>1 DEF PartialInput
  <2> HIDE DEF actual, most, limit, within
  <2>5. CASE /\ ~ actual < most /\ actual # most
             /\ \E fee \in FeesOnTopOfInput(pool, dir, most, on_top) :
                q = InputQuote(pool, dir, most + fee, fee, limit, n)
    <3>1. PICK fee \in FeesOnTopOfInput(pool, dir, most, on_top) :
                q = InputQuote(pool, dir, most + fee, fee, limit, n)
      BY <2>5
    <3>2. q.paid = most + fee /\ q.fee = fee
      BY <1>1, <3>1 DEF InputQuote, Quote
    <3>3. OnTop(most)
      BY <1>3, <2>2, <3>2
    <3>4. most < actual
      BY <2>2, <2>3, <2>5
    <3> QED
      BY <2>2, <3>3, <3>4 DEF actual
  <2>6. ASSUME NEW next, q = InputQuote(pool, dir, amount, FeeWithin(amount, n), next, n)
        PROVE  q.paid = amount /\ q.fee = FeeWithin(amount, n)
    BY <1>1, <2>6 DEF InputQuote, Quote
  <2> QED
    BY <2>4, <2>5, <2>6
<1>7. ASSUME q \in ExactOutput(pool, dir, amount, on_top)
      PROVE  \E e \in Nat : OnTop(e)
  <2>1. PICK next \in NextPricesFromOutput(pool.sqrt_price, pool.liquidity, amount + 0, dir) :
             \E fee \in FeesOnTopOfInput(pool, dir, CurveIn(pool, dir, next), on_top) :
                q = Quote(CurveIn(pool, dir, next) + fee, amount, fee + 0, next)
    BY <1>1, <1>7 DEF ExactOutput
  <2>2. amount + 0 = amount
    OBVIOUS
  <2>3. next \in Nat /\ pool.sqrt_price <= next
    BY <1>1, <1>2, <2>1, <2>2, NextPriceRises
  <2> DEFINE e == CurveIn(pool, dir, next)
  <2>4. e \in Nat
    BY <1>1, <1>2, <2>3, RisesIsPaid
  <2>5. PICK fee \in FeesOnTopOfInput(pool, dir, e, on_top) :
               q = Quote(e + fee, amount, fee + 0, next)
    BY <2>1
  <2> HIDE DEF e
  <2>6. PICK n \in NumeratorsOnTop(point, dir, e) : fee = FeeOnTop(e, n)
    BY <1>3, <2>4
  <2>7. q.paid = e + fee /\ q.fee = fee + 0
    BY <2>5 DEF Quote
  <2>8. fee + 0 = fee
    <3>1. PICK b \in Nat : n = TotalNumerator(b)
      BY <2>4, TotalsOnTopAre
    <3>2. n \in Nat /\ n < FEE_DENOMINATOR
      BY <3>1, TotalIs, GrowsIs
    <3>3. FeeOnTop(e, n) \in Int
      BY <2>4, <3>2, PaidIs
    <3> QED
      BY <2>6, <3>3
  <2> QED
    BY <2>4, <2>6, <2>7, <2>8
<1> HIDE DEF within
<1>8. CASE mode = "ExactOut" /\ q \in ExactOutput(pool, dir, amount, on_top)
  BY <1>7, <1>8
<1>9. CASE \E n \in within : mode = "ExactIn" /\ q \in ExactInput(pool, dir, amount, n)
  BY <1>5, <1>9 DEF within
<1>10. CASE \E n \in within : mode = "PartialFill"
                             /\ q \in PartialInput(pool, dir, amount, n, on_top)
  BY <1>6, <1>10 DEF within
<1> QED
  BY <1>4, <1>8, <1>9, <1>10

\* The tolerances are numbers.
LEMMA Tolerance ==
    ASSUME NEW paid \in Nat, NEW n \in Nat, n <= MAX_FEE_NUMERATOR
    PROVE  /\ UnitOf(paid) \in Nat /\ Rounding(paid) \in Nat
           /\ Rounding(paid) * Grows(n) \in Nat
<1>1. UnitOf(paid) \in Nat /\ Rounding(paid) \in Nat
  BY UnitTypes DEF Rounding
<1>2. Grows(n) \in Nat
  BY GrowsIs
<1> QED
  BY <1>1, <1>2

\* The fee on top of an amount is nearly that within the two.
LEMMA OnTopAgrees ==
    ASSUME FeesInv, IsLimiter(base_fee), NEW point, NEW dir, NEW e \in Nat,
           NEW n \in NumeratorsOnTop(point, dir, e),
           NEW w \in NumeratorsWithin(point, dir, e + FeeOnTop(e, n)),
           NEW t \in NumeratorsOnTop(point, dir, e)
    PROVE  LET fee == FeeOnTop(e, n)
               paid == e + fee
               more == fee - FeeWithin(paid, w)
           IN IF VariableFee = 0
              THEN more \in -UnitOf(paid) .. Rounding(paid)
              ELSE more <= Rounding(paid) * Grows(t)
<1> DEFINE fee == FeeOnTop(e, n)
           paid == e + fee
           more == fee - FeeWithin(paid, w)
<1>1. PICK b \in Nat : /\ n = TotalNumerator(b)
                       /\ IF LimiterApplied(base_fee, point, dir)
                          THEN b \in NumeratorsForOutput(base_fee, e)
                          ELSE b = base_fee.cliff_fee_numerator
  BY TotalsOnTopAre
<1>2. PICK a \in Nat : /\ t = TotalNumerator(a)
                       /\ IF LimiterApplied(base_fee, point, dir)
                          THEN a \in NumeratorsForOutput(base_fee, e)
                          ELSE a = base_fee.cliff_fee_numerator
  BY TotalsOnTopAre
<1>3. t = n
  <2>1. a = b
    BY <1>1, <1>2, NumeratorsAgree
  <2> QED
    BY <1>1, <1>2, <2>1
<1>4. n = Least(MAX_FEE_NUMERATOR, VariableFee + b) /\ n \in Nat /\ n <= MAX_FEE_NUMERATOR
      /\ VariableFee \in Nat
  BY <1>1, TotalIs
<1>5. paid \in Nat /\ FeeWithin(paid, n) = paid - e /\ fee = paid - e
  <2>1. n < FEE_DENOMINATOR
    BY <1>4, GrowsIs
  <2> HIDE DEF paid, fee
  <2> QED
    BY <1>4, <2>1, PaidIs DEF paid, fee
<1>6. PICK c \in Nat : /\ w = TotalNumerator(c)
                       /\ c = IF LimiterApplied(base_fee, point, dir)
                              THEN LimiterNumerator(base_fee, paid)
                              ELSE base_fee.cliff_fee_numerator
  <2>1. PICK c \in Nat : /\ NumeratorsWithin(point, dir, paid) = {TotalNumerator(c)}
                         /\ c = IF LimiterApplied(base_fee, point, dir)
                                THEN LimiterNumerator(base_fee, paid)
                                ELSE base_fee.cliff_fee_numerator
    <3> HIDE DEF paid
    <3> QED
      BY <1>5, TotalsAre
  <2> QED
    BY <2>1
<1>7. w = Least(MAX_FEE_NUMERATOR, VariableFee + c)
  BY <1>6, TotalIs
<1> HIDE DEF fee, paid
<1>8. UnitOf(paid) \in Nat /\ Rounding(paid) \in Nat /\ Rounding(paid) * Grows(n) \in Nat
  BY <1>4, <1>5, Tolerance
<1> DEFINE most == Rounding(paid) * Grows(n)
<1>9. IF VariableFee = 0 THEN more \in -UnitOf(paid) .. Rounding(paid) ELSE more <= most
  <2>1. CASE ~ LimiterApplied(base_fee, point, dir)
    <3>1. w = n
      BY <1>1, <1>6, <2>1
    <3>2. more = 0
      BY <1>5, <3>1
    <3> HIDE DEF more, most
    <3> QED
      BY <1>8, <3>2 DEF most
  <2>2. CASE LimiterApplied(base_fee, point, dir)
    <3>1. Limits(base_fee)
      BY <2>2 DEF FeesInv, TypeOK, Limits, LimiterApplied
    <3>2. b \in NumeratorsForOutput(base_fee, e) /\ c = LimiterNumerator(base_fee, paid)
      BY <1>1, <1>6, <2>2
    <3>3. CASE VariableFee = 0
      <4>1. n = Least(MAX_FEE_NUMERATOR, b) /\ w = Least(MAX_FEE_NUMERATOR, c)
        BY <1>4, <1>7, <3>3
      <4>2. paid = Paid(e, b)
        BY <4>1 DEF Paid, paid, fee
      <4> DEFINE buys == paid - FeeWithin(paid, w)
      <4>3. buys \in e - UnitOf(paid) .. e + Rounding(paid)
        BY <3>1, <3>2, <4>1, <4>2, InvertsNearly
      <4>4. more = buys - e
        <5>1. FeeWithin(paid, w) \in Int
          <6>1. w \in Nat
            BY <1>6, TotalIs
          <6> QED
            BY <1>5, <6>1, FeeWithinIs
        <5> QED
          BY <1>5, <5>1
      <4> HIDE DEF buys, more
      <4>5. more \in -UnitOf(paid) .. Rounding(paid)
        BY <1>8, <4>3, <4>4
      <4> QED
        BY <3>3, <4>5
    <3>4. CASE VariableFee # 0
      <4>1. more <= most
        BY <1>4, <1>7, <3>1, <3>2, OnTopIsNoMore DEF paid, fee
      <4> QED
        BY <3>4, <4>1
    <3> QED
      BY <3>3, <3>4
  <2> QED
    BY <2>1, <2>2
<1> QED
  BY <1>3, <1>9 DEF paid, fee

\* The fee of all that is offered is that of an exact-in trade.
LEMMA UncutAgrees ==
    ASSUME FeesInv, IsLimiter(base_fee), NEW point, NEW dir, NEW amount \in Nat,
           NEW n \in NumeratorsWithin(point, dir, amount),
           NEW w \in NumeratorsWithin(point, dir, amount)
    PROVE  LET more == FeeWithin(amount, n) - FeeWithin(amount, w)
           IN /\ more \in -UnitOf(amount) .. Rounding(amount)
              /\ \A t \in NumeratorsOnTop(point, dir, amount - FeeWithin(amount, n)) :
                    more <= Rounding(amount) * Grows(t)
<1> DEFINE F == FeeWithin(amount, n)
           more == F - FeeWithin(amount, w)
<1>1. PICK b \in Nat : NumeratorsWithin(point, dir, amount) = {TotalNumerator(b)}
  BY TotalsAre
<1>2. n \in Nat /\ n <= MAX_FEE_NUMERATOR /\ w = n
  BY <1>1, TotalIs
<1>3. F \in Nat /\ F <= amount
  <2>1. F \in Nat
    BY <1>2, FeeWithinIs
  <2>2. FEE_DENOMINATOR \in Nat \ {0} /\ n <= FEE_DENOMINATOR
    BY <1>2, GrowsIs, CurveAssumption
  <2>3. amount * n <= amount * FEE_DENOMINATOR /\ amount * n \in Nat
    <3>1. n * amount <= FEE_DENOMINATOR * amount
      BY <1>2, <2>2, Monotone
    <3> QED
      BY <1>2, <2>2, <3>1
  <2>4. F <= amount
    BY <2>2, <2>3, CeilAtMost DEF FeeWithin, MulDiv
  <2> QED
    BY <2>1, <2>4
<1>4. more = 0
  <2> HIDE DEF F
  <2>1. FeeWithin(amount, w) = F
    BY <1>2 DEF F
  <2> QED
    BY <1>3, <2>1
<1>5. amount - F \in Nat
  <2> HIDE DEF F
  <2> QED
    BY <1>3
<1>6. more \in -UnitOf(amount) .. Rounding(amount)
  <2>1. UnitOf(amount) \in Nat /\ Rounding(amount) \in Nat
    BY <1>2, Tolerance
  <2> HIDE DEF more
  <2> QED
    BY <1>4, <2>1
<1>7. ASSUME NEW t \in NumeratorsOnTop(point, dir, amount - F)
      PROVE  more <= Rounding(amount) * Grows(t)
  <2>1. PICK a \in Nat : t = TotalNumerator(a)
    BY <1>5, TotalsOnTopAre
  <2>2. t \in Nat /\ t <= MAX_FEE_NUMERATOR
    BY <2>1, TotalIs
  <2>3. Rounding(amount) * Grows(t) \in Nat
    BY <2>2, Tolerance
  <2> HIDE DEF more
  <2> QED
    BY <1>4, <2>3
<1> QED
  BY <1>6, <1>7

\* What is paid for the part of an offer that the range takes.
LEMMA PartAgrees ==
    ASSUME FeesInv, IsLimiter(base_fee), VariableFee = 0, NEW point, NEW dir,
           NEW amount \in Nat, NEW e \in Nat,
           NEW n \in NumeratorsOnTop(point, dir, e),
           NEW m \in NumeratorsWithin(point, dir, amount),
           e < amount - FeeWithin(amount, m)
    PROVE  LET paid == e + FeeOnTop(e, n)
           IN paid <= amount + Rounding(paid) * Grows(MAX_FEE_NUMERATOR)
<1> DEFINE paid == e + FeeOnTop(e, n)
           most == Rounding(paid) * Grows(MAX_FEE_NUMERATOR)
<1>1. PICK b \in Nat : /\ n = TotalNumerator(b)
                       /\ IF LimiterApplied(base_fee, point, dir)
                          THEN b \in NumeratorsForOutput(base_fee, e)
                          ELSE b = base_fee.cliff_fee_numerator
  BY TotalsOnTopAre
<1>2. PICK c \in Nat : /\ m = TotalNumerator(c)
                       /\ c = IF LimiterApplied(base_fee, point, dir)
                              THEN LimiterNumerator(base_fee, amount)
                              ELSE base_fee.cliff_fee_numerator
  <2>1. PICK c \in Nat : /\ NumeratorsWithin(point, dir, amount) = {TotalNumerator(c)}
                         /\ c = IF LimiterApplied(base_fee, point, dir)
                                THEN LimiterNumerator(base_fee, amount)
                                ELSE base_fee.cliff_fee_numerator
    BY TotalsAre
  <2> QED
    BY <2>1
<1>3. /\ n = Least(MAX_FEE_NUMERATOR, b) /\ m = Least(MAX_FEE_NUMERATOR, c)
      /\ n \in Nat /\ n <= MAX_FEE_NUMERATOR /\ m \in Nat /\ m <= MAX_FEE_NUMERATOR
      /\ MAX_FEE_NUMERATOR \in Nat
  <2>1. VariableFee + b = b /\ VariableFee + c = c
    OBVIOUS
  <2> QED
    BY <1>1, <1>2, <2>1, TotalIs
<1>4. CASE ~ LimiterApplied(base_fee, point, dir)
  <2>1. m = n
    BY <1>1, <1>2, <1>4
  <2>2. n <= n
    BY <1>3
  <2>3. paid <= amount
    BY <1>3, <2>1, <2>2, OfferPays
  <2>4. paid \in Nat
    <3>1. n < FEE_DENOMINATOR
      BY <1>3, GrowsIs
    <3> HIDE DEF paid
    <3> QED
      BY <1>3, <3>1, PaidIs DEF paid
  <2> HIDE DEF paid
  <2>5. most \in Nat
    <3>1. MAX_FEE_NUMERATOR <= MAX_FEE_NUMERATOR
      BY <1>3
    <3> QED
      BY <1>3, <2>4, <3>1, Tolerance
  <2> HIDE DEF most
  <2>6. paid <= amount + most
    BY <2>3, <2>4, <2>5
  <2> QED
    BY <2>6 DEF most, paid
<1>5. CASE LimiterApplied(base_fee, point, dir)
  <2>1. Limits(base_fee)
    BY <1>5 DEF FeesInv, TypeOK, Limits, LimiterApplied
  <2>2. b \in NumeratorsForOutput(base_fee, e) /\ c = LimiterNumerator(base_fee, amount)
    BY <1>1, <1>2, <1>5
  <2>3. paid = Paid(e, b)
    BY <1>3 DEF Paid
  <2>4. e < amount - FeeWithin(amount, Least(MAX_FEE_NUMERATOR,
                                            LimiterNumerator(base_fee, amount)))
    BY <1>3, <2>2
  <2> HIDE DEF paid
  <2>5. paid <= amount + most
    BY <2>1, <2>2, <2>3, <2>4, PartIsNoMore
  <2> QED
    BY <2>5 DEF paid
<1> QED
  BY <1>4, <1>5

\* However a trade is asked for, it pays the fee of what it pays in: for every
\* accepted limiter, pool, amount and volatility, an exact output and a partial
\* fill cut short are charged, to within a few units of the numerator, what an
\* exact input of the same amount is, and at most those few units times what
\* the fee leaves of each token while the price swings; and an offer beyond
\* what the range takes costs at most those few units more than it offers.
THEOREM OneFee == Spec => []OneFeeForAllModes
<1>1. FeesInv => OneFeeForAllModes
  <2> SUFFICES ASSUME FeesInv, IsLimiter(base_fee),
                      NEW dir \in {d \in Directions : FeesOnInput(CollectFeeMode, d)},
                      NEW liquidity \in PoolLiquidities, NEW mode \in Modes,
                      NEW point \in {ActivationPoint, MaxPoint},
                      NEW amount \in 1 .. MAX_AMOUNT,
                      NEW q \in TradeQuotes(mode, PoolWith(liquidity), point, dir, amount)
               PROVE  /\ \A w \in NumeratorsWithin(point, dir, q.paid) :
                           LET more == q.fee - FeeWithin(q.paid, w)
                           IN IF VariableFee = 0
                              THEN more \in -UnitOf(q.paid) .. Rounding(q.paid)
                              ELSE \A t \in NumeratorsOnTop(point, dir, q.paid - q.fee) :
                                     more <= Rounding(q.paid) * Grows(t)
                      /\ mode = "PartialFill" /\ VariableFee = 0
                           => q.paid <= amount + Rounding(q.paid) * Grows(MAX_FEE_NUMERATOR)
    BY DEF OneFeeForAllModes
  <2>1. amount \in Nat /\ MAX_FEE_NUMERATOR \in Nat
    BY FeesAssumption, CurveAssumption
  <2>2. CASE /\ q.paid = amount
             /\ \E n \in NumeratorsWithin(point, dir, amount) : q.fee = FeeWithin(amount, n)
    <3>1. PICK n \in NumeratorsWithin(point, dir, amount) : q.fee = FeeWithin(amount, n)
      BY <2>2
    <3>2. q.paid <= amount + Rounding(q.paid) * Grows(MAX_FEE_NUMERATOR)
      <4>1. MAX_FEE_NUMERATOR <= MAX_FEE_NUMERATOR
        BY <2>1
      <4>2. Rounding(amount) * Grows(MAX_FEE_NUMERATOR) \in Nat
        BY <2>1, <4>1, Tolerance
      <4> DEFINE most == Rounding(amount) * Grows(MAX_FEE_NUMERATOR)
      <4> HIDE DEF most
      <4>3. amount <= amount + most
        BY <2>1, <4>2 DEF most
      <4> QED
        BY <2>2, <4>3 DEF most
    <3>3. ASSUME NEW w \in NumeratorsWithin(point, dir, amount)
          PROVE  LET more == FeeWithin(amount, n) - FeeWithin(amount, w)
                 IN IF VariableFee = 0
                    THEN more \in -UnitOf(amount) .. Rounding(amount)
                    ELSE \A t \in NumeratorsOnTop(point, dir, amount - FeeWithin(amount, n)) :
                            more <= Rounding(amount) * Grows(t)
      BY <2>1, UncutAgrees
    <3> QED
      BY <2>2, <3>1, <3>2, <3>3
  <2>3. CASE \E e \in Nat : \E n \in NumeratorsOnTop(point, dir, e) :
                 /\ q.fee = FeeOnTop(e, n) /\ q.paid = e + q.fee
                 /\ mode = "PartialFill" =>
                      \E m \in NumeratorsWithin(point, dir, amount) :
                          e < amount - FeeWithin(amount, m)
    <3>1. PICK e \in Nat : \E n \in NumeratorsOnTop(point, dir, e) :
                 /\ q.fee = FeeOnTop(e, n) /\ q.paid = e + q.fee
                 /\ mode = "PartialFill" =>
                      \E m \in NumeratorsWithin(point, dir, amount) :
                          e < amount - FeeWithin(amount, m)
      BY <2>3
    <3>2. PICK n \in NumeratorsOnTop(point, dir, e) :
                 /\ q.fee = FeeOnTop(e, n) /\ q.paid = e + q.fee
                 /\ mode = "PartialFill" =>
                      \E m \in NumeratorsWithin(point, dir, amount) :
                          e < amount - FeeWithin(amount, m)
      BY <3>1
    <3>3. q.paid - q.fee = e /\ q.paid = e + FeeOnTop(e, n)
      <4>1. PICK b \in Nat : n = TotalNumerator(b)
        BY TotalsOnTopAre
      <4>2. n \in Nat /\ n < FEE_DENOMINATOR
        BY <4>1, TotalIs, GrowsIs
      <4>3. FeeOnTop(e, n) \in Int
        BY <4>2, PaidIs
      <4> QED
        BY <3>2, <4>3
    <3>4. ASSUME mode = "PartialFill", VariableFee = 0
          PROVE  q.paid <= amount + Rounding(q.paid) * Grows(MAX_FEE_NUMERATOR)
      BY <2>1, <3>2, <3>3, <3>4, PartAgrees
    <3>5. ASSUME NEW w \in NumeratorsWithin(point, dir, q.paid),
                 NEW t \in NumeratorsOnTop(point, dir, e)
          PROVE  LET more == q.fee - FeeWithin(q.paid, w)
                 IN IF VariableFee = 0
                    THEN more \in -UnitOf(q.paid) .. Rounding(q.paid)
                    ELSE more <= Rounding(q.paid) * Grows(t)
      BY <3>2, <3>3, OnTopAgrees
    <3> QED
      BY <3>2, <3>3, <3>4, <3>5
  <2> QED
    BY <2>1, <2>2, <2>3, QuotesOnInput
<1> QED
  BY <1>1, FeesInvariant, PTL
=============================================================================
