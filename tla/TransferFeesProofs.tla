------------------------ MODULE TransferFeesProofs ------------------------
(***************************************************************************)
(* The inverse of the transfer fee is exact for every rate, limit and      *)
(* amount: utils/token.rs never fails with FeeInverseIsIncorrect.  And a   *)
(* partial fill never asks for more than was offered.                      *)
(***************************************************************************)
EXTENDS TransferFees, CpAmmMathProofs, TLAPS

-----------------------------------------------------------------------------
(* The fee.                                                                *)

FeeType == [basis_points : 0 .. MAX_FEE_BASIS_POINTS, maximum_fee : Nat]

LEMMA FeeIsNat ==
    ASSUME NEW fee \in FeeType, NEW amount \in Nat
    PROVE  CalculateFee(fee, amount) \in Nat
<1> USE TransferAssumption DEF FeeType
<1>1. amount * fee.basis_points \in Nat
  OBVIOUS
<1>2. CeilDiv(amount * fee.basis_points, MAX_FEE_BASIS_POINTS) \in Nat
  BY <1>1, CeilBounds
<1> QED
  BY <1>2 DEF CalculateFee, Least

\* A fee of the whole amount: the limit is what is kept.
LEMMA AllIsKept ==
    ASSUME NEW fee \in FeeType, NEW a \in Nat, fee.basis_points = MAX_FEE_BASIS_POINTS
    PROVE  CalculateFee(fee, a + fee.maximum_fee) = fee.maximum_fee
<1> DEFINE M == MAX_FEE_BASIS_POINTS
           n == a + fee.maximum_fee
<1> USE TransferAssumption DEF FeeType
<1>1. n * M \in Nat /\ n * M < n * M + M
  OBVIOUS
<1>2. CeilDiv(n * M, M) = n
  BY <1>1, CeilIs
<1> QED
  BY <1>2 DEF CalculateFee, Least

\* Below its limit: the amount before the fee is a quotient rounded up, and
\* the fee of that quotient is all that was added.
LEMMA ExactBelowLimit ==
    ASSUME NEW M \in Nat \ {0}, NEW b \in 0 .. (M - 1), NEW a \in Nat
    PROVE  LET raw == CeilDiv(a * M, M - b)
           IN  /\ raw \in Nat
               /\ a <= raw
               /\ CeilDiv(raw * b, M) = raw - a
<1> DEFINE d == M - b
           raw == CeilDiv(a * M, d)
<1>0. d \in Nat \ {0} /\ d <= M /\ a * M \in Nat
  OBVIOUS
<1>1. raw \in Nat /\ a * M <= raw * d /\ raw * d < a * M + d
  BY <1>0, CeilBounds
<1> HIDE DEF raw
<1>2. raw * d = raw * M - raw * b
  BY <1>1
<1>3. (raw - a) * M = raw * M - a * M
  BY <1>1
<1>4. raw * M \in Nat /\ raw * b \in Nat
  BY <1>1
<1>5. a <= raw
  <2>1. SUFFICES ASSUME raw < a PROVE FALSE
    BY <1>1
  <2>2. (raw + 1) * d <= a * d
    BY <1>0, <1>1, <2>1, Monotone
  <2>3. d * a <= M * a
    BY <1>0, Monotone
  <2>4. (raw + 1) * d = raw * d + d /\ d * a = a * d /\ M * a = a * M
    BY <1>0, <1>1
  <2>5. a * d \in Int /\ raw * d \in Int
    BY <1>0, <1>1
  <2> HIDE DEF d
  <2> QED
    BY <1>0, <1>1, <2>2, <2>3, <2>4, <2>5
<1>6. CeilDiv(raw * b, M) = raw - a
  <2>1. raw * b <= (raw - a) * M
    BY <1>0, <1>1, <1>2, <1>3, <1>4
  <2>2. (raw - a) * M < raw * b + M
    BY <1>0, <1>1, <1>2, <1>3, <1>4
  <2> QED
    BY <1>1, <1>4, <2>1, <2>2, CeilIs
<1> QED
  BY <1>1, <1>5, <1>6 DEF raw

\* At its limit: the fee of what must be sent reaches the limit too.
LEMMA ReachesLimit ==
    ASSUME NEW M \in Nat \ {0}, NEW b \in 0 .. (M - 1), NEW a \in Nat, NEW max \in Nat,
           CeilDiv(a * M, M - b) - a >= max
    PROVE  CeilDiv((a + max) * b, M) >= max
<1> DEFINE d == M - b
           raw == CeilDiv(a * M, d)
           n == (a + max) * b
           k == CeilDiv(n, M)
<1>0. d \in Nat \ {0} /\ a * M \in Nat /\ n \in Nat
  OBVIOUS
<1>1. raw \in Nat /\ raw * d < a * M + d
  BY <1>0, CeilBounds
<1>2. k \in Nat /\ n <= k * M
  BY <1>0, CeilBounds
<1> HIDE DEF raw, k
<1>3. (a + max) * d <= raw * d
  BY <1>0, <1>1, Monotone DEF raw
<1>4. (a + max) * d = a * M + max * M - n
  OBVIOUS
<1>5. max * M < (k + 1) * M
  <2>1. (k + 1) * M = k * M + M
    BY <1>2
  <2>2. k * M \in Int /\ max * M \in Int /\ raw * d \in Int
    BY <1>0, <1>1, <1>2
  <2> QED
    BY <1>0, <1>1, <1>2, <1>3, <1>4, <2>1, <2>2
<1>6. max < k + 1
  BY <1>2, <1>5, Cancel
<1> QED
  BY <1>2, <1>6 DEF k

-----------------------------------------------------------------------------
(* The inverse.                                                            *)

\* What is sent, less the fee on what is sent, is what shall arrive.
LEMMA InverseFeeExact ==
    ASSUME NEW fee \in FeeType, NEW a \in Nat
    PROVE  /\ InverseFee(fee, a) \in Nat
           /\ CalculateFee(fee, a + InverseFee(fee, a)) = InverseFee(fee, a)
<1> DEFINE M == MAX_FEE_BASIS_POINTS
           b == fee.basis_points
           max == fee.maximum_fee
           raw == CeilDiv(a * M, M - b)
<1> USE TransferAssumption DEF FeeType
<1>1. CASE b = M
  BY <1>1, AllIsKept DEF InverseFee
<1>2. CASE b # M /\ raw - a >= max
  <2>1. b \in 0 .. (M - 1)
    BY <1>2
  <2>2. CeilDiv((a + max) * b, M) >= max
    BY <1>2, <2>1, ReachesLimit
  <2>3. (a + max) * b \in Nat
    OBVIOUS
  <2>4. CeilDiv((a + max) * b, M) \in Nat
    BY <2>3, CeilBounds
  <2>5. CalculateFee(fee, a + max) = max
    BY <2>2, <2>4 DEF CalculateFee, Least
  <2>6. PreFeeAmount(fee, a) = a + max
    BY <1>2 DEF PreFeeAmount
  <2> QED
    BY <1>2, <2>5, <2>6 DEF InverseFee
<1>3. CASE b # M /\ ~(raw - a >= max)
  <2>1. b \in 0 .. (M - 1)
    BY <1>3
  <2>2. raw \in Nat /\ a <= raw /\ CeilDiv(raw * b, M) = raw - a
    BY <2>1, ExactBelowLimit
  <2>3. PreFeeAmount(fee, a) = raw
    BY <1>3 DEF PreFeeAmount
  <2> HIDE DEF raw
  <2>4. CalculateFee(fee, raw) = raw - a
    BY <1>3, <2>2 DEF CalculateFee, Least
  <2>5. a + (raw - a) = raw
    BY <2>2
  <2> QED
    BY <1>3, <2>2, <2>3, <2>4, <2>5 DEF InverseFee
<1> QED
  BY <1>1, <1>2, <1>3

\* Nothing is kept of nothing.
LEMMA NoFeeOfNothing ==
    ASSUME NEW fee \in FeeType
    PROVE  CalculateFee(fee, 0) = 0
<1> USE TransferAssumption DEF FeeType
<1>1. 0 * fee.basis_points = 0
  OBVIOUS
<1>2. CeilDiv(0, MAX_FEE_BASIS_POINTS) = 0
  BY CeilIs
<1> QED
  BY <1>1, <1>2 DEF CalculateFee, Least

\* For every denominator, every set of fees and every amount: the fee
\* computed backwards is the one the mint keeps (token.rs:116-119 never
\* fails), and what the pool counts on is what arrives.
THEOREM InverseExact == InverseNeverFails
<1> SUFFICES ASSUME NEW fee \in TransferFees, NEW amount \in Nat
             PROVE  /\ InverseIsCorrect(fee, amount)
                    /\ Excluded(fee, Included(fee, amount)) = amount
  BY DEF InverseNeverFails
<1>1. fee \in FeeType
  BY TransferAssumption DEF FeeType
<1>2. CASE amount = 0
  BY <1>1, <1>2, NoFeeOfNothing DEF InverseIsCorrect, Excluded, Included
<1>3. CASE amount # 0
  <2>1. /\ InverseFee(fee, amount) \in Nat
        /\ CalculateFee(fee, amount + InverseFee(fee, amount)) = InverseFee(fee, amount)
    BY <1>1, InverseFeeExact
  <2> QED
    BY <1>1, <1>3, <2>1 DEF InverseIsCorrect, Excluded, Included
<1> QED
  BY <1>2, <1>3

-----------------------------------------------------------------------------
(* A part of what was offered.                                             *)

\* The fee computed backwards is never more than the limit, nor than what
\* the rate alone makes of it.
LEMMA InverseBounds ==
    ASSUME NEW fee \in FeeType, NEW a \in Nat, fee.basis_points # MAX_FEE_BASIS_POINTS
    PROVE  LET raw == CeilDiv(a * MAX_FEE_BASIS_POINTS,
                              MAX_FEE_BASIS_POINTS - fee.basis_points)
           IN  /\ InverseFee(fee, a) <= fee.maximum_fee
               /\ a + InverseFee(fee, a) <= raw
<1> DEFINE M == MAX_FEE_BASIS_POINTS
           b == fee.basis_points
           max == fee.maximum_fee
           raw == CeilDiv(a * M, M - b)
<1> USE TransferAssumption DEF FeeType
<1>1. b \in 0 .. (M - 1)
  OBVIOUS
<1>2. raw \in Nat /\ a <= raw /\ CeilDiv(raw * b, M) = raw - a
  BY <1>1, ExactBelowLimit
<1>3. PreFeeAmount(fee, a) \in Nat
  <2>1. PreFeeAmount(fee, a) \in {raw, a + max}
    BY DEF PreFeeAmount
  <2> HIDE DEF raw
  <2> QED
    BY <1>2, <2>1
<1>4. CeilDiv(PreFeeAmount(fee, a) * b, M) \in Nat
  <2>1. PreFeeAmount(fee, a) * b \in Nat
    BY <1>3
  <2> QED
    BY <2>1, CeilBounds
<1>5. InverseFee(fee, a) <= max
  BY <1>4 DEF InverseFee, CalculateFee, Least
<1>6. InverseFee(fee, a) \in Nat
  BY InverseFeeExact
<1>7. CASE raw - a >= max
  <2> HIDE DEF raw
  <2>1. a + InverseFee(fee, a) <= raw
    BY <1>2, <1>5, <1>6, <1>7
  <2> QED
    BY <1>5, <2>1 DEF raw
<1>8. CASE ~(raw - a >= max)
  <2>1. PreFeeAmount(fee, a) = raw
    BY <1>8 DEF PreFeeAmount
  <2>2. InverseFee(fee, a) = raw - a
    BY <1>2, <1>8, <2>1 DEF InverseFee, CalculateFee, Least
  <2> QED
    BY <1>2, <1>5, <2>2
<1> QED
  BY <1>7, <1>8

\* For every fee and every offer: if the pool takes no more than arrives of
\* the offer, what a partial fill asks for (nothing in swap_partial_fill.rs
\* compares the two) is at most what was offered.
THEOREM OfferIsEnough == PartNeverCostsMore
<1> SUFFICES ASSUME NEW fee \in TransferFees, NEW offered \in Nat,
                    NEW part \in 0 .. Excluded(fee, offered)
             PROVE  Included(fee, part) <= offered
  BY DEF PartNeverCostsMore
<1> DEFINE M == MAX_FEE_BASIS_POINTS
           b == fee.basis_points
           max == fee.maximum_fee
           kept == CeilDiv(offered * b, M)
<1>1. fee \in FeeType /\ b \in 0 .. M /\ max \in Nat /\ M \in Nat \ {0}
  BY TransferAssumption DEF FeeType
<1>2. CalculateFee(fee, offered) \in Nat
  BY <1>1, FeeIsNat
<1>3. part \in Nat /\ part <= offered - CalculateFee(fee, offered)
  BY <1>2 DEF Excluded
<1>4. CASE part = 0
  BY <1>4 DEF Included
<1>5. CASE part # 0 /\ b = M
  <2>1. offered * M \in Nat /\ offered * M < offered * M + M
    BY <1>1
  <2>2. kept = offered
    BY <1>1, <1>5, <2>1, CeilIs
  <2> QED
    BY <1>1, <1>3, <1>5, <2>2 DEF Included, InverseFee, CalculateFee, Least
<1>6. CASE part # 0 /\ b # M
  <2>1. /\ InverseFee(fee, part) \in Nat
        /\ InverseFee(fee, part) <= max
        /\ part + InverseFee(fee, part) <= CeilDiv(part * M, M - b)
    BY <1>1, <1>3, <1>6, InverseBounds, InverseFeeExact
  <2>2. Included(fee, part) = part + InverseFee(fee, part)
    BY <1>6 DEF Included
  <2>3. CASE kept < max
    <3>1. part <= offered - kept
      BY <1>3, <2>3 DEF CalculateFee, Least
    <3>2. b \in 0 .. (M - 1)
      BY <1>1, <1>6
    <3>3. CeilDiv(part * M, M - b) <= offered
      BY <1>1, <1>3, <3>1, <3>2, LeastIsWithin
    <3>4. part * M \in Nat /\ M - b \in Nat \ {0}
      BY <1>1, <1>3, <3>2
    <3>5. CeilDiv(part * M, M - b) \in Nat
      BY <3>4, CeilBounds
    <3> QED
      BY <1>3, <2>1, <2>2, <3>3, <3>5
  <2>4. CASE ~(kept < max)
    <3>1. part <= offered - max
      BY <1>3, <2>4 DEF CalculateFee, Least
    <3> QED
      BY <1>1, <1>3, <2>1, <2>2, <3>1
  <2> QED
    BY <2>3, <2>4
<1> QED
  BY <1>4, <1>5, <1>6
=============================================================================
