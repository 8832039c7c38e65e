-------------------------- MODULE CpAmmPoolProofs --------------------------
(***************************************************************************)
(* A pool stays solvent, its liquidity is that of its positions, vested    *)
(* liquidity is what the vesting accounts hold, and the fees owed are      *)
(* covered: for every number of positions and vesting accounts, every      *)
(* price range, schedule, fee and transfer fee, and every sequence of      *)
(* instructions.  The first lemmas are about the curve: moving the price   *)
(* costs at least what the reserves gain by it and yields at most what     *)
(* they lose, and a quote leaves the price in its range.                   *)
(***************************************************************************)
EXTENDS CpAmmPool, TransferFeesProofs

-----------------------------------------------------------------------------
(* Reserves.  What the price gains or loses is compared without division:  *)
(* the reserve of token a between prices P and N is L/P - L/N.             *)

LEMMA DeltaType ==
    ASSUME NEW lower \in Nat \ {0}, NEW upper \in Nat, lower <= upper, NEW L \in Nat,
           NEW round
    PROVE  /\ DeltaA(lower, upper, L, round) \in Nat
           /\ DeltaB(lower, upper, L, round) \in Nat
<1>1. upper - lower \in Nat /\ lower * upper \in Nat \ {0}
  OBVIOUS
<1>2. L * (upper - lower) \in Nat
  BY <1>1
<1>3. /\ CeilDiv(L * (upper - lower), lower * upper) \in Nat
      /\ (L * (upper - lower)) \div (lower * upper) \in Nat
  BY <1>1, <1>2, CeilBounds, DivBounds
<1>4. /\ CeilDiv(L * (upper - lower), PRICE_UNIT) \in Nat
      /\ (L * (upper - lower)) \div PRICE_UNIT \in Nat
  BY <1>2, CurveAssumption, CeilBounds, DivBounds
<1> QED
  BY <1>3, <1>4 DEF DeltaA, DeltaB, MulDiv

LEMMA ReserveA ==
    ASSUME NEW P \in Nat \ {0}, NEW N \in Nat \ {0}, NEW M \in Nat, P <= M, N <= M,
           NEW L \in Nat, NEW a \in Int, L * (P - N) <= a * (P * N)
    PROVE  DeltaA(N, M, L, "Down") <= DeltaA(P, M, L, "Down") + a
<1> DEFINE k == (L * (M - N)) \div (N * M)
<1>1. /\ N * M \in Nat \ {0} /\ P * M \in Nat \ {0} /\ P * N \in Nat \ {0}
      /\ L * (M - N) \in Nat /\ L * (M - P) \in Nat
  <2>1. M \in Nat \ {0} /\ M - N \in Nat /\ M - P \in Nat
    OBVIOUS
  <2> QED
    BY <2>1
<1>2. k \in Nat /\ k * (N * M) <= L * (M - N)
  BY <1>1, DivBounds
<1> HIDE DEF k
<1>3. (k - a) * (P * M) <= L * (M - P)
  <2>1. (k * (N * M)) * P <= (L * (M - N)) * P
    BY <1>1, <1>2, Monotone
  <2>2. (L * (P - N)) * M <= (a * (P * N)) * M
    BY <1>1, Monotone
  <2>3. ((k - a) * (P * M)) * N = (k * (N * M)) * P - (a * (P * N)) * M
    BY <1>2
  <2>4. (L * (M - P)) * N = (L * (M - N)) * P - (L * (P - N)) * M
    OBVIOUS
  <2>5. /\ (k * (N * M)) * P \in Int /\ (L * (M - N)) * P \in Int
        /\ (L * (P - N)) * M \in Int /\ (a * (P * N)) * M \in Int
    BY <1>2
  <2>6. ((k - a) * (P * M)) * N <= (L * (M - P)) * N
    BY <2>1, <2>2, <2>3, <2>4, <2>5
  <2>7. (k - a) * (P * M) \in Int /\ L * (M - P) \in Int
    BY <1>2
  <2> QED
    BY <2>6, <2>7, CancelLe
<1>4. k - a <= (L * (M - P)) \div (P * M)
  BY <1>1, <1>2, <1>3, DivAtLeast
<1>5. (L * (M - P)) \div (P * M) \in Nat
  BY <1>1, DivBounds
<1>6. k <= (L * (M - P)) \div (P * M) + a
  BY <1>2, <1>4, <1>5
<1> QED
  BY <1>6 DEF k, DeltaA, MulDiv

LEMMA ReserveB ==
    ASSUME NEW m \in Nat, NEW P \in Nat, NEW N \in Nat, m <= P, m <= N,
           NEW L \in Nat, NEW a \in Int, L * (N - P) <= a * PRICE_UNIT
    PROVE  DeltaB(m, N, L, "Down") <= DeltaB(m, P, L, "Down") + a
<1> DEFINE U == PRICE_UNIT
           k == (L * (N - m)) \div U
<1>1. U \in Nat \ {0} /\ L * (N - m) \in Nat /\ L * (P - m) \in Nat
  <2>1. N - m \in Nat /\ P - m \in Nat
    OBVIOUS
  <2> QED
    BY <2>1, CurveAssumption
<1>2. k \in Nat /\ k * U <= L * (N - m)
  BY <1>1, DivBounds
<1> HIDE DEF k
<1>3. (k - a) * U <= L * (P - m)
  <2>1. (k - a) * U = k * U - a * U
    BY <1>1, <1>2
  <2>2. L * (P - m) = L * (N - m) - L * (N - P)
    OBVIOUS
  <2>3. k * U \in Int /\ a * U \in Int /\ L * (N - m) \in Int /\ L * (N - P) \in Int
    BY <1>1, <1>2
  <2> HIDE DEF U
  <2> QED
    BY <1>2, <2>1, <2>2, <2>3 DEF U
<1>4. k - a <= (L * (P - m)) \div U
  BY <1>1, <1>2, <1>3, DivAtLeast
<1>5. (L * (P - m)) \div U \in Nat
  BY <1>1, DivBounds
<1>6. k <= (L * (P - m)) \div U + a
  BY <1>2, <1>4, <1>5
<1> QED
  BY <1>6 DEF k, DeltaB, MulDiv

\* What the curve charges for a move of the price, and what it pays.
LEMMA ChargedA ==
    ASSUME NEW lower \in Nat \ {0}, NEW upper \in Nat, lower <= upper, NEW L \in Nat
    PROVE  /\ L * (upper - lower) <= DeltaA(lower, upper, L, "Up") * (upper * lower)
           /\ DeltaA(lower, upper, L, "Down") * (upper * lower) <= L * (upper - lower)
<1>1. upper - lower \in Nat /\ lower * upper \in Nat \ {0} /\ lower * upper = upper * lower
  OBVIOUS
<1>2. L * (upper - lower) \in Nat
  BY <1>1
<1> QED
  BY <1>1, <1>2, CeilBounds, DivBounds DEF DeltaA, MulDiv

LEMMA ChargedB ==
    ASSUME NEW lower \in Nat, NEW upper \in Nat, lower <= upper, NEW L \in Nat
    PROVE  /\ L * (upper - lower) <= DeltaB(lower, upper, L, "Up") * PRICE_UNIT
           /\ DeltaB(lower, upper, L, "Down") * PRICE_UNIT <= L * (upper - lower)
<1>1. upper - lower \in Nat
  OBVIOUS
<1>2. L * (upper - lower) \in Nat
  BY <1>1
<1> QED
  BY <1>2, CurveAssumption, CeilBounds, DivBounds DEF DeltaB, MulDiv

\* Liquidity that comes and goes: what it brings covers what it adds to the
\* reserves, and the reserves lose at least what it takes.
LEMMA QuotientsAdd ==
    ASSUME NEW x \in Nat, NEW y \in Nat, NEW d \in Nat \ {0}
    PROVE  /\ (x + y) \div d <= x \div d + CeilDiv(y, d)
           /\ x \div d + y \div d <= (x + y) \div d
<1> DEFINE k == (x + y) \div d
           i == x \div d
           j == y \div d
           c == CeilDiv(y, d)
<1>1. /\ i \in Nat /\ i * d <= x /\ j \in Nat /\ j * d <= y
      /\ k \in Nat /\ k * d <= x + y /\ c \in Nat /\ y <= c * d
  <2>1. x + y \in Nat
    OBVIOUS
  <2>2. i \in Nat /\ i * d <= x
    BY DivBounds
  <2>3. j \in Nat /\ j * d <= y
    BY DivBounds
  <2>4. k \in Nat /\ k * d <= x + y
    BY <2>1, DivBounds
  <2>5. c \in Nat /\ y <= c * d
    BY CeilBounds
  <2> QED
    BY <2>2, <2>3, <2>4, <2>5
<1> HIDE DEF k, i, j, c
<1>2. (k - c) * d = k * d - c * d /\ (i + j) * d = i * d + j * d
  BY <1>1
<1>3. k * d \in Int /\ c * d \in Int /\ i * d \in Int /\ j * d \in Int
  BY <1>1
<1>4. (k - c) * d <= x /\ (i + j) * d <= x + y
  BY <1>1, <1>2, <1>3
<1>5. k - c <= i
  BY SMTT(30), <1>1, <1>4, DivAtLeast DEF i
<1>6. i + j <= k
  BY <1>1, <1>4, DivAtLeast DEF k
<1>7. k <= i + c
  BY <1>1, <1>5
<1> QED
  BY <1>6, <1>7 DEF k, i, j, c

LEMMA ReservesAdd ==
    ASSUME NEW lower \in Nat \ {0}, NEW upper \in Nat, lower <= upper,
           NEW L \in Nat, NEW D \in Nat
    PROVE  /\ DeltaA(lower, upper, L + D, "Down")
                <= DeltaA(lower, upper, L, "Down") + DeltaA(lower, upper, D, "Up")
           /\ DeltaA(lower, upper, L, "Down") + DeltaA(lower, upper, D, "Down")
                <= DeltaA(lower, upper, L + D, "Down")
           /\ DeltaB(lower, upper, L + D, "Down")
                <= DeltaB(lower, upper, L, "Down") + DeltaB(lower, upper, D, "Up")
           /\ DeltaB(lower, upper, L, "Down") + DeltaB(lower, upper, D, "Down")
                <= DeltaB(lower, upper, L + D, "Down")
<1> DEFINE w == upper - lower
<1>1. w \in Nat /\ lower * upper \in Nat \ {0} /\ PRICE_UNIT \in Nat \ {0}
  BY CurveAssumption
<1> HIDE DEF w
<1>2. (L + D) * w = L * w + D * w /\ L * w \in Nat /\ D * w \in Nat
  BY <1>1
<1> QED
  BY <1>1, <1>2, QuotientsAdd DEF DeltaA, DeltaB, MulDiv, w

-----------------------------------------------------------------------------
(* Moving the price.                                                       *)

\* A pool that can be traded with
Tradable(p) ==
    /\ p.liquidity \in Nat \ {0}
    /\ p.sqrt_min_price \in Nat \ {0} /\ p.sqrt_max_price \in Nat
    /\ p.sqrt_price \in p.sqrt_min_price .. p.sqrt_max_price

\* The price moves in the direction of the trade and stays in its range.
RightWay(p, dir, next) ==
    IF dir = "AtoB" THEN next \in p.sqrt_min_price .. p.sqrt_price
                    ELSE next \in p.sqrt_price .. p.sqrt_max_price

\* `paid' is no less than the curve asks for the move, `out' no more than it
\* pays for it.
Covers(p, dir, next, paid) ==
    IF dir = "AtoB"
    THEN p.liquidity * (p.sqrt_price - next) <= paid * (p.sqrt_price * next)
    ELSE p.liquidity * (next - p.sqrt_price) <= paid * PRICE_UNIT

Yields(p, dir, next, out) ==
    IF dir = "AtoB"
    THEN out * PRICE_UNIT <= p.liquidity * (p.sqrt_price - next)
    ELSE out * (next * p.sqrt_price) <= p.liquidity * (next - p.sqrt_price)

\* The reserves at a price of the range
Reserve(p, t, price) ==
    IF t = "a" THEN DeltaA(price, p.sqrt_max_price, p.liquidity, "Down")
               ELSE DeltaB(p.sqrt_min_price, price, p.liquidity, "Down")

In(dir) == IF dir = "AtoB" THEN "a" ELSE "b"
Out(dir) == IF dir = "AtoB" THEN "b" ELSE "a"

LEMMA ReservesFollow ==
    ASSUME NEW p, Tradable(p), NEW dir \in Directions, NEW next, RightWay(p, dir, next),
           NEW paid \in Nat, NEW out \in Nat,
           Covers(p, dir, next, paid), Yields(p, dir, next, out)
    PROVE  /\ Reserve(p, In(dir), next) <= Reserve(p, In(dir), p.sqrt_price) + paid
           /\ Reserve(p, Out(dir), next) + out <= Reserve(p, Out(dir), p.sqrt_price)
<1> DEFINE P == p.sqrt_price
           L == p.liquidity
           m == p.sqrt_min_price
           M == p.sqrt_max_price
<1>1. /\ L \in Nat \ {0} /\ m \in Nat \ {0} /\ M \in Nat /\ P \in Nat \ {0}
      /\ m <= P /\ P <= M
  BY DEF Tradable
<1>2. next \in Nat \ {0} /\ m <= next /\ next <= M
  BY <1>1 DEF RightWay
<1>3. PRICE_UNIT \in Nat \ {0}
  BY CurveAssumption
<1> HIDE DEF P, L, m, M
<1>4. /\ DeltaA(next, M, L, "Down") \in Nat /\ DeltaA(P, M, L, "Down") \in Nat
      /\ DeltaB(m, next, L, "Down") \in Nat /\ DeltaB(m, P, L, "Down") \in Nat
  BY <1>1, <1>2, DeltaType
<1>5. CASE dir = "AtoB"
  <2>1. L * (P - next) <= paid * (P * next)
    BY <1>5 DEF Covers, P, L
  <2>2. DeltaA(next, M, L, "Down") <= DeltaA(P, M, L, "Down") + paid
    BY <1>1, <1>2, <2>1, ReserveA
  <2>3. out * PRICE_UNIT <= L * (P - next)
    BY <1>5 DEF Yields, P, L
  <2>4. L * (next - P) <= (-out) * PRICE_UNIT
    <3>1. L * (next - P) = -(L * (P - next)) /\ (-out) * PRICE_UNIT = -(out * PRICE_UNIT)
      BY <1>1, <1>2, <1>3
    <3>2. L * (P - next) \in Int /\ out * PRICE_UNIT \in Int
      BY <1>1, <1>2, <1>3
    <3> QED
      BY <2>3, <3>1, <3>2
  <2>5. DeltaB(m, next, L, "Down") <= DeltaB(m, P, L, "Down") + (-out)
    BY <1>1, <1>2, <2>4, ReserveB
  <2> QED
    BY <1>4, <1>5, <2>2, <2>5 DEF Reserve, In, Out, P, L, m, M
<1>6. CASE dir = "BtoA"
  <2>1. L * (next - P) <= paid * PRICE_UNIT
    BY <1>6 DEF Covers, P, L
  <2>2. DeltaB(m, next, L, "Down") <= DeltaB(m, P, L, "Down") + paid
    BY <1>1, <1>2, <2>1, ReserveB
  <2>3. out * (next * P) <= L * (next - P)
    BY <1>6 DEF Yields, P, L
  <2>4. L * (P - next) <= (-out) * (P * next)
    <3>1. L * (P - next) = -(L * (next - P)) /\ (-out) * (P * next) = -(out * (next * P))
      BY <1>1, <1>2
    <3>2. L * (next - P) \in Int /\ out * (next * P) \in Int
      BY <1>1, <1>2
    <3> QED
      BY <2>3, <3>1, <3>2
  <2>5. DeltaA(next, M, L, "Down") <= DeltaA(P, M, L, "Down") + (-out)
    BY <1>1, <1>2, <2>4, ReserveA
  <2> QED
    BY <1>4, <1>6, <2>2, <2>5 DEF Reserve, In, Out, P, L, m, M
<1> QED
  BY <1>5, <1>6 DEF Directions

\* What the curve asks and pays is rounded in its favour.
LEMMA CurveInCovers ==
    ASSUME NEW p, Tradable(p), NEW dir \in Directions, NEW next, RightWay(p, dir, next)
    PROVE  CurveIn(p, dir, next) \in Nat /\ Covers(p, dir, next, CurveIn(p, dir, next))
<1> DEFINE P == p.sqrt_price
           L == p.liquidity
<1>1. L \in Nat \ {0} /\ P \in Nat \ {0}
  BY DEF Tradable
<1>2. next \in Nat \ {0} /\ (dir = "AtoB" => next <= P) /\ (dir = "BtoA" => P <= next)
  BY <1>1 DEF RightWay, Tradable
<1> HIDE DEF P, L
<1>3. CASE dir = "AtoB"
  <2>1. CurveIn(p, dir, next) = DeltaA(next, P, L, "Up")
    BY <1>3 DEF CurveIn, P, L
  <2> QED
    BY <1>1, <1>2, <1>3, <2>1, DeltaType, ChargedA DEF Covers, P, L
<1>4. CASE dir = "BtoA"
  <2>1. CurveIn(p, dir, next) = DeltaB(P, next, L, "Up")
    BY <1>4 DEF CurveIn, P, L
  <2> QED
    BY <1>1, <1>2, <1>4, <2>1, DeltaType, ChargedB DEF Covers, P, L
<1> QED
  BY <1>3, <1>4 DEF Directions

LEMMA CurveOutYields ==
    ASSUME NEW p, Tradable(p), NEW dir \in Directions, NEW next, RightWay(p, dir, next)
    PROVE  CurveOut(p, dir, next) \in Nat /\ Yields(p, dir, next, CurveOut(p, dir, next))
<1> DEFINE P == p.sqrt_price
           L == p.liquidity
<1>1. L \in Nat \ {0} /\ P \in Nat \ {0}
  BY DEF Tradable
<1>2. next \in Nat \ {0} /\ (dir = "AtoB" => next <= P) /\ (dir = "BtoA" => P <= next)
  BY <1>1 DEF RightWay, Tradable
<1> HIDE DEF P, L
<1>3. CASE dir = "AtoB"
  <2>1. CurveOut(p, dir, next) = DeltaB(next, P, L, "Down")
    BY <1>3 DEF CurveOut, P, L
  <2> QED
    BY <1>1, <1>2, <1>3, <2>1, DeltaType, ChargedB DEF Yields, P, L
<1>4. CASE dir = "BtoA"
  <2>1. CurveOut(p, dir, next) = DeltaA(P, next, L, "Down")
    BY <1>4 DEF CurveOut, P, L
  <2> QED
    BY <1>1, <1>2, <1>4, <2>1, DeltaType, ChargedA DEF Yields, P, L
<1> QED
  BY <1>3, <1>4 DEF Directions

\* The price after an input: it does not go further than the input pays for.
LEMMA InputCovers ==
    ASSUME NEW p, Tradable(p), NEW dir \in Directions, NEW x \in Nat
    PROVE  LET next == NextPriceFromInput(p.sqrt_price, p.liquidity, x, dir)
           IN  /\ next \in Nat
               /\ IF dir = "AtoB" THEN next <= p.sqrt_price ELSE next >= p.sqrt_price
               /\ Covers(p, dir, next, x)
<1> DEFINE P == p.sqrt_price
           L == p.liquidity
           next == NextPriceFromInput(P, L, x, dir)
<1>1. L \in Nat \ {0} /\ P \in Nat \ {0} /\ PRICE_UNIT \in Nat \ {0}
  BY CurveAssumption DEF Tradable
<1> HIDE DEF P, L
<1>2. CASE dir = "AtoB"
  <2> DEFINE d == L + x * P
  <2>1. L * P \in Nat /\ d \in Nat \ {0}
    <3>1. x * P \in Nat
      BY <1>1
    <3> QED
      BY <1>1, <3>1
  <2>2. next = CeilDiv(L * P, d)
    BY <1>2 DEF NextPriceFromInput
  <2>3. next \in Nat /\ L * P <= next * d
    BY <2>1, <2>2, CeilBounds
  <2>4. L * P <= P * d
    <3>1. P * d = L * P + x * (P * P)
      BY <1>1
    <3>2. x * (P * P) \in Nat
      BY <1>1
    <3>3. L * P \in Nat /\ P * d \in Int
      BY <2>1, <1>1
    <3> HIDE DEF d
    <3> QED
      BY <3>1, <3>2, <3>3
  <2>5. next <= P
    BY <1>1, <2>1, <2>2, <2>4, CeilAtMost
  <2> HIDE DEF next
  <2>6. next * d = next * L + x * (P * next)
    BY <1>1, <2>3
  <2>7. L * (P - next) = L * P - next * L
    BY <1>1, <2>3
  <2>8. L * P \in Int /\ next * L \in Int /\ x * (P * next) \in Int /\ next * d \in Int
    BY <1>1, <2>1, <2>3
  <2> HIDE DEF d
  <2>9. L * (P - next) <= x * (P * next)
    BY <2>3, <2>6, <2>7, <2>8
  <2> QED
    BY <1>2, <2>3, <2>5, <2>9 DEF Covers, P, L, next
<1>3. CASE dir = "BtoA"
  <2> DEFINE s == (x * PRICE_UNIT) \div L
  <2>1. x * PRICE_UNIT \in Nat
    BY <1>1
  <2>2. s \in Nat /\ s * L <= x * PRICE_UNIT
    BY <1>1, <2>1, DivBounds
  <2>3. next = P + s
    BY <1>3 DEF NextPriceFromInput
  <2> HIDE DEF s, next
  <2>4. L * (next - P) = s * L
    BY <1>1, <2>2, <2>3
  <2> QED
    BY <1>1, <1>3, <2>2, <2>3, <2>4 DEF Covers, P, L, next
<1> QED
  BY <1>2, <1>3 DEF Directions, P, L, next

\* The price for an output: it goes far enough to pay for it.
LEMMA OutputYields ==
    ASSUME NEW p, Tradable(p), NEW dir \in Directions, NEW y \in Nat,
           NEW next \in NextPricesFromOutput(p.sqrt_price, p.liquidity, y, dir)
    PROVE  /\ next \in Nat
           /\ IF dir = "AtoB" THEN next <= p.sqrt_price ELSE next >= p.sqrt_price
           /\ Yields(p, dir, next, y)
<1> DEFINE P == p.sqrt_price
           L == p.liquidity
           drop == CeilDiv(y * PRICE_UNIT, L)
           left == L - y * P
<1>1. L \in Nat \ {0} /\ P \in Nat \ {0} /\ PRICE_UNIT \in Nat \ {0}
  BY CurveAssumption DEF Tradable
<1>2. next \in NextPricesFromOutput(P, L, y, dir)
  OBVIOUS
<1> HIDE DEF P, L
<1>3. CASE dir = "AtoB"
  <2>1. y * PRICE_UNIT \in Nat
    BY <1>1
  <2>2. drop \in Nat /\ y * PRICE_UNIT <= drop * L
    BY <1>1, <2>1, CeilBounds
  <2>3. ~ (drop > P) /\ next = P - drop
    BY <1>2, <1>3 DEF NextPricesFromOutput
  <2> HIDE DEF drop
  <2>4. L * (P - next) = drop * L
    BY <1>1, <2>2, <2>3
  <2> QED
    BY <1>1, <1>3, <2>2, <2>3, <2>4 DEF Yields, P, L
<1>4. CASE dir = "BtoA"
  <2>1. ~ (left <= 0) /\ next = CeilDiv(L * P, left)
    BY <1>2, <1>4 DEF NextPricesFromOutput
  <2>2. y * P \in Nat /\ L * P \in Nat
    BY <1>1
  <2>3. left \in Nat \ {0}
    BY <1>1, <2>1, <2>2
  <2>4. next \in Nat /\ L * P <= next * left
    BY <2>1, <2>2, <2>3, CeilBounds
  <2>5. next * left = next * L - y * (next * P)
    BY <1>1, <2>4
  <2>6. L * (next - P) = next * L - L * P
    BY <1>1, <2>4
  <2>7. next * L \in Int /\ y * (next * P) \in Nat /\ next * left \in Int
    BY <1>1, <2>3, <2>4
  <2> HIDE DEF left
  <2>8. y * (next * P) <= L * (next - P)
    BY <2>2, <2>4, <2>5, <2>6, <2>7
  <2>9. L * P <= next * L
    BY <2>2, <2>4, <2>5, <2>7
  <2>10. P * L <= next * L
    BY <1>1, <2>9
  <2>11. P <= next
    BY <1>1, <2>4, <2>10, CancelLe
  <2> QED
    BY <1>4, <2>4, <2>8, <2>11 DEF Yields, P, L
<1> QED
  BY <1>3, <1>4 DEF Directions, P, L

\* An input of less than the whole range costs does not leave the range:
\* get_swap_result_from_partial_input does not check it.
LEMMA PartStaysInRange ==
    ASSUME NEW p, Tradable(p), NEW dir \in Directions, NEW x \in Nat,
           x < CurveIn(p, dir, IF dir = "AtoB" THEN p.sqrt_min_price
                                               ELSE p.sqrt_max_price)
    PROVE  RightWay(p, dir, NextPriceFromInput(p.sqrt_price, p.liquidity, x, dir))
<1> DEFINE P == p.sqrt_price
           L == p.liquidity
           m == p.sqrt_min_price
           M == p.sqrt_max_price
           next == NextPriceFromInput(P, L, x, dir)
<1>1. /\ L \in Nat \ {0} /\ P \in Nat \ {0} /\ PRICE_UNIT \in Nat \ {0}
      /\ m \in Nat \ {0} /\ M \in Nat /\ m <= P /\ P <= M
  BY CurveAssumption DEF Tradable
<1>2. /\ next \in Nat
      /\ IF dir = "AtoB" THEN next <= P ELSE next >= P
  BY InputCovers
<1> HIDE DEF P, L, m, M
<1>3. CASE dir = "AtoB"
  <2> DEFINE most == CeilDiv(L * (P - m), m * P)
             d == L + x * P
  <2>1. x < most
    BY <1>3 DEF CurveIn, DeltaA, MulDiv, P, L, m
  <2>2. P - m \in Nat /\ m * P \in Nat \ {0} /\ x * P \in Nat /\ L * P \in Nat
    BY <1>1
  <2>3. L * (P - m) \in Nat /\ d \in Nat \ {0}
    BY <1>1, <2>2
  <2>4. most \in Nat /\ most * (m * P) < L * (P - m) + m * P
    BY <2>2, <2>3, CeilBounds
  <2> HIDE DEF most
  <2>5. (x + 1) * (m * P) <= most * (m * P)
    BY <2>1, <2>2, <2>4, Monotone
  <2>6. (x + 1) * (m * P) = x * (m * P) + m * P
    BY <1>1
  <2>7. x * (m * P) \in Nat /\ most * (m * P) \in Int
    BY <1>1, <2>4
  <2>8. x * (m * P) < L * (P - m)
    BY <2>2, <2>3, <2>4, <2>5, <2>6, <2>7
  <2>9. m * d = m * L + x * (m * P) /\ L * (P - m) = L * P - m * L
    BY <1>1
  <2>10. m * L \in Nat /\ m * d \in Nat
    BY <1>1, <2>3
  <2> HIDE DEF d
  <2>11. m * d <= L * P
    BY <2>2, <2>7, <2>8, <2>9, <2>10
  <2>12. next = CeilDiv(L * P, d)
    BY <1>3 DEF NextPriceFromInput, d
  <2>13. L * P <= next * d
    BY <2>2, <2>3, <2>12, CeilBounds
  <2> HIDE DEF next
  <2>14. m * d <= next * d
    <3>1. next * d \in Int
      BY <1>2, <2>3
    <3> QED
      BY <2>2, <2>10, <2>11, <2>13, <3>1
  <2>15. m <= next
    BY <1>1, <1>2, <2>3, <2>14, CancelLe
  <2> QED
    BY <1>1, <1>2, <1>3, <2>15 DEF RightWay, P, L, m, next
<1>4. CASE dir = "BtoA"
  <2> DEFINE most == CeilDiv(L * (M - P), PRICE_UNIT)
             s == (x * PRICE_UNIT) \div L
  <2>1. x < most
    BY <1>4 DEF CurveIn, DeltaB, MulDiv, P, L, M, Directions
  <2>2. M - P \in Nat /\ x * PRICE_UNIT \in Nat
    BY <1>1
  <2>3. L * (M - P) \in Nat
    BY <1>1, <2>2
  <2>4. most \in Nat /\ most * PRICE_UNIT < L * (M - P) + PRICE_UNIT
    BY <1>1, <2>3, CeilBounds
  <2> HIDE DEF most
  <2>5. (x + 1) * PRICE_UNIT <= most * PRICE_UNIT
    BY <1>1, <2>1, <2>4, Monotone
  <2>6. (x + 1) * PRICE_UNIT = x * PRICE_UNIT + PRICE_UNIT
    BY <1>1
  <2>7. most * PRICE_UNIT \in Int
    BY <1>1, <2>4
  <2>8. x * PRICE_UNIT < L * (M - P)
    BY <1>1, <2>2, <2>3, <2>4, <2>5, <2>6, <2>7
  <2>9. s \in Nat /\ s * L <= x * PRICE_UNIT
    BY <1>1, <2>2, DivBounds
  <2>10. next = P + s
    BY <1>4 DEF NextPriceFromInput
  <2> HIDE DEF s, next
  <2>11. s * L <= (M - P) * L
    <3>1. (M - P) * L = L * (M - P) /\ s * L \in Int
      BY <1>1, <2>9
    <3> QED
      BY <2>2, <2>3, <2>8, <2>9, <3>1
  <2>12. s <= M - P
    BY <1>1, <2>9, <2>11, CancelLe
  <2> QED
    BY <1>1, <1>2, <1>4, <2>9, <2>10, <2>12 DEF RightWay, P, L, M, next, Directions
<1> QED
  BY <1>3, <1>4 DEF Directions

-----------------------------------------------------------------------------
(* Quotes.                                                                 *)

FeeIn(p, dir, q) == IF FeesOnInput(p.collect_fee_mode, dir) THEN q.fee ELSE 0
FeeOut(p, dir, q) == IF FeesOnInput(p.collect_fee_mode, dir) THEN 0 ELSE q.fee

\* A quote with which the pool does not lose
Sound(p, dir, q) ==
    /\ q.paid \in Nat /\ q.received \in Nat /\ q.fee \in Nat
    /\ q.paid - FeeIn(p, dir, q) \in Nat
    /\ RightWay(p, dir, q.next_sqrt_price)
    /\ Covers(p, dir, q.next_sqrt_price, q.paid - FeeIn(p, dir, q))
    /\ Yields(p, dir, q.next_sqrt_price, q.received + FeeOut(p, dir, q))

Numerator == 0 .. FEE_DENOMINATOR - 1

LEMMA FeeWithinBounds ==
    ASSUME NEW x \in Nat, NEW n \in Numerator
    PROVE  FeeWithin(x, n) \in 0 .. x
<1>1. FEE_DENOMINATOR \in Nat \ {0} /\ n \in 0 .. FEE_DENOMINATOR
  BY CurveAssumption DEF Numerator
<1> QED
  BY <1>1, PartOf DEF FeeWithin, MulDiv

LEMMA FeeOnTopIsNat ==
    ASSUME NEW x \in Nat, NEW n \in Numerator
    PROVE  FeeOnTop(x, n) \in Nat
<1> DEFINE D == FEE_DENOMINATOR
           k == CeilDiv(x * D, D - n)
<1>1. D \in Nat \ {0} /\ D - n \in Nat \ {0} /\ D - n <= D
  BY CurveAssumption DEF Numerator
<1>2. x * D \in Nat
  BY <1>1
<1>3. k \in Nat /\ x * D <= k * (D - n)
  BY <1>1, <1>2, CeilBounds
<1> DEFINE e == D - n
<1> HIDE DEF k
<1>4. e * x <= D * x
  BY <1>1, Monotone
<1>5. e * x = x * e /\ D * x = x * D /\ x * e \in Int /\ k * e \in Int
  BY <1>1, <1>3
<1>6. x * e <= k * e
  <2> HIDE DEF e
  <2> QED
    BY <1>2, <1>3, <1>4, <1>5 DEF e
<1>7. x <= k
  BY <1>1, <1>3, <1>6, CancelLe
<1> QED
  BY <1>3, <1>7 DEF k, FeeOnTop, MulDiv

LEMMA InputQuoteSound ==
    ASSUME NEW p, Tradable(p), NEW dir \in Directions, NEW n \in Numerator,
           NEW paid \in Nat, NEW fee_in \in Nat, NEW next,
           paid - fee_in \in Nat,
           ~ FeesOnInput(p.collect_fee_mode, dir) => fee_in = 0,
           RightWay(p, dir, next), Covers(p, dir, next, paid - fee_in)
    PROVE  Sound(p, dir, InputQuote(p, dir, paid, fee_in, next, n))
<1> DEFINE out == CurveOut(p, dir, next)
           fee_out == FeeWithin(out, n)
           q == InputQuote(p, dir, paid, fee_in, next, n)
<1>1. out \in Nat /\ Yields(p, dir, next, out)
  BY CurveOutYields
<1>2. fee_out \in 0 .. out
  BY <1>1, FeeWithinBounds
<1>3. CASE FeesOnInput(p.collect_fee_mode, dir)
  <2>1. q = Quote(paid, out, fee_in, next)
    BY <1>3 DEF InputQuote
  <2>2. /\ q.paid = paid /\ q.received = out /\ q.fee = fee_in
        /\ q.next_sqrt_price = next
    BY <2>1 DEF Quote
  <2> HIDE DEF q, out, fee_out
  <2>3. FeeIn(p, dir, q) = fee_in /\ FeeOut(p, dir, q) = 0 /\ out + 0 = out
    BY <1>1, <1>3, <2>2 DEF FeeIn, FeeOut
  <2>4. Sound(p, dir, q)
    BY <1>1, <2>2, <2>3 DEF Sound
  <2> QED
    BY <2>4 DEF q
<1>4. CASE ~ FeesOnInput(p.collect_fee_mode, dir)
  <2>1. q = Quote(paid, out - fee_out, fee_out, next)
    BY <1>4 DEF InputQuote
  <2>2. /\ q.paid = paid /\ q.received = out - fee_out /\ q.fee = fee_out
        /\ q.next_sqrt_price = next
    BY <2>1 DEF Quote
  <2> HIDE DEF q, out, fee_out
  <2>3. /\ FeeIn(p, dir, q) = 0 /\ FeeOut(p, dir, q) = fee_out
        /\ (out - fee_out) + fee_out = out /\ paid - 0 = paid /\ paid - fee_in = paid
    BY <1>1, <1>2, <1>4, <2>2 DEF FeeIn, FeeOut
  <2>4. out - fee_out \in Nat /\ fee_out \in Nat
    BY <1>1, <1>2
  <2>5. Sound(p, dir, q)
    BY <1>1, <2>2, <2>3, <2>4 DEF Sound
  <2> QED
    BY <2>5 DEF q
<1> QED
  BY <1>3, <1>4

LEMMA InputFeeBounds ==
    ASSUME NEW p, NEW dir, NEW x \in Nat, NEW n \in Numerator
    PROVE  /\ InputFee(p, dir, x, n) \in Nat /\ x - InputFee(p, dir, x, n) \in Nat
           /\ ~ FeesOnInput(p.collect_fee_mode, dir) => InputFee(p, dir, x, n) = 0
BY FeeWithinBounds DEF InputFee

\* An exact input never takes the price out of its range, nor from the pool.
LEMMA ExactInputSound ==
    ASSUME NEW p, Tradable(p), NEW dir \in Directions, NEW n \in Numerator,
           NEW amount \in Nat, NEW q \in ExactInput(p, dir, amount, n)
    PROVE  Sound(p, dir, q) /\ q.paid = amount
<1> DEFINE fee_in == InputFee(p, dir, amount, n)
           next == NextPriceFromInput(p.sqrt_price, p.liquidity, amount - fee_in, dir)
<1>1. /\ fee_in \in Nat /\ amount - fee_in \in Nat
      /\ ~ FeesOnInput(p.collect_fee_mode, dir) => fee_in = 0
  BY InputFeeBounds
<1>2. InRange(p, dir, next) /\ q = InputQuote(p, dir, amount, fee_in, next, n)
  BY DEF ExactInput
<1>3. /\ next \in Nat
      /\ IF dir = "AtoB" THEN next <= p.sqrt_price ELSE next >= p.sqrt_price
      /\ Covers(p, dir, next, amount - fee_in)
  BY <1>1, InputCovers
<1> HIDE DEF fee_in, next
<1>4. RightWay(p, dir, next)
  BY <1>2, <1>3 DEF InRange, RightWay, Tradable, Directions
<1>5. Sound(p, dir, q)
  BY <1>1, <1>2, <1>3, <1>4, InputQuoteSound
<1>6. q.paid = amount
  BY <1>2 DEF InputQuote, Quote
<1> QED
  BY <1>5, <1>6

\* numerators_on[x] is the set of the fee numerators for an amount x
LEMMA OnTopBounds ==
    ASSUME NEW p, NEW dir, NEW x \in Nat, NEW ns \in [Nat -> SUBSET Numerator],
           NEW fee \in FeesOnTopOfInput(p, dir, x, ns)
    PROVE  /\ fee \in Nat
           /\ ~ FeesOnInput(p.collect_fee_mode, dir) => fee = 0
           /\ FeesOnInput(p.collect_fee_mode, dir) =>
                \E n \in ns[x] : n \in Numerator /\ fee = FeeOnTop(x, n)
<1>1. ns[x] \subseteq Numerator
  OBVIOUS
<1>2. CASE FeesOnInput(p.collect_fee_mode, dir)
  <2>1. PICK n \in ns[x] : fee = FeeOnTop(x, n)
    BY <1>2 DEF FeesOnTopOfInput
  <2> QED
    BY <1>1, <1>2, <2>1, FeeOnTopIsNat
<1>3. CASE ~ FeesOnInput(p.collect_fee_mode, dir)
  BY <1>3 DEF FeesOnTopOfInput
<1> QED
  BY <1>2, <1>3

\* The price at the end of the range, whichever way it goes
Limit(p, dir) == IF dir = "AtoB" THEN p.sqrt_min_price ELSE p.sqrt_max_price

\* A partial fill stays in the range as well.
LEMMA PartialInputSound ==
    ASSUME NEW p, Tradable(p), NEW dir \in Directions, NEW n \in Numerator,
           NEW amount \in Nat, NEW ns \in [Nat -> SUBSET Numerator],
           NEW q \in PartialInput(p, dir, amount, n, ns)
    PROVE  Sound(p, dir, q)
<1> DEFINE fee_in == InputFee(p, dir, amount, n)
           actual == amount - fee_in
           limit == Limit(p, dir)
           most == CurveIn(p, dir, limit)
           next == NextPriceFromInput(p.sqrt_price, p.liquidity, actual, dir)
<1>1. /\ fee_in \in Nat /\ actual \in Nat
      /\ ~ FeesOnInput(p.collect_fee_mode, dir) => fee_in = 0
  BY InputFeeBounds
<1>2. RightWay(p, dir, limit)
  BY DEF Limit, RightWay, Tradable
<1>3. most \in Nat /\ Covers(p, dir, limit, most)
  BY <1>2, CurveInCovers
<1>4. \/ actual < most /\ q = InputQuote(p, dir, amount, fee_in, next, n)
      \/ actual = most /\ q = InputQuote(p, dir, amount, fee_in, limit, n)
      \/ \E fee \in FeesOnTopOfInput(p, dir, most, ns) :
            q = InputQuote(p, dir, most + fee, fee, limit, n)
  BY DEF PartialInput, Limit
<1>5. CASE actual < most /\ q = InputQuote(p, dir, amount, fee_in, next, n)
  <2>1. Covers(p, dir, next, actual)
    BY <1>1, InputCovers
  <2>2. RightWay(p, dir, next)
    BY <1>1, <1>5, PartStaysInRange DEF Limit
  <2> HIDE DEF fee_in, next
  <2> QED
    BY <1>1, <1>5, <2>1, <2>2, InputQuoteSound
<1>6. CASE actual = most /\ q = InputQuote(p, dir, amount, fee_in, limit, n)
  <2>1. Covers(p, dir, limit, amount - fee_in)
    BY <1>3, <1>6
  <2> HIDE DEF fee_in, limit
  <2> QED
    BY <1>1, <1>2, <1>6, <2>1, InputQuoteSound
<1>7. ASSUME NEW fee \in FeesOnTopOfInput(p, dir, most, ns),
             q = InputQuote(p, dir, most + fee, fee, limit, n)
      PROVE  Sound(p, dir, q)
  <2>1. fee \in Nat /\ (~ FeesOnInput(p.collect_fee_mode, dir) => fee = 0)
    BY <1>3, OnTopBounds
  <2> HIDE DEF most, limit
  <2>2. most + fee \in Nat /\ (most + fee) - fee = most
    BY <1>3, <2>1
  <2> QED
    BY <1>2, <1>3, <1>7, <2>1, <2>2, InputQuoteSound
<1> QED
  BY <1>4, <1>5, <1>6, <1>7

\* A partial fill never costs more than was offered, the fee computed on top
\* of what the range takes included: the rate is the same both ways.
LEMMA PartialInputWithin ==
    ASSUME NEW p, Tradable(p), NEW dir \in Directions, NEW n \in Numerator,
           NEW amount \in Nat, NEW ns \in [Nat -> SUBSET Numerator],
           \A x \in Nat : ns[x] = {n},
           NEW q \in PartialInput(p, dir, amount, n, ns)
    PROVE  q.paid <= amount
<1> DEFINE fee_in == InputFee(p, dir, amount, n)
           actual == amount - fee_in
           limit == Limit(p, dir)
           most == CurveIn(p, dir, limit)
<1>1. fee_in \in Nat /\ actual \in Nat
  BY InputFeeBounds
<1>2. RightWay(p, dir, limit)
  BY DEF Limit, RightWay, Tradable
<1>3. most \in Nat
  BY <1>2, CurveInCovers
<1>4. \/ q.paid = amount
      \/ /\ most < actual
         /\ \E fee \in FeesOnTopOfInput(p, dir, most, ns) : q.paid = most + fee
  <2> HIDE DEF fee_in
  <2>1. CASE actual < most
    BY <2>1 DEF PartialInput, InputQuote, Quote, Limit, fee_in
  <2>2. CASE actual = most
    BY <2>2 DEF PartialInput, InputQuote, Quote, Limit, fee_in
  <2>3. CASE most < actual
    <3>1. q \in {InputQuote(p, dir, most + fee, fee, limit, n) :
                   fee \in FeesOnTopOfInput(p, dir, most, ns)}
      <4>1. ~ (actual < most) /\ actual # most
        BY <1>1, <1>3, <2>3
      <4> QED
        BY <4>1 DEF PartialInput, Limit, fee_in
    <3> QED
      BY <2>3, <3>1 DEF InputQuote, Quote
  <2> HIDE DEF actual, most
  <2> QED
    BY <1>1, <1>3, <2>1, <2>2, <2>3
<1>5. ASSUME NEW fee \in FeesOnTopOfInput(p, dir, most, ns), most < actual
      PROVE  most + fee <= amount
  <2>1. fee \in Nat /\ (~ FeesOnInput(p.collect_fee_mode, dir) => fee = 0)
    BY <1>3, OnTopBounds
  <2>2. CASE ~ FeesOnInput(p.collect_fee_mode, dir)
    <3> HIDE DEF most, fee_in
    <3> QED
      BY <1>1, <1>3, <1>5, <2>1, <2>2
  <2>3. CASE FeesOnInput(p.collect_fee_mode, dir)
    <3>1. fee_in = CeilDiv(amount * n, FEE_DENOMINATOR)
      BY <2>3 DEF InputFee, FeeWithin, MulDiv
    <3> HIDE DEF most
    <3>2. fee = FeeOnTop(most, n)
      BY <1>3, <2>3, OnTopBounds
    <3>3. CeilDiv(most * FEE_DENOMINATOR, FEE_DENOMINATOR - n) <= amount
      <4>1. most <= amount - CeilDiv(amount * n, FEE_DENOMINATOR)
        BY <1>1, <1>3, <1>5, <3>1
      <4> QED
        BY <1>3, <4>1, LeastIsWithin, CurveAssumption DEF Numerator
    <3> DEFINE k == CeilDiv(most * FEE_DENOMINATOR, FEE_DENOMINATOR - n)
    <3>4. fee = k - most
      BY <3>2 DEF FeeOnTop, MulDiv
    <3>5. k \in Nat
      <4>1. most * FEE_DENOMINATOR \in Nat /\ FEE_DENOMINATOR - n \in Nat \ {0}
        BY <1>3, CurveAssumption DEF Numerator
      <4> QED
        BY <4>1, CeilBounds
    <3> HIDE DEF k
    <3> QED
      BY <1>3, <3>3, <3>4, <3>5 DEF k
  <2> QED
    BY <2>2, <2>3
<1> QED
  BY <1>4, <1>5

\* What an exact output costs covers it.
LEMMA ExactOutputSound ==
    ASSUME NEW p, Tradable(p), NEW dir \in Directions,
           NEW amount \in Nat, NEW ns \in [Nat -> SUBSET Numerator],
           NEW q \in ExactOutput(p, dir, amount, ns)
    PROVE  Sound(p, dir, q) /\ q.received = amount
<1>1. PICK fee_out \in (IF FeesOnInput(p.collect_fee_mode, dir) THEN {0}
                        ELSE {FeeOnTop(amount, n) : n \in ns[amount]}) :
        \E next \in NextPricesFromOutput(p.sqrt_price, p.liquidity,
                                         amount + fee_out, dir) :
          /\ InRange(p, dir, next)
          /\ \E fee_in \in FeesOnTopOfInput(p, dir, CurveIn(p, dir, next), ns) :
               q = Quote(CurveIn(p, dir, next) + fee_in, amount, fee_in + fee_out, next)
  BY DEF ExactOutput
<1>2. PICK next \in NextPricesFromOutput(p.sqrt_price, p.liquidity,
                                         amount + fee_out, dir) :
          /\ InRange(p, dir, next)
          /\ \E fee_in \in FeesOnTopOfInput(p, dir, CurveIn(p, dir, next), ns) :
               q = Quote(CurveIn(p, dir, next) + fee_in, amount, fee_in + fee_out, next)
  BY <1>1
<1> DEFINE cost == CurveIn(p, dir, next)
<1>3. PICK fee_in \in FeesOnTopOfInput(p, dir, cost, ns) :
         q = Quote(cost + fee_in, amount, fee_in + fee_out, next)
  BY <1>2
<1>4. fee_out \in Nat /\ (FeesOnInput(p.collect_fee_mode, dir) => fee_out = 0)
  <2>1. CASE FeesOnInput(p.collect_fee_mode, dir)
    BY <2>1
  <2>2. CASE ~ FeesOnInput(p.collect_fee_mode, dir)
    <3>1. PICK n \in ns[amount] : fee_out = FeeOnTop(amount, n)
      BY <2>2
    <3>2. n \in Numerator
      OBVIOUS
    <3> QED
      BY <2>2, <3>1, <3>2, FeeOnTopIsNat
  <2> QED
    BY <2>1, <2>2
<1>5. amount + fee_out \in Nat
  BY <1>4
<1>6. /\ next \in Nat
      /\ IF dir = "AtoB" THEN next <= p.sqrt_price ELSE next >= p.sqrt_price
      /\ Yields(p, dir, next, amount + fee_out)
  BY <1>5, OutputYields
<1>7. RightWay(p, dir, next)
  BY <1>2, <1>6 DEF InRange, RightWay, Tradable, Directions
<1>8. cost \in Nat /\ Covers(p, dir, next, cost)
  BY <1>7, CurveInCovers
<1> HIDE DEF cost
<1>9. fee_in \in Nat /\ (~ FeesOnInput(p.collect_fee_mode, dir) => fee_in = 0)
  BY <1>8, OnTopBounds
<1>10. /\ q.paid = cost + fee_in /\ q.received = amount
       /\ q.fee = fee_in + fee_out /\ q.next_sqrt_price = next
  BY <1>3 DEF Quote
<1>11. FeeIn(p, dir, q) = fee_in /\ FeeOut(p, dir, q) = fee_out
  BY <1>4, <1>9, <1>10 DEF FeeIn, FeeOut
<1>12. (cost + fee_in) - fee_in = cost /\ cost + fee_in \in Nat /\ fee_in + fee_out \in Nat
  BY <1>4, <1>8, <1>9
<1> QED
  BY <1>6, <1>7, <1>8, <1>10, <1>11, <1>12 DEF Sound

\* The inductive invariant: each part needs some of the others.
PoolInv == TypeOK /\ LiquidityBacked /\ VestedBacked /\ FeesBacked /\ Solvent

-----------------------------------------------------------------------------
(* Amounts of the two tokens.                                              *)

LEMMA AmountsAdd ==
    ASSUME NEW f \in Amount, NEW g \in Amount
    PROVE  /\ Plus(f, g) \in Amount
           /\ \A t \in Tokens : Plus(f, g)[t] = f[t] + g[t]
           /\ \A t \in Tokens : Minus(f, g)[t] = f[t] - g[t]
           /\ (\A t \in Tokens : g[t] <= f[t]) => Minus(f, g) \in Amount
           /\ None \in Amount /\ \A t \in Tokens : None[t] = 0
BY DEF Plus, Minus, Amount, None

LEMMA NoneIsAmount ==
    None \in Amount /\ \A t \in Tokens : None[t] = 0
BY DEF Amount, None

-----------------------------------------------------------------------------
(* Settling a position.                                                    *)

LEMMA LiquidityIsNat ==
    ASSUME NEW pos \in PositionAccount
    PROVE  TotalLiquidity(pos) \in Nat
BY DEF TotalLiquidity, PositionAccount

LEMMA AccruedType ==
    ASSUME NEW pos \in PositionAccount, NEW F \in Amount,
           \A t \in Tokens : pos.checkpoint[t] <= F[t]
    PROVE  /\ Accrued(pos, F) \in Amount
           /\ \A t \in Tokens :
                Accrued(pos, F)[t] * LIQUIDITY_UNIT
                  <= TotalLiquidity(pos) * (F[t] - pos.checkpoint[t])
<1>1. ASSUME NEW t \in Tokens
      PROVE  /\ Accrued(pos, F)[t] \in Nat
             /\ Accrued(pos, F)[t] * LIQUIDITY_UNIT
                  <= TotalLiquidity(pos) * (F[t] - pos.checkpoint[t])
  <2> DEFINE n == TotalLiquidity(pos) * (F[t] - pos.checkpoint[t])
  <2>1. TotalLiquidity(pos) \in Nat
    BY LiquidityIsNat
  <2>2. F[t] - pos.checkpoint[t] \in Nat
    BY DEF PositionAccount, Amount
  <2>3. n \in Nat
    BY <2>1, <2>2
  <2>4. Accrued(pos, F)[t] = n \div LIQUIDITY_UNIT
    BY DEF Accrued
  <2> HIDE DEF n
  <2>5. Accrued(pos, F)[t] \in Nat /\ Accrued(pos, F)[t] * LIQUIDITY_UNIT <= n
    BY <2>3, <2>4, DivBounds, PoolAssumption
  <2> QED
    BY <2>5 DEF n
<1>2. Accrued(pos, F) = [t \in Tokens |-> Accrued(pos, F)[t]]
  BY DEF Accrued
<1> QED
  BY <1>1, <1>2 DEF Amount

LEMMA SettledType ==
    ASSUME NEW pos \in PositionAccount, NEW F \in Amount,
           \A t \in Tokens : pos.checkpoint[t] <= F[t]
    PROVE  LET s == UpdateFee(pos, F)
           IN  /\ s \in PositionAccount
               /\ s.unlocked = pos.unlocked /\ s.vested = pos.vested
               /\ s.permanent = pos.permanent /\ s.checkpoint = F
               /\ s.pending = Plus(pos.pending, Accrued(pos, F))
               /\ TotalLiquidity(s) = TotalLiquidity(pos)
<1> DEFINE pending == Plus(pos.pending, Accrued(pos, F))
           s == UpdateFee(pos, F)
<1>1. pos.pending \in Amount
  BY DEF PositionAccount
<1>2. pending \in Amount
  BY <1>1, AccruedType, AmountsAdd
<1>3. s = [pos EXCEPT !.pending = pending, !.checkpoint = F]
  BY DEF UpdateFee
<1> HIDE DEF pending, s
<1>4. /\ s \in PositionAccount
      /\ s.unlocked = pos.unlocked /\ s.vested = pos.vested
      /\ s.permanent = pos.permanent /\ s.checkpoint = F
      /\ s.pending = pending
  BY <1>2, <1>3 DEF PositionAccount
<1>5. TotalLiquidity(s) = TotalLiquidity(pos)
  BY <1>4 DEF TotalLiquidity
<1> QED
  BY <1>4, <1>5 DEF s, pending

\* Settling moves what was accrued to what is pending and rounds it down.
Backing(pos, F, paid, t) ==
    (pos.pending[t] + paid[t]) * LIQUIDITY_UNIT
        + TotalLiquidity(pos) * (F[t] - pos.checkpoint[t])

LEMMA SettlingRoundsDown ==
    ASSUME NEW pos \in PositionAccount, NEW F \in Amount, NEW paid \in Amount,
           \A t \in Tokens : pos.checkpoint[t] <= F[t], NEW t \in Tokens
    PROVE  (UpdateFee(pos, F).pending[t] + paid[t]) * LIQUIDITY_UNIT
             <= Backing(pos, F, paid, t)
<1> DEFINE a == Accrued(pos, F)[t]
           n == TotalLiquidity(pos) * (F[t] - pos.checkpoint[t])
           x == pos.pending[t]
           y == paid[t]
           U == LIQUIDITY_UNIT
<1>1. a \in Nat /\ a * U <= n
  BY AccruedType DEF Amount
<1>2. x \in Nat /\ y \in Nat /\ U \in Nat
  BY PoolAssumption DEF PositionAccount, Amount
<1>3. n \in Int
  BY LiquidityIsNat DEF PositionAccount, Amount
<1>4. UpdateFee(pos, F).pending[t] = x + a
  <2>1. pos.pending \in Amount
    BY DEF PositionAccount
  <2> QED
    BY <2>1, SettledType, AccruedType, AmountsAdd
<1>5. Backing(pos, F, paid, t) = (x + y) * U + n
  BY DEF Backing
<1> HIDE DEF a, n, x, y, U
<1>6. (x + a + y) * U = (x + y) * U + a * U
  BY <1>1, <1>2
<1>7. (x + y) * U \in Int /\ a * U \in Int
  BY <1>1, <1>2
<1> QED
  BY <1>1, <1>3, <1>4, <1>5, <1>6, <1>7 DEF y, U

-----------------------------------------------------------------------------
(* The pool's liquidity is that of its positions.                          *)

LEMMA OpenIsFinite ==
    ASSUME TypeOK
    PROVE  IsFiniteSet(open) /\ IsFiniteSet(Positions)
BY PoolAssumption, FS_Subset DEF TypeOK

\* The pool and one position change by the same amounts.
LEMMA LiquidityMoves ==
    ASSUME TypeOK, LiquidityBacked, TypeOK', open' = open,
           NEW p \in open, NEW new \in PositionAccount,
           position' = [position EXCEPT ![p] = new],
           pool'.liquidity = pool.liquidity
               + (TotalLiquidity(new) - TotalLiquidity(position[p])),
           pool'.permanent_lock_liquidity = pool.permanent_lock_liquidity
               + (new.permanent - position[p].permanent)
    PROVE  LiquidityBacked'
<1> DEFINE f == [x \in Positions |-> TotalLiquidity(position[x])]
           g == [x \in Positions |-> TotalLiquidity(position'[x])]
           k == [x \in Positions |-> position[x].permanent]
           l == [x \in Positions |-> position'[x].permanent]
<1>1. open \subseteq Positions /\ position \in [Positions -> PositionAccount]
  BY DEF TypeOK
<1>2. \A x \in Positions : position'[x] = IF x = p THEN new ELSE position[x]
  BY <1>1
<1>3. \A x \in open : /\ f[x] \in Int /\ g[x] \in Int
                      /\ k[x] \in Int /\ l[x] \in Int
  BY <1>1, <1>2, LiquidityIsNat DEF PositionAccount
<1>4. \A x \in open : x # p => g[x] = f[x] /\ l[x] = k[x]
  BY <1>1, <1>2
<1>5. /\ f[p] = TotalLiquidity(position[p]) /\ g[p] = TotalLiquidity(new)
      /\ k[p] = position[p].permanent /\ l[p] = new.permanent
  BY <1>1, <1>2
<1>6. pool.liquidity = Total(f, open) /\ pool.permanent_lock_liquidity = Total(k, open)
  BY DEF LiquidityBacked
<1> HIDE DEF f, g, k, l
<1>7. Total(g, open) = Total(f, open) + (g[p] - f[p])
  BY <1>3, <1>4, OpenIsFinite, SumOne
<1>8. Total(l, open) = Total(k, open) + (l[p] - k[p])
  BY <1>3, <1>4, OpenIsFinite, SumOne
<1>9. /\ pool'.liquidity = Total(g, open)
      /\ pool'.permanent_lock_liquidity = Total(l, open)
  BY <1>5, <1>6, <1>7, <1>8
<1>10. \A x \in Positions \ open : position'[x] = NewPosition(0)
  BY <1>2 DEF LiquidityBacked
<1> QED
  BY <1>9, <1>10 DEF LiquidityBacked, g, l

\* Nothing about liquidity changes.
LEMMA LiquidityStays ==
    ASSUME LiquidityBacked, open' = open, UNCHANGED position,
           pool'.liquidity = pool.liquidity,
           pool'.permanent_lock_liquidity = pool.permanent_lock_liquidity
    PROVE  LiquidityBacked'
BY DEF LiquidityBacked

\* A position without liquidity comes or goes.
LEMMA EmptyComesOrGoes ==
    ASSUME TypeOK, LiquidityBacked, NEW p \in Positions, UNCHANGED pool,
           TotalLiquidity(position[p]) = 0,
           position' = [position EXCEPT ![p] = NewPosition(0)],
           \/ p \notin open /\ open' = open \cup {p}
           \/ p \in open /\ open' = open \ {p}
    PROVE  LiquidityBacked'
<1> DEFINE f == [x \in Positions |-> TotalLiquidity(position[x])]
           g == [x \in Positions |-> TotalLiquidity(position'[x])]
           k == [x \in Positions |-> position[x].permanent]
           l == [x \in Positions |-> position'[x].permanent]
<1>1. open \subseteq Positions /\ position \in [Positions -> PositionAccount]
  BY DEF TypeOK
<1>2. \A x \in Positions : position'[x] = IF x = p THEN NewPosition(0) ELSE position[x]
  BY <1>1
<1>3. TotalLiquidity(NewPosition(0)) = 0 /\ NewPosition(0).permanent = 0
  BY DEF NewPosition, TotalLiquidity
<1>4. position[p].permanent = 0
  BY <1>1 DEF TotalLiquidity, PositionAccount
<1>5. \A x \in Positions : /\ f[x] \in Int /\ g[x] = f[x]
                           /\ k[x] \in Int /\ l[x] = k[x]
  BY <1>1, <1>2, <1>3, <1>4, LiquidityIsNat DEF PositionAccount
<1>6. f[p] = 0 /\ k[p] = 0
  BY <1>4
<1>7. pool.liquidity = Total(f, open) /\ pool.permanent_lock_liquidity = Total(k, open)
  BY DEF LiquidityBacked
<1>8. IsFiniteSet(open) /\ IsFiniteSet(open')
  BY <1>1, OpenIsFinite, FS_Subset, PoolAssumption
<1>9. open' \subseteq Positions
  BY <1>1
<1> HIDE DEF f, g, k, l
<1>10. Total(g, open') = Total(f, open') /\ Total(l, open') = Total(k, open')
  BY <1>5, <1>8, <1>9, SumEq
<1>11. Total(f, open') = Total(f, open) /\ Total(k, open') = Total(k, open)
  <2>1. Total(f, open) \in Int /\ Total(k, open) \in Int
    BY <1>1, <1>5, <1>8, SumInt
  <2>2. Total(f, open') \in Int /\ Total(k, open') \in Int
    BY <1>5, <1>8, <1>9, SumInt
  <2>3. CASE p \notin open /\ open' = open \cup {p}
    <3>1. /\ Total(f, open \cup {p}) = f[p] + Total(f, open)
          /\ Total(k, open \cup {p}) = k[p] + Total(k, open)
      BY <1>1, <1>5, <1>8, <2>3, SumInsert
    <3> QED
      BY <1>6, <2>1, <2>3, <3>1
  <2>4. CASE p \in open /\ open' = open \ {p}
    <3>1. /\ Total(f, open) = f[p] + Total(f, open \ {p})
          /\ Total(k, open) = k[p] + Total(k, open \ {p})
      BY <1>1, <1>5, <1>8, <2>4, SumRemove
    <3> QED
      BY <1>6, <2>2, <2>4, <3>1
  <2> QED
    BY <2>3, <2>4
<1>12. \A x \in Positions \ open' : position'[x] = NewPosition(0)
  BY <1>2 DEF LiquidityBacked
<1> QED
  BY <1>7, <1>10, <1>11, <1>12 DEF LiquidityBacked, g, l

\* A split moves liquidity between two positions.
LEMMA LiquiditySplits ==
    ASSUME TypeOK, LiquidityBacked, TypeOK', open' = open, UNCHANGED pool,
           NEW p \in open, NEW q \in open, p # q,
           NEW from \in PositionAccount, NEW to \in PositionAccount,
           position' = [position EXCEPT ![p] = from, ![q] = to],
           TotalLiquidity(from) + TotalLiquidity(to)
               = TotalLiquidity(position[p]) + TotalLiquidity(position[q]),
           from.permanent + to.permanent = position[p].permanent + position[q].permanent
    PROVE  LiquidityBacked'
<1> DEFINE f == [x \in Positions |-> TotalLiquidity(position[x])]
           g == [x \in Positions |-> TotalLiquidity(position'[x])]
           k == [x \in Positions |-> position[x].permanent]
           l == [x \in Positions |-> position'[x].permanent]
<1>1. open \subseteq Positions /\ position \in [Positions -> PositionAccount]
  BY DEF TypeOK
<1>2. \A x \in Positions : position'[x] = IF x = p THEN from
                                          ELSE IF x = q THEN to ELSE position[x]
  BY <1>1
<1>3. \A x \in open : /\ f[x] \in Nat /\ g[x] \in Nat
                      /\ k[x] \in Nat /\ l[x] \in Nat
  BY <1>1, <1>2, LiquidityIsNat DEF PositionAccount
<1>4. \A x \in open : x \notin {p, q} => g[x] = f[x] /\ l[x] = k[x]
  BY <1>1, <1>2
<1>5. g[p] + g[q] = f[p] + f[q] /\ l[p] + l[q] = k[p] + k[q]
  BY <1>1, <1>2
<1>6. pool.liquidity = Total(f, open) /\ pool.permanent_lock_liquidity = Total(k, open)
  BY DEF LiquidityBacked
<1> HIDE DEF f, g, k, l
<1>7. /\ Total(f, open) \in Int
      /\ Total(g, open) = Total(f, open) + (g[p] - f[p]) + (g[q] - f[q])
  BY <1>3, <1>4, OpenIsFinite, SumTwo
<1>8. /\ Total(k, open) \in Int
      /\ Total(l, open) = Total(k, open) + (l[p] - k[p]) + (l[q] - k[q])
  BY <1>3, <1>4, OpenIsFinite, SumTwo
<1>9. Total(g, open) = Total(f, open) /\ Total(l, open) = Total(k, open)
  BY <1>3, <1>5, <1>7, <1>8
<1>10. \A x \in Positions \ open : position'[x] = NewPosition(0)
  BY <1>2 DEF LiquidityBacked
<1> QED
  BY <1>6, <1>9, <1>10 DEF LiquidityBacked, g, l

-----------------------------------------------------------------------------
(* Vested liquidity is what the vesting accounts hold.                     *)

\* What a schedule has unlocked grows with time, up to the whole lock.
LEMMA UnlockedGrows ==
    ASSUME NEW v \in VestingAccount, NEW now \in Nat, NEW later \in Nat, now <= later
    PROVE  /\ MaxUnlocked(v, now) \in Nat /\ TotalLock(v) \in Nat
           /\ MaxUnlocked(v, now) <= MaxUnlocked(v, later)
           /\ MaxUnlocked(v, now) <= TotalLock(v)
<1> DEFINE counted(at) == LET passed == (at - v.cliff) \div v.frequency
                          IN IF passed < v.periods THEN passed ELSE v.periods
<1>1. /\ v.cliff \in Nat /\ v.frequency \in Nat /\ v.cliff_unlock \in Nat
      /\ v.per_period \in Nat /\ v.periods \in Nat
  BY DEF VestingAccount
<1>2. v.per_period * v.periods \in Nat
  BY <1>1
<1>3. TotalLock(v) \in Nat /\ v.cliff_unlock <= TotalLock(v)
  BY <1>1, <1>2 DEF TotalLock
<1>4. CASE v.frequency = 0
  <2>1. /\ MaxUnlocked(v, now) = IF now < v.cliff THEN 0 ELSE v.cliff_unlock
        /\ MaxUnlocked(v, later) = IF later < v.cliff THEN 0 ELSE v.cliff_unlock
    BY <1>4 DEF MaxUnlocked
  <2> QED
    BY <1>1, <1>3, <2>1
<1>5. CASE v.frequency # 0 /\ now < v.cliff /\ later < v.cliff
  BY <1>1, <1>3, <1>5 DEF MaxUnlocked
<1>6. CASE v.frequency # 0 /\ ~ (later < v.cliff)
  <2>1. ASSUME NEW at \in Nat, ~ (at < v.cliff)
        PROVE  /\ (at - v.cliff) \div v.frequency \in Nat
               /\ counted(at) \in 0 .. v.periods
               /\ MaxUnlocked(v, at) = v.cliff_unlock + v.per_period * counted(at)
               /\ v.per_period * counted(at) \in Nat
               /\ v.per_period * counted(at) <= v.per_period * v.periods
    <3>1. at - v.cliff \in Nat /\ v.frequency \in Nat \ {0}
      BY <1>1, <1>6, <2>1
    <3>2. (at - v.cliff) \div v.frequency \in Nat
      BY <3>1, DivBounds
    <3>3. counted(at) \in 0 .. v.periods
      BY <1>1, <3>2
    <3>4. MaxUnlocked(v, at) = v.cliff_unlock + v.per_period * counted(at)
      BY <1>6, <2>1 DEF MaxUnlocked
    <3> HIDE DEF counted
    <3>5. counted(at) * v.per_period <= v.periods * v.per_period
      BY <1>1, <3>3, Monotone
    <3>6. /\ counted(at) * v.per_period = v.per_period * counted(at)
          /\ v.periods * v.per_period = v.per_period * v.periods
          /\ v.per_period * counted(at) \in Nat
      BY <1>1, <3>3
    <3> QED
      BY <3>2, <3>3, <3>4, <3>5, <3>6
  <2>2. CASE now < v.cliff
    <3>1. MaxUnlocked(v, now) = 0
      BY <2>2 DEF MaxUnlocked
    <3>2. MaxUnlocked(v, later) = v.cliff_unlock + v.per_period * counted(later)
          /\ v.per_period * counted(later) \in Nat
      BY <1>6, <2>1
    <3> HIDE DEF counted
    <3> QED
      BY <1>1, <1>3, <3>1, <3>2
  <2>3. CASE ~ (now < v.cliff)
    <3>1. (now - v.cliff) \div v.frequency <= (later - v.cliff) \div v.frequency
      BY <1>1, <1>6, <2>3, DivMonotone
    <3>2. counted(now) <= counted(later)
      BY <1>1, <1>6, <2>1, <2>3, <3>1
    <3>3. /\ MaxUnlocked(v, now) = v.cliff_unlock + v.per_period * counted(now)
          /\ MaxUnlocked(v, later) = v.cliff_unlock + v.per_period * counted(later)
          /\ counted(now) \in 0 .. v.periods /\ counted(later) \in 0 .. v.periods
          /\ v.per_period * counted(now) \in Nat
          /\ v.per_period * counted(later) \in Nat
          /\ v.per_period * counted(now) <= v.per_period * v.periods
      BY <1>6, <2>1, <2>3
    <3> HIDE DEF counted
    <3>4. counted(now) * v.per_period <= counted(later) * v.per_period
      BY <1>1, <3>2, <3>3, Monotone
    <3>5. /\ counted(now) * v.per_period = v.per_period * counted(now)
          /\ counted(later) * v.per_period = v.per_period * counted(later)
      BY <1>1, <3>3
    <3> QED
      BY <1>1, <1>2, <1>3, <3>3, <3>4, <3>5 DEF TotalLock
  <2> QED
    BY <2>2, <2>3
<1> QED
  BY <1>1, <1>4, <1>5, <1>6

\* What a vesting account still holds
Holds(v) == TotalLock(vesting[v]) - vesting[v].released

LEMMA LocksAreFinite ==
    ASSUME TypeOK, NEW p \in Positions
    PROVE  /\ IsFiniteSet(Locks(p))
           /\ \A v \in Locks(p) : vesting[v] \in VestingAccount /\ Holds(v) \in Int
<1>1. IsFiniteSet(Locks(p))
  BY PoolAssumption, FS_Subset DEF Locks
<1>2. ASSUME NEW v \in Locks(p)
      PROVE  vesting[v] \in VestingAccount /\ Holds(v) \in Int
  <2>1. vesting[v] \in VestingAccount
    BY DEF TypeOK, Locks
  <2>2. TotalLock(vesting[v]) \in Nat
    BY <2>1, UnlockedGrows
  <2>3. vesting[v].released \in Nat
    BY <2>1 DEF VestingAccount
  <2> QED
    BY <2>1, <2>2, <2>3 DEF Holds
<1> QED
  BY <1>1, <1>2

\* Time passes, and what is vested of the positions stays.
LEMMA VestedStays ==
    ASSUME TypeOK, VestedBacked, UNCHANGED vesting,
           point' \in Nat, point <= point',
           \A p \in Positions : position'[p].vested = position[p].vested
    PROVE  VestedBacked'
<1>1. \A p \in Positions : Locks(p)' = Locks(p)
  BY DEF Locks
<1>2. ASSUME NEW p \in Positions, NEW v \in Locks(p)
      PROVE  vesting[v].released <= MaxUnlocked(vesting[v], point')
  <2>1. vesting[v] \in VestingAccount /\ point \in Nat
    BY LocksAreFinite DEF TypeOK
  <2>2. /\ MaxUnlocked(vesting[v], point) <= MaxUnlocked(vesting[v], point')
        /\ MaxUnlocked(vesting[v], point) \in Nat /\ MaxUnlocked(vesting[v], point') \in Nat
    BY <2>1, UnlockedGrows
  <2>3. vesting[v].released \in Nat /\ vesting[v].released <= MaxUnlocked(vesting[v], point)
    BY <2>1 DEF VestedBacked, VestingAccount
  <2> QED
    BY <2>2, <2>3
<1> QED
  BY <1>1, <1>2 DEF VestedBacked

\* One vesting account is opened, releases a part, or is closed, and the
\* vested liquidity of its position changes by as much.
Held(v) == IF vesting[v] = NoVesting THEN 0 ELSE Holds(v)

LEMMA VestedMoves ==
    ASSUME TypeOK, TypeOK', VestedBacked, UNCHANGED point,
           NEW v \in VestingAccounts, NEW p \in Positions, NEW new,
           vesting' = [vesting EXCEPT ![v] = new],
           vesting[v] # NoVesting => vesting[v].position = p,
           new # NoVesting => /\ new.position = p
                              /\ new.released \in 0 .. TotalLock(new) - 1
                              /\ new.released <= MaxUnlocked(new, point),
           position'[p].vested = position[p].vested + (Held(v)' - Held(v)),
           \A x \in Positions \ {p} : position'[x].vested = position[x].vested
    PROVE  VestedBacked'
<1> DEFINE V == VestingAccounts
           h == [x \in Locks(p) |-> TotalLock(vesting[x]) - vesting[x].released]
           k == [x \in Locks(p)' |-> TotalLock(vesting'[x]) - vesting'[x].released]
           f == [x \in V |-> IF x \in Locks(p) THEN Holds(x) ELSE 0]
           g == [x \in V |-> IF x \in Locks(p)' THEN Holds(x)' ELSE 0]
<1>1. \A x \in V : vesting'[x] = IF x = v THEN new ELSE vesting[x]
  BY DEF TypeOK
<1>2. \A x \in V \ {v} : /\ x \in Locks(p)' <=> x \in Locks(p)
                         /\ Holds(x)' = Holds(x)
  BY <1>1 DEF Locks, Holds
<1>3. \A x \in Locks(p) : x \in V /\ Holds(x) \in Int
  BY LocksAreFinite DEF Locks
<1>4. \A x \in Locks(p)' : x \in V /\ Holds(x)' \in Int
  <2>1. SUFFICES ASSUME NEW x \in Locks(p)' PROVE x \in V /\ Holds(x)' \in Int
    OBVIOUS
  <2>2. x \in V /\ vesting'[x] \in VestingAccount
    BY DEF TypeOK, Locks
  <2>3. TotalLock(vesting'[x]) \in Nat /\ vesting'[x].released \in Nat
    BY <2>2, UnlockedGrows DEF VestingAccount
  <2> QED
    BY <2>2, <2>3 DEF Holds
<1>5. IsFiniteSet(V) /\ Locks(p) \in SUBSET V /\ Locks(p)' \in SUBSET V
  BY PoolAssumption DEF Locks
<1>6. IsFiniteSet(Locks(p)) /\ IsFiniteSet(Locks(p)')
  BY <1>5, FS_Subset
<1>7. \A x \in V : /\ f[x] \in Int /\ (x \notin Locks(p) => f[x] = 0)
                   /\ g[x] \in Int /\ (x \notin Locks(p)' => g[x] = 0)
                   /\ (x # v => g[x] = f[x])
  BY <1>2, <1>3, <1>4
<1>8. \A x \in Locks(p) : f[x] \in Int /\ h[x] = f[x]
  BY <1>3 DEF Holds
<1>9. \A x \in Locks(p)' : g[x] \in Int /\ k[x] = g[x]
  BY <1>4 DEF Holds
<1>10. f[v] = Held(v) /\ g[v] = Held(v)'
  BY <1>1 DEF Held, Locks
<1>11. position[p].vested = Total(h, Locks(p))
  BY DEF VestedBacked
<1> HIDE DEF f, g, h, k
<1>12. Total(h, Locks(p)) = Total(f, V)
  <2>1. Total(h, Locks(p)) = Total(f, Locks(p))
    BY <1>6, <1>8, SumEq
  <2>2. Total(f, V) = Total(f, Locks(p))
    BY <1>5, <1>7, SumSupport
  <2> QED
    BY <2>1, <2>2
<1>13. Total(k, Locks(p)') = Total(g, V)
  <2>1. Total(k, Locks(p)') = Total(g, Locks(p)')
    BY <1>6, <1>9, SumEq
  <2>2. Total(g, V) = Total(g, Locks(p)')
    BY <1>5, <1>7, SumSupport
  <2> QED
    BY <2>1, <2>2
<1>14. Total(g, V) = Total(f, V) + (g[v] - f[v])
  BY <1>5, <1>7, SumOne
<1>15. position'[p].vested = Total(k, Locks(p)')
  BY <1>10, <1>11, <1>12, <1>13, <1>14
<1>16. ASSUME NEW q \in Positions, q # p
       PROVE  /\ Locks(q)' = Locks(q)
              /\ \A x \in Locks(q) : x \in V \ {v} /\ vesting'[x] = vesting[x]
              /\ position'[q].vested = position[q].vested
  BY <1>1, <1>16 DEF Locks
<1>17. ASSUME NEW q \in Positions
       PROVE  position'[q].vested =
                Total([x \in Locks(q)' |-> TotalLock(vesting'[x]) - vesting'[x].released],
                      Locks(q)')
  <2>1. CASE q = p
    BY <1>15, <2>1 DEF k
  <2>2. CASE q # p
    <3>1. [x \in Locks(q)' |-> TotalLock(vesting'[x]) - vesting'[x].released]
            = [x \in Locks(q) |-> TotalLock(vesting[x]) - vesting[x].released]
      BY <1>16, <2>2
    <3> QED
      BY <1>16, <2>2, <3>1 DEF VestedBacked
  <2> QED
    BY <2>1, <2>2
<1>18. ASSUME NEW q \in Positions, NEW x \in Locks(q)'
       PROVE  /\ vesting'[x].released \in 0 .. TotalLock(vesting'[x]) - 1
              /\ vesting'[x].released <= MaxUnlocked(vesting'[x], point')
  <2>1. x \in V /\ vesting'[x] # NoVesting
    BY DEF Locks
  <2>2. CASE x = v
    BY <1>1, <2>1, <2>2
  <2>3. CASE x # v
    <3>1. x \in Locks(q) /\ vesting'[x] = vesting[x]
      BY <1>1, <2>3 DEF Locks
    <3> QED
      BY <3>1 DEF VestedBacked
  <2> QED
    BY <2>2, <2>3
<1> QED
  BY <1>17, <1>18 DEF VestedBacked

-----------------------------------------------------------------------------
(* Fees owed are backed by fees charged.                                   *)

LEMMA BackingIsInt ==
    ASSUME NEW pos \in PositionAccount, NEW F \in Amount, NEW paid \in Amount,
           NEW t \in Tokens
    PROVE  Backing(pos, F, paid, t) \in Int
<1> DEFINE x == pos.pending[t] + paid[t]
           y == F[t] - pos.checkpoint[t]
<1>1. x \in Int /\ y \in Int /\ LIQUIDITY_UNIT \in Int /\ TotalLiquidity(pos) \in Int
  BY PoolAssumption, LiquidityIsNat DEF PositionAccount, Amount
<1>2. Backing(pos, F, paid, t) = x * LIQUIDITY_UNIT + TotalLiquidity(pos) * y
  BY DEF Backing
<1> HIDE DEF x, y
<1> QED
  BY <1>1, <1>2

\* Nothing accrues at the checkpoint.
LEMMA SettledBacking ==
    ASSUME NEW pos \in PositionAccount, NEW F \in Amount, NEW paid \in Amount,
           NEW t \in Tokens, pos.checkpoint = F
    PROVE  Backing(pos, F, paid, t) = (pos.pending[t] + paid[t]) * LIQUIDITY_UNIT
<1> DEFINE x == pos.pending[t] + paid[t]
<1>1. x \in Int /\ F[t] - pos.checkpoint[t] = 0 /\ LIQUIDITY_UNIT \in Int
  BY PoolAssumption DEF PositionAccount, Amount
<1>2. TotalLiquidity(pos) \in Int
  BY LiquidityIsNat
<1>3. Backing(pos, F, paid, t) = x * LIQUIDITY_UNIT + TotalLiquidity(pos) * 0
  BY <1>1 DEF Backing
<1> HIDE DEF x
<1>4. x * LIQUIDITY_UNIT \in Int
  BY <1>1
<1>5. Backing(pos, F, paid, t) = x * LIQUIDITY_UNIT
  BY <1>2, <1>3, <1>4
<1> QED
  BY <1>5 DEF x

\* What stays pending or is paid out of what was settled keeps its backing,
\* whatever the liquidity of the position has become.
LEMMA SettlingIsBacked ==
    ASSUME NEW pos \in PositionAccount, NEW new \in PositionAccount,
           NEW F \in Amount, NEW paid \in Amount, NEW after \in Amount,
           \A t \in Tokens : pos.checkpoint[t] <= F[t],
           new.checkpoint = F, NEW t \in Tokens,
           new.pending[t] + after[t] <= UpdateFee(pos, F).pending[t] + paid[t]
    PROVE  Backing(new, F, after, t) <= Backing(pos, F, paid, t)
<1> DEFINE x == new.pending[t] + after[t]
           y == UpdateFee(pos, F).pending[t] + paid[t]
           U == LIQUIDITY_UNIT
<1>1. x \in Int /\ y \in Int /\ U \in Nat
  BY PoolAssumption, SettledType DEF PositionAccount, Amount
<1>2. Backing(new, F, after, t) = x * U
  BY SettledBacking
<1>3. y * U <= Backing(pos, F, paid, t)
  BY SettlingRoundsDown
<1>4. Backing(pos, F, paid, t) \in Int
  BY BackingIsInt
<1>5. x <= y
  OBVIOUS
<1> HIDE DEF x, y, U
<1>6. x * U <= y * U
  BY <1>1, <1>5, Monotone
<1>7. x * U \in Int /\ y * U \in Int
  BY <1>1
<1> QED
  BY <1>2, <1>3, <1>4, <1>6, <1>7

LEMMA UnroundedIs ==
    ASSUME TypeOK, NEW p \in Positions, NEW t \in Tokens
    PROVE  /\ Unrounded(p, t) \in Int
           /\ Unrounded(p, t) =
                Backing(position[p], pool.fee_per_liquidity, claimed[p], t)
<1>1. Unrounded(p, t) = Backing(position[p], pool.fee_per_liquidity, claimed[p], t)
  BY DEF Unrounded, Backing
<1>2. position[p] \in PositionAccount /\ pool.fee_per_liquidity \in Amount
      /\ claimed[p] \in Amount
  BY DEF TypeOK, PoolAccount
<1> QED
  BY <1>1, <1>2, BackingIsInt

LEMMA UnroundedBecomes ==
    ASSUME TypeOK', NEW p \in Positions, NEW t \in Tokens
    PROVE  /\ Unrounded(p, t)' \in Int
           /\ Unrounded(p, t)' =
                Backing(position'[p], pool'.fee_per_liquidity, claimed'[p], t)
<1>1. Unrounded(p, t)' = Backing(position'[p], pool'.fee_per_liquidity, claimed'[p], t)
  BY DEF Unrounded, Backing
<1>2. position'[p] \in PositionAccount /\ pool'.fee_per_liquidity \in Amount
      /\ claimed'[p] \in Amount
  BY DEF TypeOK, PoolAccount
<1> QED
  BY <1>1, <1>2, BackingIsInt

\* Without a trade, it is enough that no position's backing grows.
LEMMA FeesFall ==
    ASSUME TypeOK, TypeOK', FeesBacked, earned' = earned,
           pool'.fee_per_liquidity = pool.fee_per_liquidity,
           \A p \in Positions, t \in Tokens :
              /\ position'[p].checkpoint[t] <= pool.fee_per_liquidity[t]
              /\ Unrounded(p, t)' <= Unrounded(p, t)
    PROVE  FeesBacked'
<1>1. ASSUME NEW t \in Tokens
      PROVE  Total([p \in Positions |-> Unrounded(p, t)'], Positions)
               <= earned[t] * LIQUIDITY_UNIT
  <2> DEFINE f == [p \in Positions |-> Unrounded(p, t)]
             g == [p \in Positions |-> Unrounded(p, t)']
  <2>1. \A p \in Positions : f[p] \in Int /\ g[p] \in Int /\ g[p] <= f[p]
    BY UnroundedIs, UnroundedBecomes
  <2>2. Total(f, Positions) <= earned[t] * LIQUIDITY_UNIT
    BY DEF FeesBacked
  <2>3. earned[t] * LIQUIDITY_UNIT \in Int
    <3>1. earned[t] \in Int /\ LIQUIDITY_UNIT \in Int
      BY PoolAssumption DEF TypeOK, Amount
    <3> QED
      BY <3>1
  <2> HIDE DEF f, g
  <2>4. /\ Total(g, Positions) <= Total(f, Positions)
        /\ Total(g, Positions) \in Int /\ Total(f, Positions) \in Int
    BY <2>1, OpenIsFinite, SumLe, SumInt
  <2>5. Total(g, Positions) <= earned[t] * LIQUIDITY_UNIT
    BY <2>2, <2>3, <2>4
  <2> QED
    BY <2>5 DEF g
<1> QED
  BY <1>1 DEF FeesBacked

\* One position changes.
LEMMA FeesMove ==
    ASSUME TypeOK, TypeOK', FeesBacked, earned' = earned,
           pool'.fee_per_liquidity = pool.fee_per_liquidity,
           NEW p \in Positions, NEW new,
           position' = [position EXCEPT ![p] = new],
           \A x \in Positions \ {p} : claimed'[x] = claimed[x],
           \A t \in Tokens :
              /\ new.checkpoint[t] <= pool.fee_per_liquidity[t]
              /\ Backing(new, pool.fee_per_liquidity, claimed'[p], t)
                   <= Backing(position[p], pool.fee_per_liquidity, claimed[p], t)
    PROVE  FeesBacked'
<1>1. \A x \in Positions : position'[x] = IF x = p THEN new ELSE position[x]
  BY DEF TypeOK
<1>2. ASSUME NEW x \in Positions, NEW t \in Tokens
      PROVE  /\ position'[x].checkpoint[t] <= pool.fee_per_liquidity[t]
             /\ Unrounded(x, t)' <= Unrounded(x, t)
  <2>1. CASE x = p
    BY <1>1, <2>1, UnroundedIs, UnroundedBecomes
  <2>2. CASE x # p
    <3>1. position'[x] = position[x] /\ claimed'[x] = claimed[x]
      BY <1>1, <2>2
    <3>2. Unrounded(x, t)' = Unrounded(x, t) /\ Unrounded(x, t) \in Int
      BY <3>1, UnroundedIs, UnroundedBecomes
    <3> QED
      BY <3>1, <3>2 DEF FeesBacked
  <2> QED
    BY <2>1, <2>2
<1> QED
  BY <1>2, FeesFall

\* Liquidity changes its kind within a position, which earns as before.
LEMMA FeesStayWith ==
    ASSUME TypeOK, TypeOK', FeesBacked, earned' = earned, claimed' = claimed,
           pool'.fee_per_liquidity = pool.fee_per_liquidity,
           \A x \in Positions :
              /\ position'[x].pending = position[x].pending
              /\ position'[x].checkpoint = position[x].checkpoint
              /\ TotalLiquidity(position'[x]) = TotalLiquidity(position[x])
    PROVE  FeesBacked'
<1>1. ASSUME NEW x \in Positions, NEW t \in Tokens
      PROVE  /\ position'[x].checkpoint[t] <= pool.fee_per_liquidity[t]
             /\ Unrounded(x, t)' <= Unrounded(x, t)
  <2>1. Unrounded(x, t)' = Unrounded(x, t)
    BY DEF Unrounded
  <2>2. Unrounded(x, t) \in Int
    BY UnroundedIs
  <2> QED
    BY <2>1, <2>2 DEF FeesBacked
<1> QED
  BY <1>1, FeesFall

\* A split moves pending fees between two settled positions.
LEMMA FeesSplit ==
    ASSUME TypeOK, TypeOK', FeesBacked, earned' = earned, claimed' = claimed,
           pool' = pool, NEW p \in Positions, NEW q \in Positions, p # q,
           NEW from \in PositionAccount, NEW to \in PositionAccount,
           position' = [position EXCEPT ![p] = from, ![q] = to],
           from.checkpoint = pool.fee_per_liquidity,
           to.checkpoint = pool.fee_per_liquidity,
           \A t \in Tokens :
              from.pending[t] + to.pending[t] =
                UpdateFee(position[p], pool.fee_per_liquidity).pending[t]
                  + UpdateFee(position[q], pool.fee_per_liquidity).pending[t]
    PROVE  FeesBacked'
<1> DEFINE F == pool.fee_per_liquidity
           U == LIQUIDITY_UNIT
<1>1. \A x \in Positions : position'[x] = IF x = p THEN from
                                          ELSE IF x = q THEN to ELSE position[x]
  BY DEF TypeOK
<1>2. /\ F \in Amount /\ position[p] \in PositionAccount
      /\ position[q] \in PositionAccount
      /\ claimed[p] \in Amount /\ claimed[q] \in Amount
      /\ \A t \in Tokens : position[p].checkpoint[t] <= F[t]
      /\ \A t \in Tokens : position[q].checkpoint[t] <= F[t]
  BY DEF TypeOK, PoolAccount, FeesBacked
<1>3. ASSUME NEW t \in Tokens
      PROVE  Total([x \in Positions |-> Unrounded(x, t)'], Positions)
               <= earned[t] * U
  <2> DEFINE f == [x \in Positions |-> Unrounded(x, t)]
             g == [x \in Positions |-> Unrounded(x, t)']
             a == UpdateFee(position[p], F).pending[t]
             b == UpdateFee(position[q], F).pending[t]
             c == claimed[p][t]
             d == claimed[q][t]
             i == from.pending[t]
             j == to.pending[t]
  <2>1. \A x \in Positions : f[x] \in Int /\ g[x] \in Int
    BY UnroundedIs, UnroundedBecomes
  <2>2. ASSUME NEW x \in Positions, x \notin {p, q}
        PROVE  g[x] = f[x]
    <3>1. position'[x] = position[x]
      BY <1>1, <2>2
    <3>2. Unrounded(x, t)' = Unrounded(x, t)
      BY <3>1 DEF Unrounded
    <3> QED
      BY <3>2
  <2>3. g[p] = (i + c) * U /\ g[q] = (j + d) * U
    <3>1. position'[p] = from /\ position'[q] = to
      BY <1>1
    <3>2. g[p] = Backing(from, F, claimed[p], t) /\ g[q] = Backing(to, F, claimed[q], t)
      BY <3>1, UnroundedBecomes
    <3> QED
      BY <1>2, <3>2, SettledBacking
  <2>4. (a + c) * U <= f[p] /\ (b + d) * U <= f[q]
    BY <1>2, UnroundedIs, SettlingRoundsDown
  <2>5. /\ a \in Nat /\ b \in Nat /\ c \in Nat /\ d \in Nat /\ U \in Nat
        /\ i \in Nat /\ j \in Nat
    <3>1. /\ UpdateFee(position[p], F) \in PositionAccount
          /\ UpdateFee(position[q], F) \in PositionAccount
      BY <1>2, SettledType
    <3>2. \A account \in PositionAccount : account.pending[t] \in Nat
      BY DEF PositionAccount, Amount
    <3>3. a \in Nat /\ b \in Nat
      BY <3>1, <3>2
    <3>4. i \in Nat /\ j \in Nat
      BY <3>2
    <3>5. c \in Nat /\ d \in Nat
      BY <1>2 DEF Amount
    <3>6. U \in Nat
      BY PoolAssumption
    <3> QED
      BY <3>3, <3>4, <3>5, <3>6
  <2>6. i + j = a + b
    OBVIOUS
  <2>7. Total(f, Positions) <= earned[t] * U
    BY DEF FeesBacked
  <2>8. earned[t] \in Nat
    BY DEF TypeOK, Amount
  <2> HIDE DEF f, g, a, b, c, d, i, j, U
  <2>9. (i + c) * U + (j + d) * U = (a + c) * U + (b + d) * U
    <3>1. /\ (i + c) * U + (j + d) * U = (i + j) * U + (c + d) * U
          /\ (a + c) * U + (b + d) * U = (a + b) * U + (c + d) * U
      BY <2>5
    <3> QED
      BY <2>6, <3>1
  <2>10. g[p] + g[q] <= f[p] + f[q]
    <3>1. /\ (i + c) * U \in Int /\ (j + d) * U \in Int
          /\ (a + c) * U \in Int /\ (b + d) * U \in Int
      BY <2>5
    <3> QED
      BY <2>1, <2>3, <2>4, <2>9, <3>1
  <2>11. /\ Total(f, Positions) \in Int
         /\ Total(g, Positions) = Total(f, Positions) + (g[p] - f[p]) + (g[q] - f[q])
    BY <2>1, <2>2, OpenIsFinite, SumTwo
  <2>12. earned[t] * U \in Int
    BY <2>5, <2>8
  <2>13. Total(g, Positions) <= earned[t] * U
    BY <2>1, <2>7, <2>10, <2>11, <2>12
  <2> QED
    BY <2>13 DEF g
<1>4. \A x \in Positions, t \in Tokens :
        position'[x].checkpoint[t] <= pool'.fee_per_liquidity[t]
  <2>1. \A t \in Tokens : F[t] <= F[t]
    BY <1>2 DEF Amount
  <2> QED
    BY <1>1, <2>1 DEF FeesBacked
<1> QED
  BY <1>3, <1>4 DEF FeesBacked

\* A trade raises the fees per unit of liquidity by no more than its fee.
LEMMA FeesGrow ==
    ASSUME TypeOK, TypeOK', FeesBacked, LiquidityBacked,
           UNCHANGED <<open, position, claimed>>,
           pool.liquidity \in Nat \ {0}, NEW t \in Tokens, NEW fee \in Nat,
           pool'.fee_per_liquidity =
              [pool.fee_per_liquidity EXCEPT ![t] = @ + PerLiquidity(fee, pool.liquidity)],
           earned' = Plus(earned, Only(t, fee))
    PROVE  FeesBacked'
<1> DEFINE F == pool.fee_per_liquidity
           G == pool'.fee_per_liquidity
           U == LIQUIDITY_UNIT
           L == pool.liquidity
           d == PerLiquidity(fee, L)
<1>1. F \in Amount /\ G \in Amount /\ earned \in Amount /\ U \in Nat \ {0}
  BY PoolAssumption DEF TypeOK, PoolAccount
<1>2. d \in Nat /\ L * d <= fee * U
  <2>1. fee * U \in Nat
    BY <1>1
  <2>2. d = (fee * U) \div L
    BY DEF PerLiquidity
  <2> HIDE DEF d, U
  <2>3. d \in Nat /\ d * L <= fee * U
    BY <2>1, <2>2, DivBounds DEF L
  <2>4. d * L = L * d
    BY <2>3
  <2> QED
    BY <2>3, <2>4
<1>3. /\ G[t] = F[t] + d
      /\ \A s \in Tokens : s # t => G[s] = F[s]
  BY <1>1 DEF Amount
<1>4. \A s \in Tokens : earned'[s] = earned[s] + (IF s = t THEN fee ELSE 0)
  BY <1>1 DEF Plus, Only, None, Amount
<1> HIDE DEF d, G
<1>5. ASSUME NEW p \in Positions, NEW s \in Tokens
      PROVE  position'[p].checkpoint[s] <= G[s]
  <2>1. position[p].checkpoint[s] <= F[s] /\ position[p].checkpoint[s] \in Nat
    BY DEF FeesBacked, TypeOK, PositionAccount, Amount
  <2>2. F[s] <= G[s] /\ F[s] \in Nat /\ G[s] \in Nat
    BY <1>1, <1>2, <1>3 DEF Amount
  <2> QED
    BY <2>1, <2>2
<1>6. ASSUME NEW s \in Tokens
      PROVE  Total([p \in Positions |-> Unrounded(p, s)'], Positions)
               <= earned'[s] * U
  <2> DEFINE f == [p \in Positions |-> Unrounded(p, s)]
             g == [p \in Positions |-> Unrounded(p, s)']
             l == [p \in Positions |-> TotalLiquidity(position[p])]
             h == [p \in Positions |-> TotalLiquidity(position[p]) * d]
  <2>1. Total(f, Positions) <= earned[s] * U
    BY DEF FeesBacked
  <2>2. CASE s # t
    <3>1. g = f
      BY <1>3, <2>2 DEF Unrounded, G
    <3>2. earned'[s] = earned[s]
      BY <1>1, <1>4, <2>2 DEF Amount
    <3> QED
      BY <2>1, <3>1, <3>2
  <2>3. CASE s = t
    <3>1. ASSUME NEW p \in Positions
          PROVE  /\ f[p] \in Int /\ l[p] \in Int /\ h[p] \in Int /\ h[p] = l[p] * d
                 /\ g[p] = f[p] + h[p]
                 /\ p \notin open => l[p] = 0
      <4> DEFINE k == l[p]
                 c == position[p].checkpoint[s]
                 x == position[p].pending[s] + claimed[p][s]
      <4>1. k \in Nat
        BY LiquidityIsNat DEF TypeOK
      <4>2. c \in Nat /\ x \in Nat /\ F[s] \in Nat
        BY <1>1 DEF TypeOK, PositionAccount, Amount
      <4>3. f[p] = x * U + k * (F[s] - c)
        BY DEF Unrounded
      <4>4. g[p] = x * U + k * (G[s] - c)
        BY DEF Unrounded, G
      <4>5. h[p] = k * d
        OBVIOUS
      <4>6. f[p] \in Int
        BY UnroundedIs
      <4>7. p \notin open => k = 0
        BY DEF LiquidityBacked, NewPosition, TotalLiquidity
      <4> HIDE DEF f, g, h, k, c, x, U, F
      <4>8. k * (G[s] - c) = k * (F[s] - c) + k * d
        BY <1>2, <1>3, <2>3, <4>1, <4>2
      <4>9. /\ k * d \in Int /\ x * U \in Int
            /\ k * (F[s] - c) \in Int /\ k * (G[s] - c) \in Int
        BY <1>1, <1>2, <1>3, <2>3, <4>1, <4>2
      <4>10. g[p] = f[p] + h[p]
        BY <4>3, <4>4, <4>5, <4>8, <4>9
      <4> QED
        BY <4>1, <4>5, <4>6, <4>7, <4>9, <4>10 DEF k
    <3>2. L = Total(l, open)
      BY DEF LiquidityBacked
    <3>3. earned'[s] = earned[s] + fee /\ earned[s] \in Nat
      BY <1>1, <1>4, <2>3 DEF Amount
    <3> HIDE DEF f, g, h, l, U, L
    <3>4. Total(g, Positions) = Total(f, Positions) + Total(h, Positions)
      BY <3>1, OpenIsFinite, SumPlus
    <3>5. Total(h, Positions) = Total(l, Positions) * d
      BY <1>2, <3>1, OpenIsFinite, SumTimes
    <3>6. Total(l, Positions) = L
      <4>1. open \in SUBSET Positions
        BY DEF TypeOK
      <4> QED
        BY <3>1, <3>2, <4>1, OpenIsFinite, SumSupport
    <3>7. (earned[s] + fee) * U = earned[s] * U + fee * U
      BY <1>1, <3>3
    <3>8. Total(f, Positions) \in Int /\ Total(h, Positions) \in Int
      BY <3>1, OpenIsFinite, SumInt
    <3>9. earned[s] * U \in Int /\ fee * U \in Int /\ L * d \in Int
      BY <1>1, <1>2, <3>3 DEF L
    <3>10. Total(g, Positions) <= earned'[s] * U
      BY <1>2, <2>1, <3>3, <3>4, <3>5, <3>6, <3>7, <3>8, <3>9
    <3> QED
      BY <3>10 DEF g
  <2> QED
    BY <2>2, <2>3
<1> QED
  BY <1>5, <1>6 DEF FeesBacked, G, U

-----------------------------------------------------------------------------
(* The vaults cover what everybody may take.                               *)

Curve(p, t) == Reserve(p, t, p.sqrt_price)
Paid(c, t) == Total([x \in Positions |-> c[x][t]], Positions)

InItsRange(p) == p.sqrt_price \in p.sqrt_min_price .. p.sqrt_max_price

LEMMA CurveIsNat ==
    ASSUME NEW p \in PoolAccount, InItsRange(p), NEW t \in Tokens
    PROVE  Curve(p, t) \in Nat
<1>1. /\ p.liquidity \in Nat /\ p.sqrt_price \in Nat \ {0}
      /\ p.sqrt_min_price \in Nat \ {0} /\ p.sqrt_max_price \in Nat
      /\ p.sqrt_min_price <= p.sqrt_price /\ p.sqrt_price <= p.sqrt_max_price
  BY DEF PoolAccount, InItsRange
<1> QED
  BY <1>1, DeltaType DEF Curve, Reserve

LEMMA PaidIsNat ==
    ASSUME NEW c \in [Positions -> Amount], NEW t \in Tokens
    PROVE  Paid(c, t) \in Nat
<1> DEFINE f == [x \in Positions |-> c[x][t]]
<1>1. \A x \in Positions : f[x] \in Nat
  BY DEF Amount
<1> HIDE DEF f
<1>2. Total(f, Positions) \in Nat
  BY <1>1, PoolAssumption, SumNat
<1> QED
  BY <1>2 DEF Paid, f

LEMMA PaidGrows ==
    ASSUME NEW c \in [Positions -> Amount], NEW p \in Positions, NEW f \in Amount,
           NEW t \in Tokens
    PROVE  Paid([c EXCEPT ![p] = Plus(@, f)], t) = Paid(c, t) + f[t]
<1> DEFINE d == [c EXCEPT ![p] = Plus(@, f)]
           x == [y \in Positions |-> c[y][t]]
           z == [y \in Positions |-> d[y][t]]
<1>1. c[p] \in Amount
  OBVIOUS
<1>2. d[p] = Plus(c[p], f) /\ \A y \in Positions \ {p} : d[y] = c[y]
  OBVIOUS
<1>3. z[p] = x[p] + f[t] /\ x[p] \in Nat /\ f[t] \in Nat
  BY <1>1, <1>2, AmountsAdd DEF Amount
<1>4. \A y \in Positions : x[y] \in Int /\ (y # p => z[y] = x[y])
  BY <1>2 DEF Amount
<1> HIDE DEF d, x, z
<1>5. /\ Total(x, Positions) \in Int
      /\ Total(z, Positions) = Total(x, Positions) + (z[p] - x[p])
  BY <1>3, <1>4, PoolAssumption, SumOne
<1>6. Total(z, Positions) = Total(x, Positions) + f[t]
  BY <1>3, <1>5
<1> QED
  BY <1>6 DEF Paid, d, x, z

LEMMA SolventIs ==
    ASSUME TypeOK
    PROVE  /\ \A t \in Tokens :
                /\ vault[t] \in Nat /\ Curve(pool, t) \in Nat
                /\ earned[t] \in Nat /\ Paid(claimed, t) \in Nat
                /\ pool.protocol_fee[t] \in Nat /\ pool.partner_fee[t] \in Nat
           /\ Solvent <=>
                \A t \in Tokens :
                   vault[t] >= Curve(pool, t) + (earned[t] - Paid(claimed, t))
                                 + pool.protocol_fee[t] + pool.partner_fee[t]
<1>1. ASSUME NEW t \in Tokens
      PROVE  /\ vault[t] \in Nat /\ Curve(pool, t) \in Nat
             /\ earned[t] \in Nat /\ Paid(claimed, t) \in Nat
             /\ pool.protocol_fee[t] \in Nat /\ pool.partner_fee[t] \in Nat
  BY CurveIsNat, PaidIsNat DEF TypeOK, Amount, PoolAccount, InItsRange
<1>2. ASSUME NEW t \in Tokens
      PROVE  /\ Amounts(pool.liquidity, "Down")[t] = Curve(pool, t)
             /\ FeesHeld[t] = earned[t] - Paid(claimed, t)
  BY DEF Amounts, AmountA, AmountB, Curve, Reserve, FeesHeld, Paid, Tokens
<1> QED
  BY <1>1, <1>2 DEF Solvent

\* The vaults get at least what the ledgers grow by.
LEMMA SolventFollows ==
    ASSUME TypeOK, TypeOK', Solvent,
           \A t \in Tokens :
              (Curve(pool', t) - Curve(pool, t)) + (earned'[t] - earned[t])
                - (Paid(claimed', t) - Paid(claimed, t))
                + (pool'.protocol_fee[t] - pool.protocol_fee[t])
                + (pool'.partner_fee[t] - pool.partner_fee[t])
              <= vault'[t] - vault[t]
    PROVE  Solvent'
<1>1. ASSUME NEW t \in Tokens
      PROVE  /\ vault'[t] \in Nat /\ Curve(pool', t) \in Nat
             /\ earned'[t] \in Nat /\ Paid(claimed', t) \in Nat
             /\ pool'.protocol_fee[t] \in Nat /\ pool'.partner_fee[t] \in Nat
             /\ Amounts(pool.liquidity, "Down")'[t] = Curve(pool', t)
             /\ FeesHeld'[t] = earned'[t] - Paid(claimed', t)
  <2>1. /\ vault'[t] \in Nat /\ Curve(pool', t) \in Nat
        /\ earned'[t] \in Nat /\ Paid(claimed', t) \in Nat
        /\ pool'.protocol_fee[t] \in Nat /\ pool'.partner_fee[t] \in Nat
    BY CurveIsNat, PaidIsNat DEF TypeOK, Amount, PoolAccount, InItsRange
  <2>2. /\ Amounts(pool.liquidity, "Down")'[t] = Curve(pool', t)
        /\ FeesHeld'[t] = earned'[t] - Paid(claimed', t)
    BY DEF Amounts, AmountA, AmountB, Curve, Reserve, FeesHeld, Paid, Tokens
  <2> QED
    BY <2>1, <2>2
<1>2. ASSUME NEW t \in Tokens
      PROVE  vault'[t] >= Curve(pool', t) + (earned'[t] - Paid(claimed', t))
                            + pool'.protocol_fee[t] + pool'.partner_fee[t]
  <2>1. /\ vault[t] \in Nat /\ Curve(pool, t) \in Nat
        /\ earned[t] \in Nat /\ Paid(claimed, t) \in Nat
        /\ pool.protocol_fee[t] \in Nat /\ pool.partner_fee[t] \in Nat
        /\ vault[t] >= Curve(pool, t) + (earned[t] - Paid(claimed, t))
                         + pool.protocol_fee[t] + pool.partner_fee[t]
    BY SolventIs
  <2>2. /\ vault'[t] \in Nat /\ Curve(pool', t) \in Nat
        /\ earned'[t] \in Nat /\ Paid(claimed', t) \in Nat
        /\ pool'.protocol_fee[t] \in Nat /\ pool'.partner_fee[t] \in Nat
    BY <1>1
  <2>3. (Curve(pool', t) - Curve(pool, t)) + (earned'[t] - earned[t])
                - (Paid(claimed', t) - Paid(claimed, t))
                + (pool'.protocol_fee[t] - pool.protocol_fee[t])
                + (pool'.partner_fee[t] - pool.partner_fee[t])
              <= vault'[t] - vault[t]
    OBVIOUS
  <2> QED
    BY <2>1, <2>2, <2>3
<1> QED
  BY <1>1, <1>2 DEF Solvent

LEMMA SolventStays ==
    ASSUME TypeOK, TypeOK', Solvent, UNCHANGED <<vault, earned, claimed>>,
           pool'.liquidity = pool.liquidity, pool'.sqrt_price = pool.sqrt_price,
           pool'.sqrt_min_price = pool.sqrt_min_price,
           pool'.sqrt_max_price = pool.sqrt_max_price,
           pool'.protocol_fee = pool.protocol_fee, pool'.partner_fee = pool.partner_fee
    PROVE  Solvent'
<1>1. \A t \in Tokens : Curve(pool', t) = Curve(pool, t)
  BY DEF Curve, Reserve
<1> QED
  BY <1>1, SolventIs, SolventFollows

\* Deposits arrive in full, whatever the mints keep.
LEMMA DepositArrives ==
    ASSUME NEW amounts \in Amount
    PROVE  Deposit(amounts) = amounts /\ \A t \in Tokens : CanAsk(t, amounts[t])
<1>1. ASSUME NEW t \in Tokens, NEW n \in Nat
      PROVE  Arriving(t, Asked(t, n)) = n /\ CanAsk(t, n)
  BY PoolAssumption, InverseExact
    DEF InverseNeverFails, Arriving, Asked, CanAsk
<1>2. \A t \in Tokens : amounts[t] \in Nat /\ Arriving(t, Asked(t, amounts[t])) = amounts[t]
  BY <1>1 DEF Amount
<1> QED
  BY <1>1, <1>2 DEF Deposit, Amount

LEMMA AmountsType ==
    ASSUME NEW delta \in Nat, NEW round, TypeOK
    PROVE  Amounts(delta, round) \in Amount
<1>1. /\ pool.sqrt_price \in Nat \ {0}
      /\ pool.sqrt_min_price \in Nat \ {0} /\ pool.sqrt_max_price \in Nat
      /\ pool.sqrt_min_price <= pool.sqrt_price /\ pool.sqrt_price <= pool.sqrt_max_price
  BY DEF TypeOK, PoolAccount
<1> QED
  BY <1>1, DeltaType DEF Amounts, AmountA, AmountB, Amount

-----------------------------------------------------------------------------
(* What a position is or was owed.                                         *)

Share(pos, F, paid, t) == pos.pending[t] + Accrued(pos, F)[t] + paid[t]

\* No fees accrue, and every position keeps what it is or was owed.
SharesKept ==
    /\ pool'.fee_per_liquidity = pool.fee_per_liquidity
    /\ \A x \in Positions, t \in Tokens :
          Share(position'[x], pool.fee_per_liquidity, claimed'[x], t)
            = Share(position[x], pool.fee_per_liquidity, claimed[x], t)

LEMMA SharesStay ==
    ASSUME pool'.fee_per_liquidity = pool.fee_per_liquidity, claimed' = claimed,
           \A x \in Positions :
              /\ position'[x].pending = position[x].pending
              /\ position'[x].checkpoint = position[x].checkpoint
              /\ TotalLiquidity(position'[x]) = TotalLiquidity(position[x])
    PROVE  SharesKept
BY DEF SharesKept, Share, Accrued

LEMMA SharesMove ==
    ASSUME TypeOK, pool'.fee_per_liquidity = pool.fee_per_liquidity,
           NEW p \in Positions, NEW new,
           position' = [position EXCEPT ![p] = new],
           \A x \in Positions \ {p} : claimed'[x] = claimed[x],
           \A t \in Tokens :
              Share(new, pool.fee_per_liquidity, claimed'[p], t)
                = Share(position[p], pool.fee_per_liquidity, claimed[p], t)
    PROVE  SharesKept
<1>1. \A x \in Positions : position'[x] = IF x = p THEN new ELSE position[x]
  BY DEF TypeOK
<1>2. ASSUME NEW x \in Positions, NEW t \in Tokens
      PROVE  Share(position'[x], pool.fee_per_liquidity, claimed'[x], t)
               = Share(position[x], pool.fee_per_liquidity, claimed[x], t)
  <2>1. CASE x = p
    BY <1>1, <2>1
  <2>2. CASE x # p
    <3>1. position'[x] = position[x] /\ claimed'[x] = claimed[x]
      BY <1>1, <2>2
    <3> QED
      BY <3>1
  <2> QED
    BY <2>1, <2>2
<1> QED
  BY <1>2 DEF SharesKept

LEMMA NothingAccrues ==
    ASSUME NEW pos \in PositionAccount, NEW F \in Amount, pos.checkpoint = F,
           NEW t \in Tokens
    PROVE  Accrued(pos, F)[t] = 0
<1>1. TotalLiquidity(pos) * (F[t] - pos.checkpoint[t]) = 0
  <2>1. F[t] - pos.checkpoint[t] = 0 /\ TotalLiquidity(pos) \in Nat
    BY LiquidityIsNat DEF Amount
  <2> QED
    BY <2>1
<1>2. 0 \div LIQUIDITY_UNIT \in Nat /\ (0 \div LIQUIDITY_UNIT) * LIQUIDITY_UNIT <= 0
  BY DivBounds, PoolAssumption
<1>3. 0 \div LIQUIDITY_UNIT = 0
  <2> DEFINE k == 0 \div LIQUIDITY_UNIT
  <2>1. k \in Nat /\ k * LIQUIDITY_UNIT <= 0 * LIQUIDITY_UNIT
    BY <1>2, PoolAssumption
  <2> HIDE DEF k
  <2>2. k <= 0
    BY <2>1, CancelLe, PoolAssumption
  <2> QED
    BY <2>1, <2>2 DEF k
<1> QED
  BY <1>1, <1>3 DEF Accrued

\* Settling moves what was accrued to what is pending; nothing is lost.
LEMMA SettlingKeepsShares ==
    ASSUME NEW pos \in PositionAccount, NEW F \in Amount, NEW paid \in Amount,
           \A t \in Tokens : pos.checkpoint[t] <= F[t], NEW t \in Tokens
    PROVE  Share(pos, F, paid, t) = UpdateFee(pos, F).pending[t] + paid[t]
<1>1. pos.pending \in Amount /\ Accrued(pos, F) \in Amount
  BY AccruedType DEF PositionAccount
<1>2. UpdateFee(pos, F).pending[t] = pos.pending[t] + Accrued(pos, F)[t]
  BY <1>1, SettledType, AmountsAdd
<1> QED
  BY <1>2 DEF Share

LEMMA SettledShare ==
    ASSUME NEW pos \in PositionAccount, NEW new \in PositionAccount,
           NEW F \in Amount, NEW paid \in Amount, NEW after \in Amount,
           \A t \in Tokens : pos.checkpoint[t] <= F[t],
           new.checkpoint = F, NEW t \in Tokens,
           new.pending[t] + after[t] = UpdateFee(pos, F).pending[t] + paid[t]
    PROVE  Share(new, F, after, t) = Share(pos, F, paid, t)
<1>1. Accrued(new, F)[t] = 0
  BY NothingAccrues
<1>2. Share(pos, F, paid, t) = UpdateFee(pos, F).pending[t] + paid[t]
  BY SettlingKeepsShares
<1>3. new.pending[t] \in Nat /\ after[t] \in Nat
  BY DEF PositionAccount, Amount
<1> QED
  BY <1>1, <1>2, <1>3 DEF Share

-----------------------------------------------------------------------------
(* Every step keeps the invariant, and but for trades and splits what each *)
(* position is or was owed: positions come and go.                         *)

LEMMA NewIsAPosition ==
    /\ NewPosition(0) \in PositionAccount
    /\ TotalLiquidity(NewPosition(0)) = 0
BY NoneIsAmount DEF NewPosition, PositionAccount, TotalLiquidity

LEMMA CreateKeeps ==
    ASSUME PoolInv, NEW p \in Positions, CreatePosition(p)
    PROVE  PoolInv' /\ SharesKept
<1> USE DEF PoolInv
<1>1. /\ p \notin open /\ open' = open \cup {p}
      /\ position' = [position EXCEPT ![p] = NewPosition(0)]
      /\ UNCHANGED <<pool, vesting, vault, point, moves, earned, claimed>>
  BY DEF CreatePosition
<1>2. position[p] = NewPosition(0) /\ position \in [Positions -> PositionAccount]
  BY <1>1 DEF LiquidityBacked, TypeOK
<1>3. position' = position
  BY <1>1, <1>2
<1>4. TypeOK'
  BY <1>1, <1>3 DEF TypeOK
<1>5. LiquidityBacked'
  BY <1>1, <1>2, NewIsAPosition, EmptyComesOrGoes
<1>6. VestedBacked'
  <2>1. point' = point /\ point \in Nat
    BY <1>1 DEF TypeOK
  <2> QED
    BY <1>1, <1>3, <2>1, VestedStays
<1>7. FeesBacked'
  BY <1>1, <1>3, <1>4, FeesStayWith
<1>8. Solvent'
  BY <1>1, <1>4, SolventStays
<1>9. SharesKept
  BY <1>1, <1>3, SharesStay
<1> QED
  BY <1>9, <1>4, <1>5, <1>6, <1>7, <1>8

\* A position without vested liquidity has no vesting account.
LEMMA NothingLocked ==
    ASSUME TypeOK, VestedBacked, NEW p \in Positions, position[p].vested = 0
    PROVE  Locks(p) = {}
<1> DEFINE f == [v \in Locks(p) |-> TotalLock(vesting[v]) - vesting[v].released]
<1>1. ASSUME NEW v \in Locks(p)
      PROVE  f[v] \in Nat /\ 0 < f[v]
  <2>1. vesting[v] \in VestingAccount
    BY LocksAreFinite
  <2>2. TotalLock(vesting[v]) \in Nat
    BY <2>1, UnlockedGrows
  <2>3. vesting[v].released \in 0 .. TotalLock(vesting[v]) - 1
    BY DEF VestedBacked
  <2> QED
    BY <2>2, <2>3
<1>2. Total(f, Locks(p)) = 0
  BY DEF VestedBacked
<1> HIDE DEF f
<1>3. ASSUME NEW v \in Locks(p)
      PROVE  FALSE
  <2>1. f[v] <= Total(f, Locks(p))
    BY <1>1, LocksAreFinite, SumTerm
  <2> QED
    BY <1>1, <1>2, <2>1
<1> QED
  BY <1>3

LEMMA CloseKeeps ==
    ASSUME PoolInv, NEW p \in Positions, ClosePosition(p)
    PROVE  PoolInv' /\ SharesKept
<1> USE DEF PoolInv
<1>1. /\ p \in open /\ open' = open \ {p}
      /\ TotalLiquidity(position[p]) = 0 /\ position[p].pending = None
      /\ position' = [position EXCEPT ![p] = NewPosition(0)]
      /\ UNCHANGED <<pool, vesting, vault, point, moves, earned, claimed>>
  BY DEF ClosePosition, IsEmpty
<1>2. position \in [Positions -> PositionAccount] /\ position[p] \in PositionAccount
  BY DEF TypeOK
<1>3. position[p].vested = 0 /\ NewPosition(0).vested = 0
  BY <1>1, <1>2 DEF TotalLiquidity, PositionAccount, NewPosition
<1>4. Locks(p) = {}
  BY <1>3, NothingLocked
<1>5. TypeOK'
  <2>1. position' \in [Positions -> PositionAccount]
    BY <1>1, <1>2, NewIsAPosition
  <2>2. \A v \in VestingAccounts :
          vesting[v] # NoVesting => vesting[v].position \in open \ {p}
    BY <1>4 DEF TypeOK, Locks
  <2> QED
    BY <1>1, <2>1, <2>2 DEF TypeOK
<1>6. LiquidityBacked'
  BY <1>1, EmptyComesOrGoes
<1>7. VestedBacked'
  <2>1. point' = point /\ point \in Nat
    BY <1>1 DEF TypeOK
  <2>2. \A x \in Positions : position'[x].vested = position[x].vested
    BY <1>1, <1>2, <1>3
  <2> QED
    BY <1>1, <2>1, <2>2, VestedStays
<1>8. FeesBacked'
  <2>1. ASSUME NEW t \in Tokens
        PROVE  /\ NewPosition(0).checkpoint[t] <= pool.fee_per_liquidity[t]
               /\ Backing(NewPosition(0), pool.fee_per_liquidity, claimed'[p], t)
                    <= Backing(position[p], pool.fee_per_liquidity, claimed[p], t)
    <3> DEFINE F == pool.fee_per_liquidity[t]
               c == position[p].checkpoint[t]
               x == (0 + claimed[p][t]) * LIQUIDITY_UNIT
    <3>1. F \in Nat /\ c \in Nat /\ claimed[p][t] \in Nat /\ LIQUIDITY_UNIT \in Nat
      BY <1>2, PoolAssumption DEF TypeOK, PoolAccount, PositionAccount, Amount
    <3>2. NewPosition(0).checkpoint[t] = 0 /\ NewPosition(0).pending[t] = 0
      BY DEF NewPosition, None
    <3>3. position[p].pending[t] = 0
      BY <1>1 DEF None
    <3>4. Backing(NewPosition(0), pool.fee_per_liquidity, claimed'[p], t) = x + 0 * (F - 0)
      BY <1>1, <3>2, NewIsAPosition DEF Backing
    <3>5. Backing(position[p], pool.fee_per_liquidity, claimed[p], t) = x + 0 * (F - c)
      BY <1>1, <3>3 DEF Backing
    <3>6. x \in Int
      BY <3>1
    <3> HIDE DEF F, c, x
    <3>7. x + 0 * (F - 0) = x /\ x + 0 * (F - c) = x
      BY <3>1, <3>6
    <3> QED
      BY <3>1, <3>2, <3>4, <3>5, <3>6, <3>7 DEF F
  <2> QED
    BY <1>1, <1>5, <2>1, FeesMove
<1>9. Solvent'
  BY <1>1, <1>5, SolventStays
<1>10. SharesKept
  <2>1. ASSUME NEW t \in Tokens
        PROVE  Share(NewPosition(0), pool.fee_per_liquidity, claimed'[p], t)
                 = Share(position[p], pool.fee_per_liquidity, claimed[p], t)
    <3> DEFINE F == pool.fee_per_liquidity[t]
               c == position[p].checkpoint[t]
    <3>1. F \in Nat /\ c \in Nat
      BY <1>2 DEF TypeOK, PoolAccount, PositionAccount, Amount
    <3>2. NewPosition(0).checkpoint[t] = 0 /\ NewPosition(0).pending = None
      BY DEF NewPosition, None
    <3>3. /\ Accrued(NewPosition(0), pool.fee_per_liquidity)[t]
               = (0 * (F - 0)) \div LIQUIDITY_UNIT
          /\ Accrued(position[p], pool.fee_per_liquidity)[t]
               = (0 * (F - c)) \div LIQUIDITY_UNIT
      BY <1>1, <3>2, NewIsAPosition DEF Accrued
    <3>4. 0 * (F - 0) = 0 * (F - c)
      BY <3>1
    <3> QED
      BY <1>1, <3>2, <3>3, <3>4 DEF Share
  <2> QED
    BY <1>1, <2>1, SharesMove
<1> QED
  BY <1>10, <1>5, <1>6, <1>7, <1>8, <1>9

-----------------------------------------------------------------------------
(* Liquidity comes and goes.                                               *)

\* The position settles, then its unlocked liquidity becomes u.
LEMMA UnlockedType ==
    ASSUME NEW pos \in PositionAccount, NEW u \in Nat, pool.fee_per_liquidity \in Amount,
           \A t \in Tokens : pos.checkpoint[t] <= pool.fee_per_liquidity[t]
    PROVE  LET new == Unlocked(pos, u)
           IN  /\ new \in PositionAccount
               /\ new.unlocked = u /\ new.vested = pos.vested
               /\ new.permanent = pos.permanent
               /\ new.checkpoint = pool.fee_per_liquidity
               /\ new.pending = UpdateFee(pos, pool.fee_per_liquidity).pending
               /\ TotalLiquidity(new) = u + pos.vested + pos.permanent
<1> DEFINE s == UpdateFee(pos, pool.fee_per_liquidity)
           new == Unlocked(pos, u)
<1>1. /\ s \in PositionAccount /\ s.vested = pos.vested /\ s.permanent = pos.permanent
      /\ s.checkpoint = pool.fee_per_liquidity
  BY SettledType
<1>2. new = [s EXCEPT !.unlocked = u]
  BY DEF Unlocked
<1> HIDE DEF s, new
<1>3. /\ new \in PositionAccount
      /\ new.unlocked = u /\ new.vested = pos.vested
      /\ new.permanent = pos.permanent
      /\ new.checkpoint = pool.fee_per_liquidity
      /\ new.pending = s.pending
  BY <1>1, <1>2 DEF PositionAccount
<1>4. TotalLiquidity(new) = u + pos.vested + pos.permanent
  BY <1>3 DEF TotalLiquidity
<1> QED
  BY <1>3, <1>4 DEF s, new

\* What Add and Remove have in common: by `delta', positive or negative, the
\* position's unlocked liquidity and the pool's liquidity change.
LEMMA LiquidityChanges ==
    ASSUME PoolInv, NEW p \in open, NEW delta \in Int,
           position[p].unlocked + delta \in Nat, pool.liquidity + delta \in Nat,
           position' = [position EXCEPT ![p] = Unlocked(@, @.unlocked + delta)],
           pool' = [pool EXCEPT !.liquidity = @ + delta],
           vault' \in Amount, moves' \in Nat,
           UNCHANGED <<open, vesting, point, earned, claimed>>
    PROVE  TypeOK' /\ LiquidityBacked' /\ VestedBacked' /\ FeesBacked' /\ SharesKept
<1> DEFINE pos == position[p]
           new == Unlocked(pos, pos.unlocked + delta)
           F == pool.fee_per_liquidity
<1> USE DEF PoolInv
<1>1. /\ position \in [Positions -> PositionAccount] /\ pool \in PoolAccount
      /\ p \in Positions /\ pos \in PositionAccount /\ F \in Amount
      /\ \A t \in Tokens : pos.checkpoint[t] <= F[t]
  BY DEF TypeOK, PoolAccount, FeesBacked
<1>2. /\ new \in PositionAccount
      /\ new.unlocked = pos.unlocked + delta /\ new.vested = pos.vested
      /\ new.permanent = pos.permanent /\ new.checkpoint = F
      /\ new.pending = UpdateFee(pos, F).pending
      /\ TotalLiquidity(new) = pos.unlocked + delta + pos.vested + pos.permanent
  BY <1>1, UnlockedType
<1>3. position' = [position EXCEPT ![p] = new]
  BY <1>1
<1> HIDE DEF new
<1>4. /\ pool' \in PoolAccount /\ pool'.liquidity = pool.liquidity + delta
      /\ pool'.sqrt_price = pool.sqrt_price
      /\ pool'.sqrt_min_price = pool.sqrt_min_price
      /\ pool'.sqrt_max_price = pool.sqrt_max_price
      /\ pool'.permanent_lock_liquidity = pool.permanent_lock_liquidity
      /\ pool'.fee_per_liquidity = F
  BY <1>1 DEF PoolAccount
<1>5. TypeOK'
  <2>1. position' \in [Positions -> PositionAccount]
    BY <1>1, <1>2, <1>3
  <2> QED
    BY <1>4, <2>1 DEF TypeOK
<1>6. LiquidityBacked'
  <2>1. TotalLiquidity(new) - TotalLiquidity(pos) = delta
    BY <1>1, <1>2 DEF TotalLiquidity, PositionAccount
  <2>2. pool.liquidity + delta = pool.liquidity + (TotalLiquidity(new) - TotalLiquidity(pos))
    BY <2>1
  <2>3. pool.permanent_lock_liquidity =
          pool.permanent_lock_liquidity + (new.permanent - pos.permanent)
    BY <1>1, <1>2 DEF PoolAccount, PositionAccount
  <2> QED
    BY <1>2, <1>3, <1>4, <1>5, <2>2, <2>3, LiquidityMoves
<1>7. VestedBacked'
  <2>1. \A x \in Positions : position'[x].vested = position[x].vested
    BY <1>1, <1>2, <1>3
  <2>2. point' = point /\ point \in Nat
    BY DEF TypeOK
  <2> QED
    BY <2>1, <2>2, VestedStays
<1>8. FeesBacked'
  <2>1. claimed[p] \in Amount /\ claimed' = claimed
    BY <1>1 DEF TypeOK
  <2>2. ASSUME NEW t \in Tokens
        PROVE  /\ new.checkpoint[t] <= F[t]
               /\ Backing(new, F, claimed'[p], t) <= Backing(pos, F, claimed[p], t)
    <3>1. F[t] \in Nat /\ new.pending[t] + claimed[p][t] \in Int
      BY <1>1, <1>2, <2>1 DEF Amount, PositionAccount
    <3>2. new.pending[t] + claimed[p][t] <= UpdateFee(pos, F).pending[t] + claimed[p][t]
      BY <1>2, <3>1
    <3>3. Backing(new, F, claimed[p], t) <= Backing(pos, F, claimed[p], t)
      BY <1>1, <1>2, <2>1, <3>2, SettlingIsBacked
    <3> QED
      BY <1>2, <2>1, <3>1, <3>3
  <2> QED
    BY <1>1, <1>3, <1>4, <1>5, <2>2, FeesMove
<1>9. SharesKept
  <2>1. claimed[p] \in Amount /\ claimed' = claimed
    BY <1>1 DEF TypeOK
  <2>2. ASSUME NEW t \in Tokens
        PROVE  Share(new, F, claimed'[p], t) = Share(pos, F, claimed[p], t)
    <3>1. new.pending[t] + claimed[p][t] = UpdateFee(pos, F).pending[t] + claimed[p][t]
      BY <1>2
    <3> QED
      BY <1>1, <1>2, <2>1, <3>1, SettledShare
  <2> QED
    BY <1>1, <1>3, <1>4, <2>1, <2>2, SharesMove
<1> QED
  BY <1>9, <1>5, <1>6, <1>7, <1>8

LEMMA AddKeeps ==
    ASSUME PoolInv, NEW p \in Positions, NEW delta \in Liquidities, AddLiquidity(p, delta)
    PROVE  PoolInv' /\ SharesKept
<1> DEFINE amounts == Amounts(delta, "Up")
<1> USE DEF PoolInv
<1>1. /\ p \in open /\ vault' = Plus(vault, Deposit(amounts))
      /\ position' = [position EXCEPT ![p] = Unlocked(@, @.unlocked + delta)]
      /\ pool' = [pool EXCEPT !.liquidity = @ + delta]
      /\ moves' = moves + 1
      /\ UNCHANGED <<open, vesting, point, earned, claimed>>
  BY DEF AddLiquidity
<1>2. delta \in Nat
  BY PoolAssumption
<1>3. amounts \in Amount /\ Deposit(amounts) = amounts
  BY <1>2, AmountsType, DepositArrives
<1> HIDE DEF amounts
<1>4. /\ vault \in Amount /\ vault' \in Amount
      /\ \A t \in Tokens : vault'[t] = vault[t] + amounts[t]
  BY <1>1, <1>3, AmountsAdd DEF TypeOK
<1>5. /\ position[p].unlocked \in Nat /\ pool.liquidity \in Nat /\ moves' \in Nat
      /\ pool \in PoolAccount
  BY <1>1 DEF TypeOK, PositionAccount, PoolAccount
<1>6. TypeOK' /\ LiquidityBacked' /\ VestedBacked' /\ FeesBacked' /\ SharesKept
  <2>1. /\ delta \in Int
        /\ position[p].unlocked + delta \in Nat /\ pool.liquidity + delta \in Nat
    BY <1>2, <1>5
  <2>2. vault' \in Amount /\ moves' \in Nat
    BY <1>4, <1>5
  <2> QED
    BY <1>1, <2>1, <2>2, LiquidityChanges
<1>7. Solvent'
  <2>1. ASSUME NEW t \in Tokens
        PROVE  Curve(pool', t) <= Curve(pool, t) + amounts[t]
    <3>1. /\ pool.sqrt_price \in Nat \ {0}
          /\ pool.sqrt_min_price \in Nat \ {0} /\ pool.sqrt_max_price \in Nat
          /\ pool.sqrt_min_price <= pool.sqrt_price
          /\ pool.sqrt_price <= pool.sqrt_max_price
      BY DEF TypeOK, PoolAccount
    <3>2. /\ pool'.liquidity = pool.liquidity + delta
          /\ pool'.sqrt_price = pool.sqrt_price
          /\ pool'.sqrt_min_price = pool.sqrt_min_price
          /\ pool'.sqrt_max_price = pool.sqrt_max_price
      BY <1>1, <1>5 DEF PoolAccount
    <3> QED
      BY <1>2, <1>5, <3>1, <3>2, ReservesAdd
        DEF Curve, Reserve, amounts, Amounts, AmountA, AmountB
  <2>2. /\ pool'.protocol_fee = pool.protocol_fee
        /\ pool'.partner_fee = pool.partner_fee
    BY <1>1, <1>5 DEF PoolAccount
  <2>3. \A t \in Tokens : /\ Curve(pool', t) \in Nat /\ Curve(pool, t) \in Nat
                          /\ amounts[t] \in Nat
    BY <1>3, <1>6, CurveIsNat DEF TypeOK, InItsRange, Amount
  <2>4. \A t \in Tokens : /\ vault[t] \in Nat /\ earned[t] \in Nat
                          /\ Paid(claimed, t) \in Nat
                          /\ pool.protocol_fee[t] \in Nat /\ pool.partner_fee[t] \in Nat
    BY SolventIs
  <2>5. \A t \in Tokens :
           (Curve(pool', t) - Curve(pool, t)) + (earned'[t] - earned[t])
             - (Paid(claimed', t) - Paid(claimed, t))
             + (pool'.protocol_fee[t] - pool.protocol_fee[t])
             + (pool'.partner_fee[t] - pool.partner_fee[t])
           <= vault'[t] - vault[t]
    BY <1>1, <1>4, <2>1, <2>2, <2>3, <2>4
  <2> QED
    BY <1>6, <2>5, SolventFollows
<1> QED
  BY <1>6, <1>7

\* A position's liquidity is part of the pool's.
LEMMA PartOfThePool ==
    ASSUME TypeOK, LiquidityBacked, NEW p \in open
    PROVE  position[p].unlocked \in Nat /\ position[p].unlocked <= pool.liquidity
<1> DEFINE f == [x \in Positions |-> TotalLiquidity(position[x])]
<1>1. p \in Positions /\ position[p] \in PositionAccount
  BY DEF TypeOK
<1>2. \A x \in open : f[x] \in Nat
  BY LiquidityIsNat DEF TypeOK
<1>3. pool.liquidity = Total(f, open)
  BY DEF LiquidityBacked
<1>4. position[p].unlocked \in Nat /\ position[p].unlocked <= f[p]
  BY <1>1 DEF TotalLiquidity, PositionAccount
<1> HIDE DEF f
<1>5. f[p] <= pool.liquidity /\ pool.liquidity \in Nat
  BY <1>2, <1>3, OpenIsFinite, SumTerm, SumNat
<1> QED
  BY <1>2, <1>4, <1>5

LEMMA RemoveKeeps ==
    ASSUME PoolInv, NEW p \in Positions, NEW delta \in Nat, RemoveLiquidity(p, delta)
    PROVE  PoolInv' /\ SharesKept
<1> DEFINE amounts == Amounts(delta, "Down")
<1> USE DEF PoolInv
<1>1. /\ p \in open /\ delta <= position[p].unlocked
      /\ \A t \in Tokens : amounts[t] <= vault[t]
      /\ vault' = Minus(vault, amounts)
      /\ position' = [position EXCEPT ![p] = Unlocked(@, @.unlocked - delta)]
      /\ pool' = [pool EXCEPT !.liquidity = @ - delta]
      /\ UNCHANGED <<open, vesting, point, moves, earned, claimed>>
  BY DEF RemoveLiquidity
<1>2. amounts \in Amount
  BY AmountsType
<1> HIDE DEF amounts
<1>3. /\ vault \in Amount /\ vault' \in Amount
      /\ \A t \in Tokens : vault'[t] = vault[t] - amounts[t]
  BY <1>1, <1>2, AmountsAdd DEF TypeOK
<1>4. /\ pool \in PoolAccount /\ pool.liquidity \in Nat /\ moves' \in Nat
      /\ position \in [Positions -> PositionAccount]
  BY <1>1 DEF TypeOK, PoolAccount
<1>5. pool.liquidity - delta \in Nat /\ position[p].unlocked - delta \in Nat
  BY <1>1, <1>4, PartOfThePool
<1>6. TypeOK' /\ LiquidityBacked' /\ VestedBacked' /\ FeesBacked' /\ SharesKept
  <2> DEFINE less == -delta
  <2>1. /\ less \in Int
        /\ position[p].unlocked + less = position[p].unlocked - delta
        /\ pool.liquidity + less = pool.liquidity - delta
    BY <1>1, <1>4, PartOfThePool
  <2> HIDE DEF less
  <2>2. position' = [position EXCEPT ![p] = Unlocked(@, @.unlocked + less)]
    BY <1>1, <1>4, <2>1
  <2>3. pool' = [pool EXCEPT !.liquidity = @ + less]
    BY <1>1, <1>4, <2>1 DEF PoolAccount
  <2> QED
    BY <1>1, <1>3, <1>4, <1>5, <2>1, <2>2, <2>3, LiquidityChanges
<1>7. Solvent'
  <2>1. ASSUME NEW t \in Tokens
        PROVE  Curve(pool', t) + amounts[t] <= Curve(pool, t)
    <3>1. /\ pool.sqrt_price \in Nat \ {0}
          /\ pool.sqrt_min_price \in Nat \ {0} /\ pool.sqrt_max_price \in Nat
          /\ pool.sqrt_min_price <= pool.sqrt_price
          /\ pool.sqrt_price <= pool.sqrt_max_price
      BY DEF TypeOK, PoolAccount
    <3>2. /\ pool'.liquidity = pool.liquidity - delta
          /\ pool'.sqrt_price = pool.sqrt_price
          /\ pool'.sqrt_min_price = pool.sqrt_min_price
          /\ pool'.sqrt_max_price = pool.sqrt_max_price
      BY <1>1, <1>4 DEF PoolAccount
    <3>3. pool'.liquidity \in Nat /\ pool.liquidity = pool'.liquidity + delta
      BY <1>4, <1>5, <3>2
    <3> QED
      BY <3>1, <3>2, <3>3, ReservesAdd
        DEF Curve, Reserve, amounts, Amounts, AmountA, AmountB
  <2>2. /\ pool'.protocol_fee = pool.protocol_fee
        /\ pool'.partner_fee = pool.partner_fee
    BY <1>1, <1>4 DEF PoolAccount
  <2>3. \A t \in Tokens : /\ Curve(pool', t) \in Nat /\ Curve(pool, t) \in Nat
                          /\ amounts[t] \in Nat
    BY <1>2, <1>6, CurveIsNat DEF TypeOK, InItsRange, Amount
  <2>4. \A t \in Tokens : /\ vault[t] \in Nat /\ earned[t] \in Nat
                          /\ Paid(claimed, t) \in Nat
                          /\ pool.protocol_fee[t] \in Nat /\ pool.partner_fee[t] \in Nat
    BY SolventIs
  <2>5. \A t \in Tokens :
           (Curve(pool', t) - Curve(pool, t)) + (earned'[t] - earned[t])
             - (Paid(claimed', t) - Paid(claimed, t))
             + (pool'.protocol_fee[t] - pool.protocol_fee[t])
             + (pool'.partner_fee[t] - pool.partner_fee[t])
           <= vault'[t] - vault[t]
    BY <1>1, <1>3, <2>1, <2>2, <2>3, <2>4
  <2> QED
    BY <1>6, <2>5, SolventFollows
<1> QED
  BY <1>6, <1>7

-----------------------------------------------------------------------------
(* Locks, vestings and splits.                                             *)

LEMMA PermanentLockKeeps ==
    ASSUME PoolInv, NEW p \in Positions, NEW amount \in Liquidities,
           PermanentLockPosition(p, amount)
    PROVE  PoolInv' /\ SharesKept
<1> DEFINE pos == position[p]
           new == [pos EXCEPT !.unlocked = @ - amount, !.permanent = @ + amount]
<1> USE DEF PoolInv
<1>1. /\ p \in open /\ amount <= pos.unlocked
      /\ position' = [position EXCEPT ![p].unlocked = @ - amount,
                                      ![p].permanent = @ + amount]
      /\ pool' = [pool EXCEPT !.permanent_lock_liquidity = @ + amount]
      /\ UNCHANGED <<open, vesting, vault, point, moves, earned, claimed>>
  BY DEF PermanentLockPosition
<1>2. /\ amount \in Nat /\ position \in [Positions -> PositionAccount]
      /\ pos \in PositionAccount /\ pool \in PoolAccount
  BY PoolAssumption DEF TypeOK
<1>3. position' = [position EXCEPT ![p] = new]
  BY <1>1, <1>2
<1>4. /\ new \in PositionAccount
      /\ new.unlocked = pos.unlocked - amount /\ new.permanent = pos.permanent + amount
      /\ new.vested = pos.vested /\ new.pending = pos.pending
      /\ new.checkpoint = pos.checkpoint
  <2>1. pos.unlocked - amount \in Nat /\ pos.permanent + amount \in Nat
    BY <1>1, <1>2 DEF PositionAccount
  <2> HIDE DEF pos
  <2> QED
    BY <1>2, <2>1 DEF PositionAccount
<1> HIDE DEF new
<1>5. /\ TotalLiquidity(new) = TotalLiquidity(pos) /\ TotalLiquidity(pos) \in Nat
      /\ new.permanent - pos.permanent = amount
  BY <1>2, <1>4, LiquidityIsNat DEF TotalLiquidity, PositionAccount
<1>6. /\ pool' \in PoolAccount /\ pool'.liquidity = pool.liquidity
      /\ pool'.permanent_lock_liquidity = pool.permanent_lock_liquidity + amount
      /\ pool'.sqrt_price = pool.sqrt_price
      /\ pool'.sqrt_min_price = pool.sqrt_min_price
      /\ pool'.sqrt_max_price = pool.sqrt_max_price
      /\ pool'.fee_per_liquidity = pool.fee_per_liquidity
      /\ pool'.protocol_fee = pool.protocol_fee
      /\ pool'.partner_fee = pool.partner_fee
  BY <1>1, <1>2 DEF PoolAccount
<1>7. TypeOK'
  <2>1. position' \in [Positions -> PositionAccount]
    BY <1>2, <1>3, <1>4
  <2> QED
    BY <1>1, <1>6, <2>1 DEF TypeOK
<1>8. LiquidityBacked'
  <2>1. pool.liquidity = pool.liquidity + (TotalLiquidity(new) - TotalLiquidity(pos))
    BY <1>2, <1>5 DEF PoolAccount
  <2> QED
    BY <1>1, <1>3, <1>4, <1>5, <1>6, <1>7, <2>1, LiquidityMoves
<1>9. \A x \in Positions :
        /\ position'[x].pending = position[x].pending
        /\ position'[x].checkpoint = position[x].checkpoint
        /\ position'[x].vested = position[x].vested
        /\ TotalLiquidity(position'[x]) = TotalLiquidity(position[x])
  BY <1>2, <1>3, <1>4, <1>5
<1>10. VestedBacked'
  <2>1. point' \in Nat /\ point <= point' /\ UNCHANGED vesting
    BY <1>1 DEF TypeOK
  <2>2. \A x \in Positions : position'[x].vested = position[x].vested
    BY <1>9
  <2> QED
    BY <2>1, <2>2, VestedStays
<1>11. FeesBacked'
  BY <1>1, <1>6, <1>7, <1>9, FeesStayWith
<1>12. Solvent'
  BY <1>1, <1>6, <1>7, SolventStays
<1>13. SharesKept
  BY <1>1, <1>6, <1>9, SharesStay
<1> QED
  BY <1>13, <1>7, <1>8, <1>10, <1>11, <1>12

\* Liquidity moves between the unlocked and the vested part of a position;
\* what the vesting accounts do is up to the two actions.
LEMMA VestingMoves ==
    ASSUME PoolInv, NEW p \in open, NEW k \in Int, NEW v \in VestingAccounts, NEW new,
           position[p].unlocked - k \in Nat, position[p].vested + k \in Nat,
           position' = [position EXCEPT ![p].unlocked = @ - k, ![p].vested = @ + k],
           vesting' = [vesting EXCEPT ![v] = new],
           new \in VestingAccount \cup {NoVesting},
           vesting[v] # NoVesting => vesting[v].position = p,
           new # NoVesting => /\ new.position = p
                              /\ new.released \in 0 .. TotalLock(new) - 1
                              /\ new.released <= MaxUnlocked(new, point),
           k = Held(v)' - Held(v),
           UNCHANGED <<pool, open, vault, point, moves, earned, claimed>>
    PROVE  PoolInv' /\ SharesKept
<1> DEFINE pos == position[p]
           next == [pos EXCEPT !.unlocked = @ - k, !.vested = @ + k]
<1> USE DEF PoolInv
<1>1. /\ position \in [Positions -> PositionAccount] /\ pos \in PositionAccount
      /\ p \in Positions
  BY DEF TypeOK
<1>2. position' = [position EXCEPT ![p] = next]
  BY <1>1
<1>3. /\ next \in PositionAccount
      /\ next.unlocked = pos.unlocked - k /\ next.vested = pos.vested + k
      /\ next.permanent = pos.permanent /\ next.pending = pos.pending
      /\ next.checkpoint = pos.checkpoint
  <2>1. pos.unlocked - k \in Nat /\ pos.vested + k \in Nat
    OBVIOUS
  <2> HIDE DEF pos
  <2> QED
    BY <1>1, <2>1 DEF PositionAccount
<1> HIDE DEF next
<1>4. TotalLiquidity(next) = TotalLiquidity(pos) /\ TotalLiquidity(pos) \in Nat
  BY <1>1, <1>3, LiquidityIsNat DEF TotalLiquidity, PositionAccount
<1>5. \A x \in Positions :
        /\ position'[x].pending = position[x].pending
        /\ position'[x].checkpoint = position[x].checkpoint
        /\ TotalLiquidity(position'[x]) = TotalLiquidity(position[x])
  BY <1>1, <1>2, <1>3, <1>4
<1>6. TypeOK'
  <2>1. position' \in [Positions -> PositionAccount]
    BY <1>1, <1>2, <1>3
  <2>2. vesting' \in [VestingAccounts -> VestingAccount \cup {NoVesting}]
    BY DEF TypeOK
  <2>3. \A x \in VestingAccounts :
          vesting'[x] # NoVesting => vesting'[x].position \in open
    BY DEF TypeOK
  <2> QED
    BY <2>1, <2>2, <2>3 DEF TypeOK
<1>7. LiquidityBacked'
  <2>1. /\ pool.liquidity = pool.liquidity + (TotalLiquidity(next) - TotalLiquidity(pos))
        /\ pool.permanent_lock_liquidity =
             pool.permanent_lock_liquidity + (next.permanent - pos.permanent)
    BY <1>1, <1>3, <1>4 DEF TypeOK, PoolAccount, PositionAccount
  <2> QED
    BY <1>2, <1>3, <1>6, <2>1, LiquidityMoves
<1>8. VestedBacked'
  <2>1. position'[p].vested = position[p].vested + (Held(v)' - Held(v))
    BY <1>1, <1>2, <1>3
  <2>2. \A x \in Positions \ {p} : position'[x].vested = position[x].vested
    BY <1>1, <1>2
  <2>3. UNCHANGED point
    OBVIOUS
  <2> QED
    BY <1>1, <1>6, <2>1, <2>2, <2>3, VestedMoves
<1>9. FeesBacked'
  <2>1. earned' = earned /\ claimed' = claimed /\ pool' = pool
    OBVIOUS
  <2> QED
    BY <1>5, <1>6, <2>1, FeesStayWith
<1>10. Solvent'
  BY <1>6, SolventStays
<1>11. SharesKept
  <2>1. claimed' = claimed /\ pool' = pool
    OBVIOUS
  <2> QED
    BY <1>5, <2>1, SharesStay
<1> QED
  BY <1>11, <1>6, <1>7, <1>8, <1>9, <1>10

LEMMA LockKeeps ==
    ASSUME PoolInv, NEW p \in Positions, NEW v \in VestingAccounts,
           NEW s \in VestingSchedules, LockPosition(p, v, s)
    PROVE  PoolInv' /\ SharesKept
<1> DEFINE cliff == IF s.cliff = {} THEN point ELSE point + CHOOSE c \in s.cliff : TRUE
           new == [position |-> p, cliff |-> cliff, frequency |-> s.frequency,
                   cliff_unlock |-> s.cliff_unlock, per_period |-> s.per_period,
                   periods |-> s.periods, released |-> 0]
           k == TotalLock(s)
<1> USE DEF PoolInv
<1>1. /\ p \in open /\ vesting[v] = NoVesting
      /\ ValidSchedule(s, cliff, point)
      /\ k <= position[p].unlocked
      /\ vesting' = [vesting EXCEPT ![v] = new]
      /\ position' = [position EXCEPT ![p].unlocked = @ - k, ![p].vested = @ + k]
      /\ UNCHANGED <<pool, open, vault, point, moves, earned, claimed>>
  BY DEF LockPosition
<1>2. /\ s.cliff \in SUBSET Nat /\ s.frequency \in Nat /\ s.cliff_unlock \in Nat
      /\ s.per_period \in Nat /\ s.periods \in Nat
  BY PoolAssumption
<1>3. cliff \in Nat
  <2>1. point \in Nat
    BY DEF TypeOK
  <2>2. s.cliff # {} => (CHOOSE c \in s.cliff : TRUE) \in s.cliff
    OBVIOUS
  <2> QED
    BY <1>2, <2>1, <2>2
<1> HIDE DEF cliff
<1>4. /\ new \in VestingAccount /\ new # NoVesting
      /\ new.position = p /\ new.released = 0
  BY <1>2, <1>3, PoolAssumption DEF VestingAccount
<1>5. TotalLock(new) = k /\ k \in Nat /\ k > 0
  <2>1. TotalLock(new) = k
    BY DEF TotalLock
  <2>2. TotalLock(new) \in Nat
    BY <1>4, UnlockedGrows
  <2> QED
    BY <1>1, <2>1, <2>2 DEF ValidSchedule
<1>6. vesting'[v] = new
  BY <1>1 DEF TypeOK
<1>7. 0 <= MaxUnlocked(new, point)
  BY <1>4, UnlockedGrows DEF TypeOK
<1> HIDE DEF new
<1>8. Held(v)' = k /\ Held(v) = 0
  <2>1. Held(v)' = TotalLock(new) - new.released
    BY <1>4, <1>6 DEF Held, Holds
  <2> QED
    BY <1>1, <1>4, <1>5, <2>1 DEF Held
<1> HIDE DEF k
<1>9. position[p].unlocked - k \in Nat /\ position[p].vested + k \in Nat
  BY <1>1, <1>5 DEF TypeOK, PositionAccount
<1>10. k \in Int /\ k = Held(v)' - Held(v)
  BY <1>5, <1>8
<1>11. new.released \in 0 .. TotalLock(new) - 1
  BY <1>4, <1>5
<1> QED
  BY <1>1, <1>4, <1>7, <1>9, <1>10, <1>11, VestingMoves

LEMMA RefreshKeeps ==
    ASSUME PoolInv, NEW v \in VestingAccounts, RefreshVesting(v)
    PROVE  PoolInv' /\ SharesKept
<1> DEFINE account == vesting[v]
           p == account.position
           released == MaxUnlocked(account, point) - account.released
           after == [account EXCEPT !.released = @ + released]
           new == IF after.released = TotalLock(after) THEN NoVesting ELSE after
           k == -released
<1> USE DEF PoolInv
<1>1. /\ account # NoVesting /\ p \in open
      /\ released <= position[p].vested
      /\ position' = [position EXCEPT ![p].vested = @ - released,
                                      ![p].unlocked = @ + released]
      /\ vesting' = [vesting EXCEPT ![v] = new]
      /\ UNCHANGED <<pool, open, vault, point, moves, earned, claimed>>
  BY DEF RefreshVesting
<1>2. account \in VestingAccount /\ point \in Nat /\ p \in Positions
  BY <1>1 DEF TypeOK, VestingAccount
<1>3. /\ MaxUnlocked(account, point) \in Nat /\ TotalLock(account) \in Nat
      /\ MaxUnlocked(account, point) <= TotalLock(account)
  BY <1>2, UnlockedGrows
<1>4. /\ account.released \in Nat /\ account.released <= MaxUnlocked(account, point)
  <2>1. v \in Locks(p)
    BY <1>1 DEF Locks
  <2> QED
    BY <1>2, <2>1 DEF VestedBacked, VestingAccount
<1>5. released \in Nat /\ account.released + released = MaxUnlocked(account, point)
  BY <1>3, <1>4
<1>6. /\ after \in VestingAccount /\ after.position = p
      /\ after.released = MaxUnlocked(account, point)
      /\ TotalLock(after) = TotalLock(account)
      /\ MaxUnlocked(after, point) = MaxUnlocked(account, point)
  <2>1. after = [account EXCEPT !.released = MaxUnlocked(account, point)]
    BY <1>5
  <2> HIDE DEF after, account
  <2>2. /\ after \in VestingAccount /\ after.position = account.position
        /\ after.released = MaxUnlocked(account, point)
        /\ after.cliff = account.cliff /\ after.frequency = account.frequency
        /\ after.cliff_unlock = account.cliff_unlock
        /\ after.per_period = account.per_period /\ after.periods = account.periods
    BY <1>2, <1>3, <2>1 DEF VestingAccount
  <2> QED
    BY <2>2 DEF TotalLock, MaxUnlocked
<1>7. vesting'[v] = new
  BY <1>1 DEF TypeOK
<1>8. after # NoVesting
  BY <1>6, PoolAssumption
<1> HIDE DEF after, account
<1>9. Held(v) = TotalLock(account) - account.released
  BY <1>1 DEF Held, Holds, account
<1>10. Held(v)' = TotalLock(account) - MaxUnlocked(account, point)
  <2>1. CASE after.released = TotalLock(after)
    BY <1>3, <1>6, <1>7, <2>1 DEF Held
  <2>2. CASE after.released # TotalLock(after)
    BY <1>6, <1>7, <1>8, <2>2 DEF Held, Holds
  <2> QED
    BY <2>1, <2>2
<1>11. k \in Int /\ k = Held(v)' - Held(v)
  BY <1>3, <1>4, <1>5, <1>9, <1>10
<1>12. /\ new \in VestingAccount \cup {NoVesting}
       /\ new # NoVesting => /\ new.position = p
                             /\ new.released \in 0 .. TotalLock(new) - 1
                             /\ new.released <= MaxUnlocked(new, point)
  BY <1>3, <1>6
<1>13. /\ position[p].unlocked \in Nat /\ position[p].vested \in Nat
       /\ position \in [Positions -> PositionAccount]
  BY <1>2 DEF TypeOK, PositionAccount
<1> HIDE DEF new, p
<1>14. /\ position[p].unlocked - k \in Nat /\ position[p].vested + k \in Nat
       /\ position[p].unlocked - k = position[p].unlocked + released
       /\ position[p].vested + k = position[p].vested - released
  BY <1>1, <1>5, <1>13
<1>15. position' = [position EXCEPT ![p].unlocked = @ - k, ![p].vested = @ + k]
  BY <1>1, <1>2, <1>13, <1>14 DEF PositionAccount
<1>16. vesting[v].position = p
  BY DEF p, account
<1> HIDE DEF k, released
<1> QED
  BY <1>1, <1>11, <1>12, <1>14, <1>15, <1>16, VestingMoves

LEMMA SplitKeeps ==
    ASSUME PoolInv, NEW first \in Positions, NEW second \in Positions,
           NEW n \in SplitNumerators, SplitPosition(first, second, n)
    PROVE  /\ PoolInv'
           /\ UNCHANGED <<pool, claimed>> /\ first # second
           /\ \A x \in Positions \ {first, second} : position'[x] = position[x]
           /\ \A t \in Tokens :
                Share(position'[first], pool.fee_per_liquidity, claimed[first], t)
                  + Share(position'[second], pool.fee_per_liquidity, claimed[second], t)
                = Share(position[first], pool.fee_per_liquidity, claimed[first], t)
                  + Share(position[second], pool.fee_per_liquidity, claimed[second], t)
<1> DEFINE F == pool.fee_per_liquidity
           from == UpdateFee(position[first], F)
           to   == UpdateFee(position[second], F)
           u == ByNumerator(from.unlocked, n.unlocked)
           m == ByNumerator(from.permanent, n.permanent)
           f == [t \in Tokens |-> ByNumerator(from.pending[t], n.fee)]
           giver == [from EXCEPT !.unlocked = @ - u, !.permanent = @ - m,
                                 !.pending = Minus(@, f)]
           taker == [to EXCEPT !.unlocked = @ + u, !.permanent = @ + m,
                               !.pending = Plus(@, f)]
<1> USE DEF PoolInv
<1>1. /\ first \in open /\ second \in open /\ first # second
      /\ position' = [position EXCEPT ![first] = giver, ![second] = taker]
      /\ moves' = moves + 1
      /\ UNCHANGED <<pool, open, vesting, vault, point, earned, claimed>>
  BY DEF SplitPosition
<1>2. /\ position \in [Positions -> PositionAccount] /\ F \in Amount
      /\ position[first] \in PositionAccount /\ position[second] \in PositionAccount
      /\ \A t \in Tokens : position[first].checkpoint[t] <= F[t]
      /\ \A t \in Tokens : position[second].checkpoint[t] <= F[t]
  BY DEF TypeOK, PoolAccount, FeesBacked
<1>3. /\ from \in PositionAccount /\ from.unlocked = position[first].unlocked
      /\ from.vested = position[first].vested
      /\ from.permanent = position[first].permanent /\ from.checkpoint = F
  BY <1>2, SettledType
<1>4. /\ to \in PositionAccount /\ to.unlocked = position[second].unlocked
      /\ to.vested = position[second].vested
      /\ to.permanent = position[second].permanent /\ to.checkpoint = F
  BY <1>2, SettledType
<1> HIDE DEF from, to
<1>5. ASSUME NEW x \in Nat, NEW i \in 0 .. SPLIT_DENOMINATOR
      PROVE  ByNumerator(x, i) \in 0 .. x
  BY PoolAssumption, PartOf DEF ByNumerator
<1>6. /\ n.unlocked \in 0 .. SPLIT_DENOMINATOR
      /\ n.permanent \in 0 .. SPLIT_DENOMINATOR /\ n.fee \in 0 .. SPLIT_DENOMINATOR
  BY PoolAssumption
<1>7. u \in 0 .. from.unlocked /\ m \in 0 .. from.permanent
  <2>1. from.unlocked \in Nat /\ from.permanent \in Nat
    BY <1>3 DEF PositionAccount
  <2> QED
    BY <1>5, <1>6, <2>1
<1>8. f \in Amount /\ \A t \in Tokens : f[t] <= from.pending[t]
  <2>1. \A t \in Tokens : from.pending[t] \in Nat
    BY <1>3 DEF PositionAccount, Amount
  <2>2. ASSUME NEW t \in Tokens PROVE f[t] \in 0 .. from.pending[t]
    BY <1>5, <1>6, <2>1
  <2>3. f = [t \in Tokens |-> f[t]]
    OBVIOUS
  <2> HIDE DEF f
  <2>4. \A t \in Tokens : f[t] \in Nat /\ f[t] <= from.pending[t]
    BY <2>1, <2>2
  <2> QED
    BY <2>3, <2>4 DEF Amount
<1> HIDE DEF u, m, f
<1>9. /\ Minus(from.pending, f) \in Amount /\ Plus(to.pending, f) \in Amount
      /\ \A t \in Tokens : /\ Minus(from.pending, f)[t] = from.pending[t] - f[t]
                           /\ Plus(to.pending, f)[t] = to.pending[t] + f[t]
  <2>1. from.pending \in Amount /\ to.pending \in Amount
    BY <1>3, <1>4 DEF PositionAccount
  <2> QED
    BY <1>8, <2>1, AmountsAdd
<1>10. /\ giver \in PositionAccount /\ giver.unlocked = from.unlocked - u
       /\ giver.permanent = from.permanent - m /\ giver.vested = from.vested
       /\ giver.checkpoint = F /\ giver.pending = Minus(from.pending, f)
  <2>1. from.unlocked - u \in Nat /\ from.permanent - m \in Nat
    BY <1>3, <1>7 DEF PositionAccount
  <2> QED
    BY <1>3, <1>9, <2>1 DEF PositionAccount
<1>11. /\ taker \in PositionAccount /\ taker.unlocked = to.unlocked + u
       /\ taker.permanent = to.permanent + m /\ taker.vested = to.vested
       /\ taker.checkpoint = F /\ taker.pending = Plus(to.pending, f)
  <2>1. to.unlocked + u \in Nat /\ to.permanent + m \in Nat
    BY <1>3, <1>4, <1>7 DEF PositionAccount
  <2> QED
    BY <1>4, <1>9, <2>1 DEF PositionAccount
<1> HIDE DEF giver, taker
<1>12. TypeOK'
  <2>1. position' \in [Positions -> PositionAccount]
    BY <1>1, <1>2, <1>10, <1>11
  <2>2. moves' \in Nat
    BY <1>1 DEF TypeOK
  <2> QED
    BY <1>1, <2>1, <2>2 DEF TypeOK
<1>13. LiquidityBacked'
  <2>1. TotalLiquidity(giver) + TotalLiquidity(taker)
          = TotalLiquidity(position[first]) + TotalLiquidity(position[second])
    BY <1>2, <1>3, <1>4, <1>7, <1>10, <1>11 DEF TotalLiquidity, PositionAccount
  <2>2. giver.permanent + taker.permanent
          = position[first].permanent + position[second].permanent
    BY <1>2, <1>3, <1>4, <1>7, <1>10, <1>11 DEF PositionAccount
  <2> QED
    BY <1>1, <1>10, <1>11, <1>12, <2>1, <2>2, LiquiditySplits
<1>14. VestedBacked'
  <2>1. point' \in Nat /\ point <= point' /\ UNCHANGED vesting
    BY <1>1 DEF TypeOK
  <2>2. \A x \in Positions : position'[x].vested = position[x].vested
    BY <1>1, <1>2, <1>3, <1>4, <1>10, <1>11
  <2> QED
    BY <2>1, <2>2, VestedStays
<1>15. ASSUME NEW t \in Tokens
       PROVE  giver.pending[t] + taker.pending[t] = from.pending[t] + to.pending[t]
  <2>1. f[t] \in Nat /\ from.pending[t] \in Nat /\ to.pending[t] \in Nat
    BY <1>3, <1>4, <1>8 DEF PositionAccount, Amount
  <2> QED
    BY <1>9, <1>10, <1>11, <2>1
<1>16. FeesBacked'
  BY <1>1, <1>10, <1>11, <1>12, <1>15, FeesSplit DEF from, to
<1>17. Solvent'
  BY <1>1, <1>12, SolventStays
<1>18. ASSUME NEW t \in Tokens
       PROVE  Share(giver, F, claimed[first], t) + Share(taker, F, claimed[second], t)
                = Share(position[first], F, claimed[first], t)
                    + Share(position[second], F, claimed[second], t)
  <2>1. claimed[first] \in Amount /\ claimed[second] \in Amount
    BY DEF TypeOK
  <2>2. Accrued(giver, F)[t] = 0 /\ Accrued(taker, F)[t] = 0
    BY <1>2, <1>10, <1>11, NothingAccrues
  <2>3. Share(position[first], F, claimed[first], t)
          = from.pending[t] + claimed[first][t]
    BY <1>2, <2>1, SettlingKeepsShares DEF from
  <2>4. Share(position[second], F, claimed[second], t)
          = to.pending[t] + claimed[second][t]
    BY <1>2, <2>1, SettlingKeepsShares DEF to
  <2>5. /\ claimed[first][t] \in Nat /\ claimed[second][t] \in Nat
        /\ giver.pending[t] \in Nat /\ taker.pending[t] \in Nat
        /\ from.pending[t] \in Nat /\ to.pending[t] \in Nat
    BY <1>3, <1>4, <1>10, <1>11, <2>1 DEF PositionAccount, Amount
  <2> QED
    BY <1>15, <2>2, <2>3, <2>4, <2>5 DEF Share
<1>19. /\ position'[first] = giver /\ position'[second] = taker
       /\ \A x \in Positions \ {first, second} : position'[x] = position[x]
  BY <1>1, <1>2
<1> QED
  BY <1>1, <1>12, <1>13, <1>14, <1>16, <1>17, <1>18, <1>19

-----------------------------------------------------------------------------
(* Claims.                                                                 *)

LEMMA ClaimFeeKeeps ==
    ASSUME PoolInv, NEW p \in Positions, ClaimPositionFee(p)
    PROVE  PoolInv' /\ SharesKept
<1> DEFINE F == pool.fee_per_liquidity
           pos == position[p]
           settled == UpdateFee(pos, F)
           new == [settled EXCEPT !.pending = None]
<1> USE DEF PoolInv
<1>1. /\ p \in open
      /\ \A t \in Tokens : settled.pending[t] <= vault[t]
      /\ vault' = Minus(vault, settled.pending)
      /\ claimed' = [claimed EXCEPT ![p] = Plus(@, settled.pending)]
      /\ position' = [position EXCEPT ![p] = new]
      /\ UNCHANGED <<pool, open, vesting, point, moves, earned>>
  BY DEF ClaimPositionFee
<1>2. /\ position \in [Positions -> PositionAccount] /\ F \in Amount
      /\ pos \in PositionAccount /\ vault \in Amount
      /\ claimed \in [Positions -> Amount] /\ claimed[p] \in Amount
      /\ \A t \in Tokens : pos.checkpoint[t] <= F[t]
  BY DEF TypeOK, PoolAccount, FeesBacked
<1>3. /\ settled \in PositionAccount /\ settled.unlocked = pos.unlocked
      /\ settled.vested = pos.vested /\ settled.permanent = pos.permanent
      /\ settled.checkpoint = F /\ settled.pending \in Amount
  BY <1>2, SettledType DEF PositionAccount
<1> HIDE DEF settled
<1>4. /\ new \in PositionAccount /\ new.unlocked = pos.unlocked
      /\ new.vested = pos.vested /\ new.permanent = pos.permanent
      /\ new.checkpoint = F /\ new.pending = None
  BY <1>3, NoneIsAmount DEF PositionAccount
<1> HIDE DEF new
<1>5. /\ vault' \in Amount
      /\ \A t \in Tokens : vault'[t] = vault[t] - settled.pending[t]
  BY <1>1, <1>2, <1>3, AmountsAdd
<1>6. /\ claimed' \in [Positions -> Amount]
      /\ claimed'[p] \in Amount
      /\ \A t \in Tokens : claimed'[p][t] = claimed[p][t] + settled.pending[t]
      /\ \A x \in Positions \ {p} : claimed'[x] = claimed[x]
  BY <1>1, <1>2, <1>3, AmountsAdd
<1>7. TypeOK'
  <2>1. position' \in [Positions -> PositionAccount]
    BY <1>1, <1>2, <1>4
  <2> QED
    BY <1>1, <1>5, <1>6, <2>1 DEF TypeOK
<1>8. LiquidityBacked'
  <2>1. TotalLiquidity(new) = TotalLiquidity(pos) /\ TotalLiquidity(pos) \in Nat
    BY <1>2, <1>4, LiquidityIsNat DEF TotalLiquidity
  <2>2. /\ pool.liquidity = pool.liquidity + (TotalLiquidity(new) - TotalLiquidity(pos))
        /\ pool.permanent_lock_liquidity =
             pool.permanent_lock_liquidity + (new.permanent - pos.permanent)
    BY <1>2, <1>4, <2>1 DEF TypeOK, PoolAccount, PositionAccount
  <2> QED
    BY <1>1, <1>4, <1>7, <2>2, LiquidityMoves
<1>9. VestedBacked'
  <2>1. point' \in Nat /\ point <= point' /\ UNCHANGED vesting
    BY <1>1 DEF TypeOK
  <2>2. \A x \in Positions : position'[x].vested = position[x].vested
    BY <1>1, <1>2, <1>4
  <2> QED
    BY <2>1, <2>2, VestedStays
<1>10. FeesBacked'
  <2>1. ASSUME NEW t \in Tokens
        PROVE  /\ new.checkpoint[t] <= F[t]
               /\ Backing(new, F, claimed'[p], t) <= Backing(pos, F, claimed[p], t)
    <3>1. /\ F[t] \in Nat /\ new.pending[t] = 0
          /\ claimed[p][t] \in Nat /\ settled.pending[t] \in Nat
      BY <1>2, <1>3, <1>4 DEF Amount, None
    <3>2. new.pending[t] + claimed'[p][t] <= settled.pending[t] + claimed[p][t]
      BY <1>6, <3>1
    <3>3. Backing(new, F, claimed'[p], t) <= Backing(pos, F, claimed[p], t)
      BY <1>2, <1>4, <1>6, <3>2, SettlingIsBacked DEF settled
    <3> QED
      BY <1>4, <3>1, <3>3
  <2> QED
    BY <1>1, <1>6, <1>7, <2>1, FeesMove
<1>11. Solvent'
  <2>1. ASSUME NEW t \in Tokens
        PROVE  Paid(claimed', t) = Paid(claimed, t) + settled.pending[t]
    BY <1>1, <1>2, <1>3, PaidGrows
  <2>2. \A t \in Tokens : /\ vault[t] \in Nat /\ earned[t] \in Nat
                          /\ Curve(pool, t) \in Nat /\ Paid(claimed, t) \in Nat
                          /\ pool.protocol_fee[t] \in Nat /\ pool.partner_fee[t] \in Nat
                          /\ settled.pending[t] \in Nat
    BY <1>3, SolventIs DEF Amount
  <2>3. ASSUME NEW t \in Tokens
        PROVE  (Curve(pool', t) - Curve(pool, t)) + (earned'[t] - earned[t])
                 - (Paid(claimed', t) - Paid(claimed, t))
                 + (pool'.protocol_fee[t] - pool.protocol_fee[t])
                 + (pool'.partner_fee[t] - pool.partner_fee[t])
               <= vault'[t] - vault[t]
    <3>1. pool' = pool /\ earned' = earned
      BY <1>1
    <3>2. vault'[t] = vault[t] - settled.pending[t]
      BY <1>5
    <3> QED
      BY <2>1, <2>2, <3>1, <3>2
  <2> QED
    BY <1>7, <2>3, SolventFollows
<1>12. SharesKept
  <2>1. ASSUME NEW t \in Tokens
        PROVE  Share(new, F, claimed'[p], t) = Share(pos, F, claimed[p], t)
    <3>1. /\ new.pending[t] = 0
          /\ claimed[p][t] \in Nat /\ settled.pending[t] \in Nat
      BY <1>2, <1>3, <1>4 DEF Amount, None
    <3>2. claimed'[p][t] = claimed[p][t] + settled.pending[t]
      BY <1>6
    <3>3. new.pending[t] + claimed'[p][t] = UpdateFee(pos, F).pending[t] + claimed[p][t]
      BY <3>1, <3>2 DEF settled
    <3>4. claimed'[p] \in Amount
      BY <1>6
    <3> HIDE DEF pos, F
    <3> QED
      BY <1>2, <1>4, <3>3, <3>4, SettledShare
  <2> QED
    BY <1>1, <1>6, <2>1, SharesMove
<1> QED
  BY <1>12, <1>7, <1>8, <1>9, <1>10, <1>11

\* A claim with limits takes a part of a ledger.
LEMMA CappedPart ==
    ASSUME NEW ledger \in Amount, NEW caps \in ClaimCaps
    PROVE  /\ Capped(ledger, caps) \in Amount
           /\ \A t \in Tokens : Capped(ledger, caps)[t] <= ledger[t]
           /\ Minus(ledger, Capped(ledger, caps)) \in Amount
<1>1. caps \in Amount
  BY PoolAssumption
<1>2. /\ Capped(ledger, caps) \in Amount
      /\ \A t \in Tokens : Capped(ledger, caps)[t] <= ledger[t]
  BY <1>1 DEF Capped, Amount
<1> QED
  BY <1>2, AmountsAdd

\* What leaves the vaults leaves one of the two ledgers.
LEMMA LedgerPaid ==
    ASSUME PoolInv, NEW amounts \in Amount, NEW protocol \in Amount, NEW partner \in Amount,
           \A t \in Tokens : /\ protocol[t] + partner[t] + amounts[t]
                                  = pool.protocol_fee[t] + pool.partner_fee[t]
                             /\ amounts[t] <= vault[t],
           vault' = Minus(vault, amounts),
           pool' = [pool EXCEPT !.protocol_fee = protocol, !.partner_fee = partner],
           UNCHANGED <<open, position, vesting, point, moves, earned, claimed>>
    PROVE  PoolInv' /\ SharesKept
<1> USE DEF PoolInv
<1>1. pool \in PoolAccount /\ vault \in Amount
  BY DEF TypeOK
<1>2. /\ pool' \in PoolAccount /\ pool'.liquidity = pool.liquidity
      /\ pool'.permanent_lock_liquidity = pool.permanent_lock_liquidity
      /\ pool'.sqrt_price = pool.sqrt_price
      /\ pool'.sqrt_min_price = pool.sqrt_min_price
      /\ pool'.sqrt_max_price = pool.sqrt_max_price
      /\ pool'.fee_per_liquidity = pool.fee_per_liquidity
      /\ pool'.protocol_fee = protocol
      /\ pool'.partner_fee = partner
  BY <1>1 DEF PoolAccount
<1>3. /\ vault' \in Amount
      /\ \A t \in Tokens : vault'[t] = vault[t] - amounts[t]
  BY <1>1, AmountsAdd
<1>4. TypeOK'
  BY <1>2, <1>3 DEF TypeOK
<1>5. LiquidityBacked'
  BY <1>2, LiquidityStays
<1>6. VestedBacked'
  <2>1. point' \in Nat /\ point <= point' /\ UNCHANGED vesting
    BY DEF TypeOK
  <2>2. \A x \in Positions : position'[x].vested = position[x].vested
    OBVIOUS
  <2> QED
    BY <2>1, <2>2, VestedStays
<1>7. FeesBacked'
  <2>1. earned' = earned /\ claimed' = claimed /\ position' = position
    OBVIOUS
  <2> QED
    BY <1>2, <1>4, <2>1, FeesStayWith
<1>8. Solvent'
  <2>1. ASSUME NEW t \in Tokens
        PROVE  (Curve(pool', t) - Curve(pool, t)) + (earned'[t] - earned[t])
                 - (Paid(claimed', t) - Paid(claimed, t))
                 + (pool'.protocol_fee[t] - pool.protocol_fee[t])
                 + (pool'.partner_fee[t] - pool.partner_fee[t])
               <= vault'[t] - vault[t]
    <3>1. Curve(pool', t) = Curve(pool, t)
      BY <1>2 DEF Curve, Reserve
    <3>2. earned' = earned /\ claimed' = claimed
      OBVIOUS
    <3>3. /\ vault[t] \in Nat /\ earned[t] \in Nat
          /\ Curve(pool, t) \in Nat /\ Paid(claimed, t) \in Nat
          /\ pool.protocol_fee[t] \in Nat /\ pool.partner_fee[t] \in Nat
      BY SolventIs
    <3>4. /\ protocol[t] \in Nat /\ partner[t] \in Nat /\ amounts[t] \in Nat
          /\ protocol[t] + partner[t] + amounts[t]
               = pool.protocol_fee[t] + pool.partner_fee[t]
      BY DEF Amount
    <3> QED
      BY <1>2, <1>3, <3>1, <3>2, <3>3, <3>4
  <2> QED
    BY <1>4, <2>1, SolventFollows
<1>9. SharesKept
  <2>1. claimed' = claimed /\ position' = position
    OBVIOUS
  <2> QED
    BY <1>2, <2>1, SharesStay
<1> QED
  BY <1>9, <1>4, <1>5, <1>6, <1>7, <1>8

LEMMA ClaimProtocolKeeps ==
    ASSUME PoolInv, NEW caps \in ClaimCaps, ClaimProtocolFee(caps)
    PROVE  PoolInv' /\ SharesKept
<1> DEFINE amounts == Capped(pool.protocol_fee, caps)
           rest == Minus(pool.protocol_fee, amounts)
<1>1. pool \in PoolAccount /\ pool.protocol_fee \in Amount /\ pool.partner_fee \in Amount
  BY DEF PoolInv, TypeOK, PoolAccount
<1>2. /\ amounts \in Amount /\ rest \in Amount
      /\ \A t \in Tokens : rest[t] = pool.protocol_fee[t] - amounts[t]
  BY <1>1, CappedPart, AmountsAdd
<1>3. /\ \A t \in Tokens : amounts[t] <= vault[t]
      /\ vault' = Minus(vault, amounts)
      /\ pool' = [pool EXCEPT !.protocol_fee = rest]
      /\ UNCHANGED <<open, position, vesting, point, moves, earned, claimed>>
  BY DEF ClaimProtocolFee
<1> HIDE DEF amounts, rest
<1>4. pool' = [pool EXCEPT !.protocol_fee = rest, !.partner_fee = pool.partner_fee]
  BY <1>1, <1>3 DEF PoolAccount
<1>5. \A t \in Tokens : /\ rest[t] + pool.partner_fee[t] + amounts[t]
                               = pool.protocol_fee[t] + pool.partner_fee[t]
                          /\ amounts[t] <= vault[t]
  BY <1>1, <1>2, <1>3 DEF Amount
<1>6. /\ vault' = Minus(vault, amounts)
      /\ UNCHANGED <<open, position, vesting, point, moves, earned, claimed>>
  BY <1>3
<1>7. /\ amounts \in Amount /\ rest \in Amount
      /\ pool.protocol_fee \in Amount /\ pool.partner_fee \in Amount
  BY <1>1, <1>2
<1> QED
  BY ZenonT(30), <1>4, <1>5, <1>6, <1>7, LedgerPaid

LEMMA ClaimPartnerKeeps ==
    ASSUME PoolInv, NEW caps \in ClaimCaps, ClaimPartnerFee(caps)
    PROVE  PoolInv' /\ SharesKept
<1> DEFINE amounts == Capped(pool.partner_fee, caps)
           rest == Minus(pool.partner_fee, amounts)
<1>1. pool \in PoolAccount /\ pool.protocol_fee \in Amount /\ pool.partner_fee \in Amount
  BY DEF PoolInv, TypeOK, PoolAccount
<1>2. /\ amounts \in Amount /\ rest \in Amount
      /\ \A t \in Tokens : rest[t] = pool.partner_fee[t] - amounts[t]
  BY <1>1, CappedPart, AmountsAdd
<1>3. /\ \A t \in Tokens : amounts[t] <= vault[t]
      /\ vault' = Minus(vault, amounts)
      /\ pool' = [pool EXCEPT !.partner_fee = rest]
      /\ UNCHANGED <<open, position, vesting, point, moves, earned, claimed>>
  BY DEF ClaimPartnerFee
<1> HIDE DEF amounts, rest
<1>4. pool' = [pool EXCEPT !.protocol_fee = pool.protocol_fee, !.partner_fee = rest]
  BY <1>1, <1>3 DEF PoolAccount
<1>5. \A t \in Tokens : /\ pool.protocol_fee[t] + rest[t] + amounts[t]
                               = pool.protocol_fee[t] + pool.partner_fee[t]
                          /\ amounts[t] <= vault[t]
  BY <1>1, <1>2, <1>3 DEF Amount
<1>6. /\ vault' = Minus(vault, amounts)
      /\ UNCHANGED <<open, position, vesting, point, moves, earned, claimed>>
  BY <1>3
<1>7. /\ amounts \in Amount /\ rest \in Amount
      /\ pool.protocol_fee \in Amount /\ pool.partner_fee \in Amount
  BY <1>1, <1>2
<1> QED
  BY ZenonT(30), <1>4, <1>5, <1>6, <1>7, LedgerPaid

-----------------------------------------------------------------------------
(* The status, the clock.                                                  *)

LEMMA StatusKeeps ==
    ASSUME PoolInv, SetPoolStatus
    PROVE  PoolInv' /\ SharesKept
<1> USE DEF PoolInv
<1>1. pool \in PoolAccount
  BY DEF TypeOK
<1>2. /\ pool' = [pool EXCEPT !.pool_status = IF Enabled THEN "Disable" ELSE "Enable"]
      /\ UNCHANGED <<open, position, vesting, vault, point, moves, earned, claimed>>
  BY DEF SetPoolStatus
<1>3. /\ pool' \in PoolAccount /\ pool'.liquidity = pool.liquidity
      /\ pool'.permanent_lock_liquidity = pool.permanent_lock_liquidity
      /\ pool'.sqrt_price = pool.sqrt_price
      /\ pool'.sqrt_min_price = pool.sqrt_min_price
      /\ pool'.sqrt_max_price = pool.sqrt_max_price
      /\ pool'.fee_per_liquidity = pool.fee_per_liquidity
      /\ pool'.protocol_fee = pool.protocol_fee
      /\ pool'.partner_fee = pool.partner_fee
  BY <1>1, <1>2 DEF PoolAccount
<1>4. TypeOK'
  BY <1>2, <1>3 DEF TypeOK
<1>5. LiquidityBacked'
  BY <1>2, <1>3, LiquidityStays
<1>6. VestedBacked'
  <2>1. point' \in Nat /\ point <= point' /\ UNCHANGED vesting
    BY <1>2 DEF TypeOK
  <2>2. \A x \in Positions : position'[x].vested = position[x].vested
    BY <1>2
  <2> QED
    BY <2>1, <2>2, VestedStays
<1>7. FeesBacked'
  BY <1>2, <1>3, <1>4, FeesStayWith
<1>8. Solvent'
  BY <1>2, <1>3, <1>4, SolventStays
<1>9. SharesKept
  BY <1>2, <1>3, SharesStay
<1> QED
  BY <1>9, <1>4, <1>5, <1>6, <1>7, <1>8

\* Every part but the vestings is about things the clock does not touch.
LEMMA TickKeeps ==
    ASSUME PoolInv, Tick
    PROVE  PoolInv' /\ SharesKept
<1> USE DEF PoolInv
<1>1. /\ point' = point + 1
      /\ UNCHANGED <<pool, open, position, vesting, vault, moves, earned, claimed>>
  BY DEF Tick
<1>2. TypeOK'
  BY <1>1 DEF TypeOK
<1>3. LiquidityBacked'
  BY <1>1, LiquidityStays
<1>4. VestedBacked'
  <2>1. point' \in Nat /\ point <= point' /\ UNCHANGED vesting
    BY <1>1 DEF TypeOK
  <2>2. \A x \in Positions : position'[x].vested = position[x].vested
    BY <1>1
  <2> QED
    BY <2>1, <2>2, VestedStays
<1>5. FeesBacked'
  BY <1>1, <1>2, FeesStayWith
<1>6. Solvent'
  BY <1>1, <1>2, SolventStays
<1>7. SharesKept
  BY <1>1, SharesStay
<1> QED
  BY <1>7, <1>2, <1>3, <1>4, <1>5, <1>6

LEMMA StutterKeeps ==
    ASSUME PoolInv, UNCHANGED vars
    PROVE  PoolInv' /\ SharesKept
<1> USE DEF PoolInv
<1>1. UNCHANGED <<pool, open, position, vesting, vault, point, moves, earned, claimed>>
  BY DEF vars
<1>2. TypeOK'
  BY <1>1 DEF TypeOK
<1>3. LiquidityBacked'
  BY <1>1, LiquidityStays
<1>4. VestedBacked'
  <2>1. point' \in Nat /\ point <= point' /\ UNCHANGED vesting
    BY <1>1 DEF TypeOK
  <2>2. \A x \in Positions : position'[x].vested = position[x].vested
    BY <1>1
  <2> QED
    BY <2>1, <2>2, VestedStays
<1>5. FeesBacked'
  BY <1>1, <1>2, FeesStayWith
<1>6. Solvent'
  BY <1>1, <1>2, SolventStays
<1>7. SharesKept
  BY <1>1, SharesStay
<1> QED
  BY <1>7, <1>2, <1>3, <1>4, <1>5, <1>6

-----------------------------------------------------------------------------
(* Trades.                                                                 *)

\* The four parts of a fee are the fee.
LEMMA FeeIsSplit ==
    ASSUME NEW fees \in PoolFees, NEW fee \in Nat, NEW has_referral \in BOOLEAN
    PROVE  LET s == SplitFees(fees, fee, has_referral)
           IN  /\ s.trading \in Nat /\ s.referral \in Nat
               /\ s.partner \in Nat /\ s.protocol \in Nat
               /\ s.trading + s.referral + s.partner + s.protocol = fee
<1> DEFINE all == (fee * fees.protocol_fee_percent) \div PERCENT
           referral == IF has_referral
                       THEN (all * fees.referral_fee_percent) \div PERCENT ELSE 0
           partner == IF fees.has_partner
                      THEN ((all - referral) * fees.partner_fee_percent) \div PERCENT
                      ELSE 0
<1>1. /\ PERCENT \in Nat \ {0} /\ fees.protocol_fee_percent \in 0 .. PERCENT
      /\ fees.referral_fee_percent \in 0 .. PERCENT
      /\ fees.partner_fee_percent \in 0 .. PERCENT
  BY CurveAssumption DEF PoolFees
<1>2. all \in 0 .. fee
  BY <1>1, PartOf
<1> HIDE DEF all
<1>3. referral \in 0 .. all
  <2>1. all \in Nat
    BY <1>2
  <2>2. (all * fees.referral_fee_percent) \div PERCENT \in 0 .. all
    BY <1>1, <2>1, PartOf
  <2> QED
    BY <2>1, <2>2
<1> HIDE DEF referral
<1>4. all - referral \in Nat
  BY <1>2, <1>3
<1>5. partner \in 0 .. all - referral
  <2>1. ((all - referral) * fees.partner_fee_percent) \div PERCENT \in 0 .. all - referral
    BY <1>1, <1>4, PartOf
  <2> QED
    BY <1>4, <2>1
<1> HIDE DEF partner
<1>6. SplitFees(fees, fee, has_referral) =
        [trading |-> fee - all, referral |-> referral, partner |-> partner,
         protocol |-> all - referral - partner]
  BY DEF SplitFees, all, referral, partner
<1> QED
  BY <1>2, <1>3, <1>4, <1>5, <1>6

\* The scheduler never goes below zero, and the cap holds.
LEMMA FeeNumeratorInRange ==
    ASSUME TypeOK
    PROVE  FeeNumerator \in Numerator
<1> DEFINE s == pool.fees
           passed == (point - pool.activation_point) \div s.period_frequency
           period == IF point < pool.activation_point \/ passed > s.number_of_period
                     THEN s.number_of_period ELSE passed
           base == IF s.period_frequency = 0 THEN s.cliff_fee_numerator
                   ELSE s.cliff_fee_numerator - s.reduction_factor * period
<1>1. /\ s \in ValidPoolFees /\ pool.activation_point \in Nat /\ point \in Nat
      /\ s.cliff_fee_numerator \in Nat /\ s.number_of_period \in Nat
      /\ s.period_frequency \in Nat /\ s.reduction_factor \in Nat
      /\ s.reduction_factor * s.number_of_period <= s.cliff_fee_numerator
  BY DEF TypeOK, PoolAccount, ValidPoolFees, PoolFees
<1>2. base \in Nat
  <2>1. CASE s.period_frequency = 0
    BY <1>1, <2>1
  <2>2. CASE s.period_frequency # 0
    <3>1. period \in 0 .. s.number_of_period
      <4>1. CASE point < pool.activation_point
        BY <1>1, <4>1
      <4>2. CASE ~ (point < pool.activation_point)
        <5>1. point - pool.activation_point \in Nat
          BY <1>1, <4>2
        <5>2. passed \in Nat
          BY <1>1, <2>2, <5>1, DivBounds
        <5> QED
          BY <1>1, <4>2, <5>2
      <4> QED
        BY <4>1, <4>2
    <3>2. base = s.cliff_fee_numerator - s.reduction_factor * period
      BY <2>2
    <3> HIDE DEF period, s
    <3>3. period * s.reduction_factor <= s.number_of_period * s.reduction_factor
      BY <1>1, <3>1, Monotone
    <3>4. /\ period * s.reduction_factor = s.reduction_factor * period
          /\ s.number_of_period * s.reduction_factor
               = s.reduction_factor * s.number_of_period
          /\ s.reduction_factor * period \in Int
          /\ s.reduction_factor * s.number_of_period \in Int
      BY <1>1, <3>1
    <3> HIDE DEF base
    <3> QED
      BY <1>1, <3>2, <3>3, <3>4
  <2> QED
    BY <2>1, <2>2
<1>3. FeeNumerator = IF base > MaxFeeNumerator THEN MaxFeeNumerator ELSE base
  BY DEF FeeNumerator
<1> HIDE DEF base
<1> QED
  BY <1>2, <1>3, PoolAssumption, CurveAssumption DEF Numerator

LEMMA TransfersAreNat ==
    ASSUME NEW t \in Tokens, NEW amount \in Nat
    PROVE  /\ Arriving(t, amount) \in 0 .. amount /\ Asked(t, amount) \in Nat
           /\ Arriving(t, Asked(t, amount)) = amount /\ CanAsk(t, amount)
<1> DEFINE fee == TransferFee[t]
<1>1. fee \in TransferFees
  BY PoolAssumption
<1>2. fee \in FeeType /\ MAX_FEE_BASIS_POINTS \in Nat \ {0}
  BY <1>1, TransferAssumption DEF FeeType
<1>3. CalculateFee(fee, amount) \in 0 .. amount
  <2>1. CeilDiv(amount * fee.basis_points, MAX_FEE_BASIS_POINTS) \in 0 .. amount
    BY <1>2, PartOf DEF FeeType
  <2> QED
    BY <1>2, <2>1 DEF CalculateFee, Least, FeeType
<1>4. InverseFee(fee, amount) \in Nat
  BY <1>2, InverseFeeExact
<1>5. /\ InverseIsCorrect(fee, amount)
      /\ Excluded(fee, Included(fee, amount)) = amount
  BY <1>1, InverseExact DEF InverseNeverFails
<1> HIDE DEF fee
<1> QED
  BY <1>3, <1>4, <1>5 DEF Arriving, Asked, CanAsk, Excluded, Included, fee

\* Whatever the mode and the fees of the mints: the pool does not lose by a
\* quote, and what it counts on arrives.
LEMMA QuoteIsSound ==
    ASSUME TypeOK, pool.liquidity > 0, NEW mode \in Modes, NEW dir \in Directions,
           NEW amount \in Nat, NEW q \in Quotes(mode, dir, amount)
    PROVE  /\ Sound(pool, dir, q)
           /\ Arriving(TokenIn(dir), Sent(mode, dir, amount, q)) = q.paid
           /\ mode = "ExactOut" =>
                q.received = Asked(TokenOut(dir), amount)
<1> DEFINE in == Arriving(TokenIn(dir), amount)
           out == Asked(TokenOut(dir), amount)
           numerators == [any_amount \in Nat |-> {FeeNumerator}]
<1>1. TokenIn(dir) \in Tokens /\ TokenOut(dir) \in Tokens
  BY DEF TokenIn, TokenOut, Tokens
<1>2. in \in Nat /\ out \in Nat
  BY <1>1, TransfersAreNat
<1>3. FeeNumerator \in Numerator
  BY FeeNumeratorInRange
<1>4. numerators \in [Nat -> SUBSET Numerator]
  BY <1>3
<1>5. Tradable(pool)
  BY DEF TypeOK, PoolAccount, Tradable
<1>6. CASE mode = "ExactOut"
  <2>1. q \in ExactOutput(pool, dir, out, numerators)
    BY <1>6 DEF Quotes
  <2> HIDE DEF out, numerators
  <2>2. Sound(pool, dir, q) /\ q.received = out
    BY <1>2, <1>4, <1>5, <2>1, ExactOutputSound
  <2>3. Sent(mode, dir, amount, q) = Asked(TokenIn(dir), q.paid)
    BY <1>6 DEF Sent
  <2> QED
    BY <1>1, <2>2, <2>3, TransfersAreNat DEF Sound, out
<1>7. CASE mode = "ExactIn"
  <2>1. q \in ExactInput(pool, dir, in, FeeNumerator)
    BY <1>7 DEF Quotes
  <2> HIDE DEF in
  <2>2. Sound(pool, dir, q) /\ q.paid = in
    BY <1>2, <1>3, <1>5, <2>1, ExactInputSound
  <2>3. Sent(mode, dir, amount, q) = amount
    BY <1>7 DEF Sent
  <2> QED
    BY <1>7, <2>2, <2>3 DEF in
<1>8. CASE mode = "PartialFill"
  <2>1. q \in PartialInput(pool, dir, in, FeeNumerator, numerators)
    BY <1>8 DEF Quotes
  <2> HIDE DEF in, numerators
  <2>2. Sound(pool, dir, q)
    BY <1>2, <1>3, <1>4, <1>5, <2>1, PartialInputSound
  <2>3. Sent(mode, dir, amount, q) = Asked(TokenIn(dir), q.paid)
    BY <1>8 DEF Sent
  <2> QED
    BY <1>1, <1>8, <2>2, <2>3, TransfersAreNat DEF Sound
<1> QED
  BY <1>6, <1>7, <1>8 DEF Modes

LEMMA SwapKeeps ==
    ASSUME PoolInv, NEW mode \in Modes, NEW dir \in Directions, NEW amount \in SwapAmounts,
           NEW whitelisted \in BOOLEAN, NEW has_referral \in BOOLEAN,
           Swap(mode, dir, amount, whitelisted, has_referral)
    PROVE  /\ PoolInv'
           /\ UNCHANGED <<position, claimed>>
           /\ \A s \in Tokens : pool.fee_per_liquidity[s] <= pool'.fee_per_liquidity[s]
<1> USE DEF PoolInv
<1>1. amount \in Nat /\ pool.liquidity > 0
  BY PoolAssumption DEF Swap
<1> DEFINE t == FeeToken(pool.collect_fee_mode, dir)
           in == TokenIn(dir)
           out == TokenOut(dir)
<1>2. PICK q \in Quotes(mode, dir, amount) :
         LET split == SplitFees(pool.fees, q.fee, has_referral)
             arrives == Arriving(in, Sent(mode, dir, amount, q))
             balance == Minus(Minus(Plus(vault, Only(in, arrives)),
                                    Only(out, q.received)),
                              Only(t, split.referral))
         IN /\ \A s \in Tokens : balance[s] >= 0
            /\ vault' = balance
            /\ pool' = [pool EXCEPT
                          !.sqrt_price = q.next_sqrt_price,
                          !.fee_per_liquidity[t] =
                              @ + PerLiquidity(split.trading, pool.liquidity),
                          !.protocol_fee[t] = @ + split.protocol,
                          !.partner_fee[t] = @ + split.partner]
            /\ earned' = Plus(earned, Only(t, split.trading))
  BY DEF Swap
<1>3. /\ moves' = moves + 1
      /\ UNCHANGED <<open, position, vesting, point, claimed>>
  BY DEF Swap
<1> DEFINE split == SplitFees(pool.fees, q.fee, has_referral)
           next == q.next_sqrt_price
           d == PerLiquidity(split.trading, pool.liquidity)
<1>4. /\ Sound(pool, dir, q)
      /\ Arriving(in, Sent(mode, dir, amount, q)) = q.paid
  BY <1>1, QuoteIsSound
<1>5. /\ q.paid \in Nat /\ q.received \in Nat /\ q.fee \in Nat
      /\ RightWay(pool, dir, next)
  BY <1>4 DEF Sound
<1>6. /\ pool \in PoolAccount /\ vault \in Amount /\ earned \in Amount
      /\ pool.fees \in PoolFees /\ pool.liquidity \in Nat \ {0}
      /\ pool.fee_per_liquidity \in Amount
      /\ pool.protocol_fee \in Amount /\ pool.partner_fee \in Amount
      /\ pool.sqrt_price \in pool.sqrt_min_price .. pool.sqrt_max_price
      /\ pool.sqrt_min_price \in Nat \ {0} /\ pool.sqrt_max_price \in Nat
      /\ pool.collect_fee_mode \in CollectFeeModes
  BY <1>1 DEF TypeOK, PoolAccount, ValidPoolFees
<1>7. /\ split.trading \in Nat /\ split.referral \in Nat
      /\ split.partner \in Nat /\ split.protocol \in Nat
      /\ split.trading + split.referral + split.partner + split.protocol = q.fee
  BY <1>5, <1>6, FeeIsSplit
<1> HIDE DEF split
<1>8. t \in Tokens /\ in \in Tokens /\ out \in Tokens /\ in # out
  BY DEF FeeToken, TokenIn, TokenOut, Tokens
<1>9. IF FeesOnInput(pool.collect_fee_mode, dir) THEN t = in ELSE t = out
  BY <1>6 DEF FeeToken, TokenIn, TokenOut, FeesOnInput, CollectFeeModes, Directions
<1>10. in = In(dir) /\ out = Out(dir)
  BY DEF TokenIn, TokenOut, In, Out
<1> HIDE DEF t, in, out
<1>11. d \in Nat
  <2>1. split.trading * LIQUIDITY_UNIT \in Nat
    BY <1>7, PoolAssumption
  <2> QED
    BY <1>6, <2>1, DivBounds DEF PerLiquidity
<1> DEFINE G == [pool.fee_per_liquidity EXCEPT ![t] = @ + d]
           protocol == [pool.protocol_fee EXCEPT ![t] = @ + split.protocol]
           partner == [pool.partner_fee EXCEPT ![t] = @ + split.partner]
<1>12. pool' = [pool EXCEPT !.sqrt_price = next, !.fee_per_liquidity = G,
                            !.protocol_fee = protocol, !.partner_fee = partner]
  <2>1. pool' = [pool EXCEPT !.sqrt_price = next, !.fee_per_liquidity[t] = @ + d,
                             !.protocol_fee[t] = @ + split.protocol,
                             !.partner_fee[t] = @ + split.partner]
    BY <1>2 DEF split
  <2> HIDE DEF d, next
  <2> QED
    BY <1>6, <2>1 DEF PoolAccount
<1>13. \A s \in Tokens :
          vault'[s] = vault[s] + (IF s = in THEN q.paid ELSE 0)
                               - (IF s = out THEN q.received ELSE 0)
                               - (IF s = t THEN split.referral ELSE 0)
  BY <1>2, <1>4, <1>5, <1>6, <1>7, <1>8 DEF split, Plus, Minus, Only, None, Amount
<1>14. /\ earned' = Plus(earned, Only(t, split.trading)) /\ earned' \in Amount
       /\ \A s \in Tokens :
            earned'[s] = earned[s] + (IF s = t THEN split.trading ELSE 0)
  <2>1. earned' = Plus(earned, Only(t, split.trading))
    BY <1>2 DEF split
  <2>2. Only(t, split.trading) \in Amount
    BY <1>7, <1>8 DEF Only, None, Amount
  <2>3. \A s \in Tokens : Only(t, split.trading)[s] = IF s = t THEN split.trading ELSE 0
    BY <1>8 DEF Only, None
  <2> QED
    BY <1>6, <2>1, <2>2, <2>3, AmountsAdd
<1> HIDE DEF d, next
<1>15. /\ pool' \in PoolAccount /\ pool'.liquidity = pool.liquidity
       /\ pool'.permanent_lock_liquidity = pool.permanent_lock_liquidity
       /\ pool'.sqrt_price = next
       /\ pool'.sqrt_price \in pool'.sqrt_min_price .. pool'.sqrt_max_price
       /\ pool'.sqrt_min_price = pool.sqrt_min_price
       /\ pool'.sqrt_max_price = pool.sqrt_max_price
       /\ pool'.fee_per_liquidity = [pool.fee_per_liquidity EXCEPT ![t] = @ + d]
       /\ pool'.protocol_fee = [pool.protocol_fee EXCEPT ![t] = @ + split.protocol]
       /\ pool'.partner_fee = [pool.partner_fee EXCEPT ![t] = @ + split.partner]
  <2>1. G \in Amount /\ protocol \in Amount /\ partner \in Amount
    BY <1>6, <1>7, <1>8, <1>11 DEF Amount
  <2>2. next \in Nat /\ next \in pool.sqrt_min_price .. pool.sqrt_max_price
    BY <1>5, <1>6 DEF RightWay, next
  <2> HIDE DEF G, protocol, partner
  <2>3. /\ pool' \in PoolAccount
        /\ pool'.liquidity = pool.liquidity
        /\ pool'.permanent_lock_liquidity = pool.permanent_lock_liquidity
        /\ pool'.sqrt_price = next
        /\ pool'.sqrt_min_price = pool.sqrt_min_price
        /\ pool'.sqrt_max_price = pool.sqrt_max_price
        /\ pool'.fee_per_liquidity = G
        /\ pool'.protocol_fee = protocol
        /\ pool'.partner_fee = partner
    BY <1>6, <1>12, <2>1, <2>2 DEF PoolAccount
  <2> QED
    BY <2>2, <2>3 DEF G, protocol, partner
<1>16. TypeOK'
  <2>1. vault' \in Amount
    <3>1. \A s \in Tokens : vault'[s] \in Int
      BY <1>5, <1>6, <1>7, <1>13 DEF Amount
    <3>2. \A s \in Tokens : vault'[s] >= 0
      BY <1>2
    <3>3. vault' = [s \in Tokens |-> vault'[s]]
      BY <1>2 DEF Minus
    <3>4. \A s \in Tokens : vault'[s] \in Nat
      BY <3>1, <3>2
    <3> QED
      BY <3>3, <3>4 DEF Amount
  <2> QED
    BY <1>3, <1>14, <1>15, <2>1 DEF TypeOK
<1>17. LiquidityBacked'
  BY <1>3, <1>15, LiquidityStays
<1>18. VestedBacked'
  <2>1. point' \in Nat /\ point <= point' /\ UNCHANGED vesting
    BY <1>3 DEF TypeOK
  <2>2. \A x \in Positions : position'[x].vested = position[x].vested
    BY <1>3
  <2> QED
    BY <2>1, <2>2, VestedStays
<1>19. FeesBacked'
  BY <1>3, <1>6, <1>7, <1>8, <1>14, <1>15, <1>16, FeesGrow DEF d
<1>20. Solvent'
  <2>1. ASSUME NEW s \in Tokens
        PROVE  (Curve(pool', s) - Curve(pool, s)) + (earned'[s] - earned[s])
                 - (Paid(claimed', s) - Paid(claimed, s))
                 + (pool'.protocol_fee[s] - pool.protocol_fee[s])
                 + (pool'.partner_fee[s] - pool.partner_fee[s])
               <= vault'[s] - vault[s]
    <3> DEFINE paid == q.paid - FeeIn(pool, dir, q)
               received == q.received + FeeOut(pool, dir, q)
    <3>1. Tradable(pool)
      BY <1>6 DEF Tradable
    <3>2. paid \in Nat /\ received \in Nat
      BY <1>4 DEF Sound, FeeOut
    <3>3. Covers(pool, dir, next, paid) /\ Yields(pool, dir, next, received)
      BY <1>4 DEF Sound, next
    <3> HIDE DEF paid, received
    <3>4. /\ Reserve(pool, in, next) <= Curve(pool, in) + paid
          /\ Reserve(pool, out, next) + received <= Curve(pool, out)
      BY <1>5, <1>10, <3>1, <3>2, <3>3, ReservesFollow DEF Curve, next
    <3>5. Curve(pool', s) = Reserve(pool, s, next)
      BY <1>15 DEF Curve, Reserve
    <3>6. /\ Curve(pool, s) \in Nat /\ Curve(pool', s) \in Nat
          /\ Paid(claimed', s) = Paid(claimed, s) /\ Paid(claimed, s) \in Nat
          /\ vault[s] \in Nat /\ earned[s] \in Nat
      BY <1>3, <1>15, <1>16, SolventIs, CurveIsNat DEF InItsRange
    <3>7. /\ pool'.protocol_fee[s] = pool.protocol_fee[s]
                                       + (IF s = t THEN split.protocol ELSE 0)
          /\ pool'.partner_fee[s] = pool.partner_fee[s]
                                      + (IF s = t THEN split.partner ELSE 0)
          /\ pool.protocol_fee[s] \in Nat /\ pool.partner_fee[s] \in Nat
      BY <1>6, <1>7, <1>15 DEF Amount
    <3> DEFINE grown == (IF s = t THEN q.fee - split.referral ELSE 0)
    <3>8. (Curve(pool', s) - Curve(pool, s)) + (earned'[s] - earned[s])
                 - (Paid(claimed', s) - Paid(claimed, s))
                 + (pool'.protocol_fee[s] - pool.protocol_fee[s])
                 + (pool'.partner_fee[s] - pool.partner_fee[s])
            = (Curve(pool', s) - Curve(pool, s)) + grown
      BY <1>5, <1>7, <1>14, <3>6, <3>7
    <3>9. CASE s = in
      <4>1. Curve(pool', s) - Curve(pool, s) <= paid
        BY <3>2, <3>4, <3>5, <3>6, <3>9
      <4>2. vault'[s] - vault[s] = q.paid - (IF s = t THEN split.referral ELSE 0)
        BY <1>5, <1>7, <1>8, <1>13, <3>6, <3>9
      <4>3. paid + grown = q.paid - (IF s = t THEN split.referral ELSE 0)
        BY <1>5, <1>7, <1>8, <1>9, <3>9 DEF FeeIn, paid
      <4> HIDE DEF grown
      <4>4. grown \in Int
        BY <1>5, <1>7 DEF grown
      <4> QED
        BY <1>5, <1>7, <3>2, <3>6, <3>8, <4>1, <4>2, <4>3, <4>4
    <3>10. CASE s = out
      <4>1. Curve(pool', s) - Curve(pool, s) <= -received
        BY <3>2, <3>4, <3>5, <3>6, <3>10
      <4>2. vault'[s] - vault[s] = -q.received - (IF s = t THEN split.referral ELSE 0)
        BY <1>5, <1>7, <1>8, <1>13, <3>6, <3>10
      <4>3. -received + grown = -q.received - (IF s = t THEN split.referral ELSE 0)
        BY <1>5, <1>7, <1>8, <1>9, <3>10 DEF FeeOut, received
      <4> HIDE DEF grown
      <4>4. grown \in Int
        BY <1>5, <1>7 DEF grown
      <4> QED
        BY <1>5, <1>7, <3>2, <3>6, <3>8, <4>1, <4>2, <4>3, <4>4
    <3> QED
      BY <1>8, <3>9, <3>10 DEF Tokens
  <2> QED
    BY <1>16, <2>1, SolventFollows
<1>21. \A s \in Tokens : pool.fee_per_liquidity[s] <= pool'.fee_per_liquidity[s]
  BY <1>6, <1>8, <1>11, <1>15 DEF Amount
<1> QED
  BY <1>3, <1>16, <1>17, <1>18, <1>19, <1>20, <1>21

-----------------------------------------------------------------------------
(* The invariant holds of every behaviour.                                 *)

LEMMA InitKeeps ==
    ASSUME Init
    PROVE  PoolInv
<1>1. PICK c \in PoolConfigs :
         /\ c.liquidity > 0
         /\ c.sqrt_min_price <= c.sqrt_price /\ c.sqrt_price <= c.sqrt_max_price
         /\ pool = NewPool(c)
         /\ vault = Deposit([t \in Tokens |->
                    IF t = "a" THEN AmountA(NewPool(c), c.liquidity, "Up")
                               ELSE AmountB(NewPool(c), c.liquidity, "Up")])
         /\ position = [p \in Positions |->
                          NewPosition(IF p = Creator THEN c.liquidity ELSE 0)]
  BY DEF Init
<1>2. /\ open = {Creator}
      /\ vesting = [v \in VestingAccounts |-> NoVesting]
      /\ point = 0 /\ moves = 0 /\ earned = None
      /\ claimed = [p \in Positions |-> None]
  BY DEF Init
<1>3. /\ c.liquidity \in Nat /\ c.sqrt_price \in Nat \ {0}
      /\ c.sqrt_min_price \in Nat \ {0} /\ c.sqrt_max_price \in Nat
      /\ c.activation_point \in Nat /\ c.collect_fee_mode \in CollectFeeModes
      /\ c.fees \in ValidPoolFees
  <2>1. c \in [liquidity : Nat, sqrt_price : Nat, sqrt_min_price : Nat \ {0},
               sqrt_max_price : Nat, activation_point : Nat,
               collect_fee_mode : CollectFeeModes, fees : ValidPoolFees]
    BY PoolAssumption
  <2> QED
    BY <1>1, <2>1
<1>4. /\ pool \in PoolAccount
      /\ pool.liquidity = c.liquidity /\ pool.permanent_lock_liquidity = 0
      /\ pool.sqrt_price = c.sqrt_price
      /\ pool.sqrt_min_price = c.sqrt_min_price
      /\ pool.sqrt_max_price = c.sqrt_max_price
      /\ pool.fee_per_liquidity = None /\ pool.protocol_fee = None
      /\ pool.partner_fee = None
  BY <1>1, <1>3, NoneIsAmount DEF NewPool, PoolAccount
<1>5. pool.sqrt_price \in pool.sqrt_min_price .. pool.sqrt_max_price
  BY <1>1, <1>3, <1>4
<1> DEFINE amounts == [t \in Tokens |-> IF t = "a" THEN AmountA(pool, c.liquidity, "Up")
                                                   ELSE AmountB(pool, c.liquidity, "Up")]
<1>6. amounts \in Amount /\ vault = amounts
  <2>1. amounts \in Amount
    <3>1. /\ pool.sqrt_min_price <= pool.sqrt_price
          /\ pool.sqrt_price <= pool.sqrt_max_price
      BY <1>1, <1>4
    <3> QED
      BY <1>3, <1>4, <3>1, DeltaType DEF AmountA, AmountB, Amount
  <2>2. vault = Deposit(amounts)
    BY <1>1
  <2> HIDE DEF amounts
  <2> QED
    BY <2>1, <2>2, DepositArrives
<1>7. /\ NewPosition(c.liquidity) \in PositionAccount
      /\ NewPosition(0) \in PositionAccount
      /\ TotalLiquidity(NewPosition(c.liquidity)) = c.liquidity
      /\ NewPosition(c.liquidity).permanent = 0
  BY <1>3, NoneIsAmount DEF NewPosition, PositionAccount, TotalLiquidity
<1>8. TypeOK
  <2>1. position \in [Positions -> PositionAccount]
    BY <1>1, <1>7
  <2>2. claimed \in [Positions -> Amount] /\ earned \in Amount
    BY <1>2, NoneIsAmount
  <2> QED
    BY <1>2, <1>4, <1>5, <1>6, <2>1, <2>2, PoolAssumption DEF TypeOK
<1>9. LiquidityBacked
  <2> DEFINE f == [p \in Positions |-> TotalLiquidity(position[p])]
             k == [p \in Positions |-> position[p].permanent]
  <2>1. f[Creator] = c.liquidity /\ k[Creator] = 0
    BY <1>1, <1>7, PoolAssumption
  <2>2. \A p \in Positions \ open : position[p] = NewPosition(0)
    BY <1>1, <1>2
  <2> HIDE DEF f, k
  <2>3. Total(f, {Creator}) = f[Creator] /\ Total(k, {Creator}) = k[Creator]
    <3>1. IsFiniteSet({Creator}) /\ {Creator} \ {Creator} = {}
      BY FS_Singleton
    <3>2. /\ Total(f, {Creator}) = f[Creator] + Total(f, {Creator} \ {Creator})
          /\ Total(k, {Creator}) = k[Creator] + Total(k, {Creator} \ {Creator})
      BY <1>3, <2>1, <3>1, SumRemove
    <3>3. Total(f, {}) = 0 /\ Total(k, {}) = 0
      BY SumEmpty
    <3> QED
      BY <1>3, <2>1, <3>1, <3>2, <3>3
  <2> QED
    BY <1>2, <1>4, <2>1, <2>2, <2>3 DEF LiquidityBacked, f, k
<1>10. VestedBacked
  <2>1. \A p \in Positions : Locks(p) = {}
    BY <1>2 DEF Locks
  <2>2. \A p \in Positions : position[p].vested = 0
    BY <1>1 DEF NewPosition
  <2> QED
    BY <2>1, <2>2, SumEmpty DEF VestedBacked
<1>11. FeesBacked
  <2>1. ASSUME NEW p \in Positions, NEW t \in Tokens
        PROVE  position[p].checkpoint[t] <= pool.fee_per_liquidity[t] /\ Unrounded(p, t) = 0
    <3>1. /\ position[p].checkpoint = None /\ position[p].pending = None
          /\ position[p] \in PositionAccount
      BY <1>1, <1>7 DEF NewPosition
    <3>2. claimed[p] = None
      BY <1>2
    <3>3. None[t] = 0
      BY NoneIsAmount
    <3>4. TotalLiquidity(position[p]) \in Nat
      BY <3>1, LiquidityIsNat
    <3>5. Unrounded(p, t) = (0 + 0) * LIQUIDITY_UNIT + TotalLiquidity(position[p]) * (0 - 0)
      BY <1>4, <3>1, <3>2, <3>3 DEF Unrounded
    <3> QED
      BY <1>4, <3>1, <3>3, <3>4, <3>5, PoolAssumption
  <2>2. ASSUME NEW t \in Tokens
        PROVE  Total([p \in Positions |-> Unrounded(p, t)], Positions)
                 <= earned[t] * LIQUIDITY_UNIT
    <3> DEFINE f == [p \in Positions |-> Unrounded(p, t)]
    <3>1. \A p \in Positions : f[p] = 0
      BY <2>1
    <3> HIDE DEF f
    <3>2. Total(f, Positions) = 0
      BY <3>1, PoolAssumption, SumZero
    <3>3. earned[t] * LIQUIDITY_UNIT = 0
      BY <1>2, NoneIsAmount, PoolAssumption
    <3> QED
      BY <3>2, <3>3 DEF f
  <2> QED
    BY <2>1, <2>2 DEF FeesBacked
<1>12. Solvent
  <2>1. ASSUME NEW t \in Tokens
        PROVE  Curve(pool, t) <= amounts[t]
    <3> DEFINE lower == pool.sqrt_min_price
               price == pool.sqrt_price
               upper == pool.sqrt_max_price
               L == c.liquidity
    <3>1. /\ lower \in Nat \ {0} /\ price \in Nat \ {0} /\ upper \in Nat
          /\ lower <= price /\ price <= upper /\ L \in Nat
      BY <1>1, <1>3, <1>4
    <3>2. Curve(pool, t) = IF t = "a" THEN DeltaA(price, upper, L, "Down")
                                      ELSE DeltaB(lower, price, L, "Down")
      BY <1>4 DEF Curve, Reserve
    <3>3. amounts[t] = IF t = "a" THEN DeltaA(price, upper, L, "Up")
                                  ELSE DeltaB(lower, price, L, "Up")
      BY DEF AmountA, AmountB
    <3> HIDE DEF lower, price, upper, L, amounts
    <3>4. /\ DeltaA(price, upper, 0 + L, "Down")
               <= DeltaA(price, upper, 0, "Down") + DeltaA(price, upper, L, "Up")
          /\ DeltaB(lower, price, 0 + L, "Down")
               <= DeltaB(lower, price, 0, "Down") + DeltaB(lower, price, L, "Up")
      BY <3>1, ReservesAdd
    <3>5. DeltaA(price, upper, 0, "Down") = 0 /\ DeltaB(lower, price, 0, "Down") = 0
      <4>1. price * upper \in Nat \ {0} /\ PRICE_UNIT \in Nat \ {0}
        BY <3>1, CurveAssumption
      <4>2. 0 * (upper - price) = 0 /\ 0 * (price - lower) = 0
        BY <3>1
      <4>3. 0 \div (price * upper) \in 0 .. 0 /\ 0 \div PRICE_UNIT \in 0 .. 0
        <5>1. 0 * 0 = 0
          OBVIOUS
        <5> QED
          BY <4>1, <5>1, PartOf
      <4> QED
        BY <4>2, <4>3 DEF DeltaA, DeltaB, MulDiv
    <3>6. /\ DeltaA(price, upper, L, "Up") \in Nat
          /\ DeltaB(lower, price, L, "Up") \in Nat
      BY <3>1, DeltaType
    <3>7. 0 + L = L
      BY <3>1
    <3> QED
      BY <3>2, <3>3, <3>4, <3>5, <3>6, <3>7
  <2>2. ASSUME NEW t \in Tokens
        PROVE  Paid(claimed, t) = 0
    <3> DEFINE f == [x \in Positions |-> claimed[x][t]]
    <3>1. \A x \in Positions : f[x] = 0
      BY <1>2, NoneIsAmount
    <3> HIDE DEF f
    <3>2. Total(f, Positions) = 0
      BY <3>1, PoolAssumption, SumZero
    <3> QED
      BY <3>2 DEF Paid, f
  <2> HIDE DEF amounts
  <2>3. ASSUME NEW t \in Tokens
        PROVE  vault[t] >= Curve(pool, t) + (earned[t] - Paid(claimed, t))
                             + pool.protocol_fee[t] + pool.partner_fee[t]
    <3>1. Curve(pool, t) \in Nat /\ vault[t] \in Nat
      BY <1>8, SolventIs
    <3>2. earned[t] = 0 /\ pool.protocol_fee[t] = 0 /\ pool.partner_fee[t] = 0
      BY <1>2, <1>4, NoneIsAmount
    <3> QED
      BY <1>6, <2>1, <2>2, <3>1, <3>2
  <2> QED
    BY <1>8, <2>3, SolventIs
<1> QED
  BY <1>8, <1>9, <1>10, <1>11, <1>12 DEF PoolInv

\* What an owner does takes nothing from anybody, and pays only to the owner.
LEMMA OwnerKeeps ==
    ASSUME PoolInv, NEW p \in Positions, OwnerStep(p)
    PROVE  /\ PoolInv' /\ SharesKept
           /\ \A x \in Positions \ {p} : claimed'[x] = claimed[x]
<1> DEFINE Kept == /\ PoolInv' /\ SharesKept
                   /\ \A x \in Positions \ {p} : claimed'[x] = claimed[x]
<1>1. CASE CreatePosition(p)
  BY <1>1, CreateKeeps DEF CreatePosition
<1>2. CASE ClosePosition(p)
  BY <1>2, CloseKeeps DEF ClosePosition
<1>3. CASE ClaimPositionFee(p)
  <2>1. \A x \in Positions \ {p} : claimed'[x] = claimed[x]
    BY <1>3 DEF ClaimPositionFee, PoolInv, TypeOK
  <2> QED
    BY <1>3, <2>1, ClaimFeeKeeps
<1>4. ASSUME NEW delta \in Liquidities, AddLiquidity(p, delta) PROVE Kept
  BY <1>4, AddKeeps DEF AddLiquidity
<1>5. ASSUME NEW delta \in Liquidities, PermanentLockPosition(p, delta) PROVE Kept
  BY <1>5, PermanentLockKeeps DEF PermanentLockPosition
<1>6. ASSUME NEW delta \in Liquidities \cup {position[p].unlocked},
             RemoveLiquidity(p, delta)
      PROVE  Kept
  <2>1. delta \in Nat
    BY PoolAssumption DEF PoolInv, TypeOK, PositionAccount
  <2> QED
    BY <1>6, <2>1, RemoveKeeps DEF RemoveLiquidity
<1>7. ASSUME NEW v \in VestingAccounts, NEW s \in VestingSchedules, LockPosition(p, v, s)
      PROVE  Kept
  BY <1>7, LockKeeps DEF LockPosition
<1> QED
  BY <1>1, <1>2, <1>3, <1>4, <1>5, <1>6, <1>7 DEF OwnerStep

LEMMA PoolStepKeeps ==
    ASSUME PoolInv, PoolStep
    PROVE  /\ PoolInv' /\ (SharesKept \/ Trade)
           /\ claimed' = claimed
<1> DEFINE Kept == PoolInv' /\ (SharesKept \/ Trade) /\ claimed' = claimed
<1>1. ASSUME NEW v \in VestingAccounts, RefreshVesting(v) PROVE Kept
  BY <1>1, RefreshKeeps DEF RefreshVesting
<1>2. CASE Trade
  BY <1>2, SwapKeeps DEF Trade
<1>3. ASSUME NEW caps \in ClaimCaps, ClaimProtocolFee(caps) PROVE Kept
  BY <1>3, ClaimProtocolKeeps DEF ClaimProtocolFee
<1>4. ASSUME NEW caps \in ClaimCaps, ClaimPartnerFee(caps) PROVE Kept
  BY <1>4, ClaimPartnerKeeps DEF ClaimPartnerFee
<1>5. CASE SetPoolStatus
  BY <1>5, StatusKeeps DEF SetPoolStatus
<1>6. CASE Tick
  BY <1>6, TickKeeps DEF Tick
<1> QED
  BY <1>1, <1>2, <1>3, <1>4, <1>5, <1>6 DEF PoolStep

LEMMA StepKeeps ==
    ASSUME PoolInv, [Next]_vars
    PROVE  PoolInv' /\ (SharesKept \/ Split \/ Trade)
<1>1. CASE UNCHANGED vars
  BY <1>1, StutterKeeps
<1>2. CASE \E p \in Positions : OwnerStep(p)
  BY <1>2, OwnerKeeps
<1>3. CASE Split
  BY <1>3, SplitKeeps DEF Split
<1>4. CASE PoolStep
  BY <1>4, PoolStepKeeps
<1> QED
  BY <1>1, <1>2, <1>3, <1>4 DEF Next

\* The inductive invariant, from which the theorems below follow.
LEMMA Invariance == Spec => []PoolInv
<1>1. Init => PoolInv
  BY InitKeeps
<1>2. PoolInv /\ [Next]_vars => PoolInv'
  BY StepKeeps
<1> QED
  BY <1>1, <1>2, PTL DEF Spec

\* No ledger, balance or part of a position's liquidity is ever negative, the
\* price stays in its range, and every vesting account is of an open position:
\* for every instance of the constants.
THEOREM Types == Spec => []TypeOK
<1>1. PoolInv => TypeOK
  BY DEF PoolInv
<1> QED
  BY <1>1, Invariance, PTL

\* The vaults always cover the reserves of the curve and all fees not yet
\* paid out, whatever is traded, added, removed, split and claimed
\* (curve.rs, pool.rs: every rounding is in favour of the pool).
THEOREM Solvency == Spec => []Solvent
<1>1. PoolInv => Solvent
  BY DEF PoolInv
<1> QED
  BY <1>1, Invariance, PTL

\* The pool's liquidity and permanently locked liquidity are always those of
\* its positions (ix_add_liquidity.rs, ix_remove_liquidity.rs,
\* ix_split_position.rs change them separately).
THEOREM LiquidityAddsUp == Spec => []LiquidityBacked
<1>1. PoolInv => LiquidityBacked
  BY DEF PoolInv
<1> QED
  BY <1>1, Invariance, PTL

\* The vested liquidity of a position is always what its vesting accounts
\* have still to release, and none has released more than its schedule
\* allows (ix_lock_position.rs, ix_refresh_vesting.rs).
THEOREM VestingAddsUp == Spec => []VestedBacked
<1>1. PoolInv => VestedBacked
  BY DEF PoolInv
<1> QED
  BY <1>1, Invariance, PTL

\* Pending, claimed and accrued fees are always backed by fees charged.
THEOREM FeesAreBacked == Spec => []FeesBacked
<1>1. PoolInv => FeesBacked
  BY DEF PoolInv
<1> QED
  BY <1>1, Invariance, PTL

-----------------------------------------------------------------------------
(* What positions may claim.                                               *)

LEMMA OwedIs ==
    ASSUME TypeOK, FeesBacked, NEW p \in Positions
    PROVE  /\ Owed(p) \in Amount
           /\ Owed(p) = UpdateFee(position[p], pool.fee_per_liquidity).pending
           /\ \A t \in Tokens :
                (Owed(p)[t] + claimed[p][t]) * LIQUIDITY_UNIT <= Unrounded(p, t)
<1>1. /\ position[p] \in PositionAccount /\ pool.fee_per_liquidity \in Amount
      /\ claimed[p] \in Amount
      /\ \A t \in Tokens : position[p].checkpoint[t] <= pool.fee_per_liquidity[t]
  BY DEF TypeOK, PoolAccount, FeesBacked
<1>2. Owed(p) = UpdateFee(position[p], pool.fee_per_liquidity).pending
  BY <1>1, SettledType DEF Owed
<1>3. Owed(p) \in Amount
  BY <1>1, <1>2, SettledType DEF PositionAccount
<1>4. \A t \in Tokens :
        (Owed(p)[t] + claimed[p][t]) * LIQUIDITY_UNIT <= Unrounded(p, t)
  BY <1>1, <1>2, SettlingRoundsDown, UnroundedIs
<1> QED
  BY <1>2, <1>3, <1>4

LEMMA BackedIsCovered ==
    ASSUME TypeOK, FeesBacked
    PROVE  FeesCovered
<1> SUFFICES ASSUME NEW t \in Tokens
             PROVE  Total([p \in Positions |-> Owed(p)[t]], Positions) <= FeesHeld[t]
  BY DEF FeesCovered
<1> DEFINE U == LIQUIDITY_UNIT
           o == [p \in Positions |-> Owed(p)[t]]
           c == [p \in Positions |-> claimed[p][t]]
           s == [p \in Positions |-> Owed(p)[t] + claimed[p][t]]
           w == [p \in Positions |-> (Owed(p)[t] + claimed[p][t]) * U]
           f == [p \in Positions |-> Unrounded(p, t)]
<1>1. U \in Nat \ {0} /\ IsFiniteSet(Positions)
  BY PoolAssumption
<1>2. ASSUME NEW p \in Positions
      PROVE  /\ o[p] \in Nat /\ c[p] \in Nat /\ s[p] \in Nat /\ w[p] \in Nat
             /\ f[p] \in Int /\ s[p] = o[p] + c[p] /\ w[p] = s[p] * U /\ w[p] <= f[p]
  <2>1. o[p] \in Nat /\ c[p] \in Nat
    BY OwedIs DEF TypeOK, Amount
  <2>2. s[p] = o[p] + c[p] /\ w[p] = s[p] * U
    OBVIOUS
  <2>3. w[p] <= f[p] /\ f[p] \in Int
    BY OwedIs, UnroundedIs
  <2> HIDE DEF o, c, s, w, f
  <2>4. s[p] \in Nat
    BY <2>1, <2>2
  <2>5. s[p] * U \in Nat
    BY <1>1, <2>4
  <2> QED
    BY <2>1, <2>2, <2>3, <2>4, <2>5
<1>3. Total(f, Positions) <= earned[t] * U
  BY DEF FeesBacked
<1>4. earned[t] \in Nat
  BY DEF TypeOK, Amount
<1>5. FeesHeld[t] = earned[t] - Total(c, Positions)
  BY DEF FeesHeld
<1> HIDE DEF o, c, s, w, f, U
<1>6. Total(s, Positions) = Total(o, Positions) + Total(c, Positions)
  BY <1>1, <1>2, SumPlus
<1>7. Total(w, Positions) = Total(s, Positions) * U
  BY <1>1, <1>2, SumTimes
<1>8. Total(w, Positions) <= Total(f, Positions)
  BY <1>1, <1>2, SumLe
<1>9. /\ Total(o, Positions) \in Int /\ Total(c, Positions) \in Int
      /\ Total(s, Positions) \in Int /\ Total(f, Positions) \in Int
  BY <1>1, <1>2, SumInt
<1>10. Total(s, Positions) * U <= earned[t] * U
  <2>1. Total(s, Positions) * U \in Int /\ earned[t] * U \in Int
    BY <1>1, <1>4, <1>9
  <2> QED
    BY <1>3, <1>7, <1>8, <1>9, <2>1
<1>11. Total(s, Positions) <= earned[t]
  BY <1>1, <1>4, <1>9, <1>10, CancelLe
<1>12. Total(o, Positions) <= FeesHeld[t]
  BY <1>4, <1>5, <1>6, <1>9, <1>11
<1> QED
  BY <1>12 DEF o

\* The positions together can never claim more than the trading fees charged
\* for them and not yet paid (update_fee, apply_swap_result).
THEOREM FeesAreCovered == Spec => []FeesCovered
<1>1. PoolInv => FeesCovered
  BY BackedIsCovered DEF PoolInv
<1> QED
  BY <1>1, Invariance, PTL

-----------------------------------------------------------------------------
(* What a quote promises.                                                  *)

\* In any state that has the types, not only in reachable ones.
LEMMA QuotesOfAState ==
    ASSUME TypeOK
    PROVE  QuotesAreKept
<1> SUFFICES ASSUME NEW mode \in Modes, NEW dir \in Directions,
                    NEW amount \in SwapAmounts
             PROVE  /\ mode = "ExactOut" => CanAsk(TokenOut(dir), amount)
                    /\ pool.liquidity > 0 /\ CanSwap(FALSE) =>
                       \A q \in Quotes(mode, dir, amount) :
                         LET sent == Sent(mode, dir, amount, q)
                         IN /\ CanAsk(TokenIn(dir), q.paid)
                            /\ Arriving(TokenIn(dir), sent) = q.paid
                            /\ mode = "PartialFill" => sent <= amount
                            /\ mode = "ExactOut" =>
                                 Arriving(TokenOut(dir), q.received) = amount
  BY DEF QuotesAreKept
<1>1. TokenIn(dir) \in Tokens /\ TokenOut(dir) \in Tokens /\ amount \in Nat
  BY PoolAssumption DEF TokenIn, TokenOut, Tokens
<1>2. CanAsk(TokenOut(dir), amount)
  BY <1>1, TransfersAreNat
<1>3. ASSUME pool.liquidity > 0, NEW q \in Quotes(mode, dir, amount)
      PROVE  /\ CanAsk(TokenIn(dir), q.paid)
             /\ Arriving(TokenIn(dir), Sent(mode, dir, amount, q)) = q.paid
             /\ mode = "PartialFill" => Sent(mode, dir, amount, q) <= amount
             /\ mode = "ExactOut" => Arriving(TokenOut(dir), q.received) = amount
  <2>1. /\ q.paid \in Nat
        /\ Arriving(TokenIn(dir), Sent(mode, dir, amount, q)) = q.paid
        /\ mode = "ExactOut" => q.received = Asked(TokenOut(dir), amount)
    BY <1>1, <1>3, QuoteIsSound DEF Sound
  <2>2. CanAsk(TokenIn(dir), q.paid)
    BY <1>1, <2>1, TransfersAreNat
  <2>3. ASSUME mode = "ExactOut" PROVE Arriving(TokenOut(dir), q.received) = amount
    BY <1>1, <2>1, <2>3, TransfersAreNat
  <2>4. ASSUME mode = "PartialFill" PROVE Sent(mode, dir, amount, q) <= amount
    <3> DEFINE in == Arriving(TokenIn(dir), amount)
               ns == [any_amount \in Nat |-> {FeeNumerator}]
    <3>1. q \in PartialInput(pool, dir, in, FeeNumerator, ns)
      BY <2>4 DEF Quotes
    <3>2. in \in Nat /\ FeeNumerator \in Numerator /\ Tradable(pool)
      BY <1>1, <1>3, TransfersAreNat, FeeNumeratorInRange
         DEF TypeOK, PoolAccount, Tradable
    <3>3. ns \in [Nat -> SUBSET Numerator] /\ \A x \in Nat : ns[x] = {FeeNumerator}
      BY <3>2
    <3> HIDE DEF in, ns
    <3>4. q.paid \in 0 .. in
      BY <2>1, <3>1, <3>2, <3>3, PartialInputWithin
    <3>5. TransferFee[TokenIn(dir)] \in TransferFees
      BY <1>1, PoolAssumption
    <3>6. Included(TransferFee[TokenIn(dir)], q.paid) <= amount
      BY <1>1, <3>4, <3>5, OfferIsEnough DEF PartNeverCostsMore, in, Arriving
    <3> QED
      BY <2>4, <3>6 DEF Sent, Asked
  <2> QED
    BY <2>1, <2>2, <2>3, <2>4
<1> QED
  BY <1>2, <1>3

\* Whatever the pool quotes: no trade fails because a transfer fee cannot be
\* inverted, what arrives is what the quote counts on, a partial fill never
\* takes more than was offered, and an exact output arrives in full (token.rs,
\* pool.rs, swap_exact_in.rs, swap_partial_fill.rs, swap_exact_out.rs).
THEOREM QuotesKept == Spec => []QuotesAreKept
<1>1. PoolInv => QuotesAreKept
  BY QuotesOfAState DEF PoolInv
<1> QED
  BY <1>1, Invariance, PTL

-----------------------------------------------------------------------------
(* Fees once earned stay earned.                                           *)

LEMMA EntitledIs ==
    ASSUME NEW p \in Positions, NEW t \in Tokens
    PROVE  /\ Entitled(p)[t]
                = Share(position[p], pool.fee_per_liquidity, claimed[p], t)
           /\ Entitled(p)[t]'
                = Share(position'[p], pool'.fee_per_liquidity, claimed'[p], t)
<1>1. Entitled(p)[t] = Share(position[p], pool.fee_per_liquidity, claimed[p], t)
  BY DEF Entitled, Owed, Plus, Share
<1>2. Entitled(p)[t]'
        = Share(position'[p], pool'.fee_per_liquidity, claimed'[p], t)
  BY DEF Entitled, Owed, Plus, Share
<1> QED
  BY <1>1, <1>2

LEMMA ShareType ==
    ASSUME NEW pos \in PositionAccount, NEW F \in Amount, NEW paid \in Amount,
           \A t \in Tokens : pos.checkpoint[t] <= F[t], NEW t \in Tokens
    PROVE  Share(pos, F, paid, t) \in Nat
BY AccruedType DEF Share, PositionAccount, Amount

LEMMA ShareGrows ==
    ASSUME NEW pos \in PositionAccount, NEW F \in Amount, NEW G \in Amount,
           NEW paid \in Amount, \A t \in Tokens : pos.checkpoint[t] <= F[t],
           \A t \in Tokens : F[t] <= G[t], NEW t \in Tokens
    PROVE  Share(pos, F, paid, t) <= Share(pos, G, paid, t)
<1> DEFINE l == TotalLiquidity(pos)
           c == pos.checkpoint[t]
<1>1. l \in Nat /\ c \in Nat /\ F[t] \in Nat /\ G[t] \in Nat
      /\ c <= F[t] /\ F[t] <= G[t]
  BY LiquidityIsNat DEF PositionAccount, Amount
<1>2. /\ Accrued(pos, F)[t] = (l * (F[t] - c)) \div LIQUIDITY_UNIT
      /\ Accrued(pos, G)[t] = (l * (G[t] - c)) \div LIQUIDITY_UNIT
  BY DEF Accrued
<1> HIDE DEF l, c
<1> DEFINE a == F[t] - c
           b == G[t] - c
<1>3. a \in Nat /\ b \in Nat /\ a <= b
  BY <1>1
<1> HIDE DEF a, b
<1>4. a * l <= b * l
  BY <1>1, <1>3, Monotone
<1>5. l * a \in Nat /\ l * b \in Nat /\ l * a = a * l /\ l * b = b * l
  BY <1>1, <1>3
<1>6. (l * a) \div LIQUIDITY_UNIT <= (l * b) \div LIQUIDITY_UNIT
  BY <1>4, <1>5, DivMonotone, PoolAssumption
<1>7. Accrued(pos, F)[t] <= Accrued(pos, G)[t]
  BY <1>2, <1>6 DEF a, b
<1>8. /\ Accrued(pos, F)[t] \in Nat /\ Accrued(pos, G)[t] \in Nat
      /\ pos.pending[t] \in Nat /\ paid[t] \in Nat
  <2>1. \A s \in Tokens : pos.checkpoint[s] <= G[s]
    BY DEF PositionAccount, Amount
  <2> QED
    BY <2>1, AccruedType DEF PositionAccount, Amount
<1> QED
  BY <1>7, <1>8 DEF Share

\* What one step does to the sum and to the single ones, in a form that does
\* not mention the step: nothing, a division between two, or growth.
LEMMA SharesOfAStep ==
    ASSUME PoolInv, [Next]_vars, NEW t \in Tokens
    PROVE  LET share == [p \in Positions |->
                            Share(position[p], pool.fee_per_liquidity, claimed[p], t)]
               share_after == [p \in Positions |->
                            Share(position'[p], pool'.fee_per_liquidity, claimed'[p], t)]
           IN  /\ IF pool'.fee_per_liquidity = pool.fee_per_liquidity
                  THEN Total(share_after, Positions) = Total(share, Positions)
                  ELSE Total(share_after, Positions) >= Total(share, Positions)
               /\ Split \/ \A p \in Positions : share_after[p] >= share[p]
<1> DEFINE F == pool.fee_per_liquidity
           G == pool'.fee_per_liquidity
           share == [p \in Positions |-> Share(position[p], F, claimed[p], t)]
           share_after == [p \in Positions |-> Share(position'[p], G, claimed'[p], t)]
<1> DEFINE Goal == /\ IF G = F
                      THEN Total(share_after, Positions) = Total(share, Positions)
                      ELSE Total(share_after, Positions) >= Total(share, Positions)
                   /\ Split \/ \A p \in Positions : share_after[p] >= share[p]
<1> SUFFICES Goal
  OBVIOUS
<1>1. PoolInv' /\ (SharesKept \/ Split \/ Trade)
  BY StepKeeps
<1>2. /\ IsFiniteSet(Positions) /\ F \in Amount /\ G \in Amount
      /\ \A p \in Positions :
           /\ position[p] \in PositionAccount /\ claimed[p] \in Amount
           /\ \A s \in Tokens : position[p].checkpoint[s] <= F[s]
      /\ \A p \in Positions :
           /\ position'[p] \in PositionAccount /\ claimed'[p] \in Amount
           /\ \A s \in Tokens : position'[p].checkpoint[s] <= G[s]
  BY <1>1, PoolAssumption DEF PoolInv, TypeOK, PoolAccount, FeesBacked
<1> HIDE DEF F, G
<1>3. \A p \in Positions : share[p] \in Nat /\ share_after[p] \in Nat
  BY <1>2, ShareType
<1>4. CASE SharesKept
  <2>1. G = F /\ \A p \in Positions : share_after[p] = share[p]
    BY <1>4 DEF SharesKept, F, G
  <2> HIDE DEF share, share_after
  <2>2. Total(share_after, Positions) = Total(share, Positions)
    BY <1>2, <1>3, <2>1, SumEq
  <2> QED
    BY <1>3, <2>1, <2>2
<1>5. CASE Split
  <2>1. PICK first \in Positions, second \in Positions, n \in SplitNumerators :
           SplitPosition(first, second, n)
    BY <1>5 DEF Split
  <2>2. /\ UNCHANGED <<pool, claimed>> /\ first # second
        /\ \A x \in Positions \ {first, second} : position'[x] = position[x]
        /\ Share(position'[first], F, claimed[first], t)
             + Share(position'[second], F, claimed[second], t)
           = Share(position[first], F, claimed[first], t)
             + Share(position[second], F, claimed[second], t)
    BY <2>1, SplitKeeps DEF F
  <2>3. G = F
    BY <2>2 DEF F, G
  <2>4. /\ \A x \in Positions : x \notin {first, second} => share_after[x] = share[x]
        /\ share_after[first] + share_after[second] = share[first] + share[second]
    BY <2>2, <2>3
  <2> HIDE DEF share, share_after
  <2>5. /\ Total(share, Positions) \in Int
        /\ Total(share_after, Positions)
             = Total(share, Positions) + (share_after[first] - share[first])
                                       + (share_after[second] - share[second])
    <3>1. /\ share_after[first] \in Int /\ share_after[second] \in Int
          /\ \A z \in Positions :
                share[z] \in Int /\ (z \notin {first, second} => share_after[z] = share[z])
      BY <1>3, <2>4
    <3> QED
      BY <1>2, <2>2, <3>1, SumTwo
  <2>6. Total(share_after, Positions) = Total(share, Positions)
    BY <1>3, <2>4, <2>5
  <2> QED
    BY <1>5, <2>3, <2>6
<1>6. CASE Trade
  <2>1. /\ UNCHANGED <<position, claimed>>
        /\ \A s \in Tokens : F[s] <= G[s]
    BY <1>6, SwapKeeps DEF Trade, F, G
  <2>2. \A p \in Positions : share[p] <= share_after[p]
    BY <1>2, <2>1, ShareGrows
  <2>3. ASSUME G = F PROVE \A p \in Positions : share_after[p] = share[p]
    BY <2>1, <2>3
  <2> HIDE DEF share, share_after
  <2>4. /\ Total(share, Positions) <= Total(share_after, Positions)
        /\ Total(share, Positions) \in Int /\ Total(share_after, Positions) \in Int
    BY <1>2, <1>3, <2>2, SumLe, SumInt
  <2>5. G = F => Total(share_after, Positions) = Total(share, Positions)
    BY <1>2, <1>3, <2>3, SumEq
  <2> QED
    BY <1>3, <2>2, <2>4, <2>5
<1> QED
  BY <1>1, <1>4, <1>5, <1>6

\* Only trades add to what the positions together are or were owed, nothing
\* takes from it, and no step but a split takes from a single position
\* (position.rs, ix_swap.rs, ix_split_position.rs, ix_claim_position_fee.rs).
THEOREM FeesStayEarned == Spec => FeesStay
<1> DEFINE now(t) == [p \in Positions |-> Entitled(p)[t]]
           Step == /\ \A t \in Tokens :
                        IF pool'.fee_per_liquidity = pool.fee_per_liquidity
                        THEN Total(now(t), Positions)' = Total(now(t), Positions)
                        ELSE Total(now(t), Positions)' >= Total(now(t), Positions)
                   /\ \/ Split
                      \/ \A p \in Positions, t \in Tokens :
                            Entitled(p)[t]' >= Entitled(p)[t]
<1>1. ASSUME PoolInv, [Next]_vars PROVE Step
  <2> DEFINE share(t) == [p \in Positions |->
                  Share(position[p], pool.fee_per_liquidity, claimed[p], t)]
             share_after(t) == [p \in Positions |->
                  Share(position'[p], pool'.fee_per_liquidity, claimed'[p], t)]
  <2>1. ASSUME NEW t \in Tokens
        PROVE  /\ IF pool'.fee_per_liquidity = pool.fee_per_liquidity
                  THEN Total(share_after(t), Positions) = Total(share(t), Positions)
                  ELSE Total(share_after(t), Positions) >= Total(share(t), Positions)
               /\ Split \/ \A p \in Positions : share_after(t)[p] >= share(t)[p]
    BY <1>1, SharesOfAStep
  <2>2. ASSUME NEW t \in Tokens
        PROVE  now(t) = share(t) /\ now(t)' = share_after(t)
    BY EntitledIs
  <2>3. ASSUME NEW t \in Tokens
        PROVE  IF pool'.fee_per_liquidity = pool.fee_per_liquidity
               THEN Total(now(t), Positions)' = Total(now(t), Positions)
               ELSE Total(now(t), Positions)' >= Total(now(t), Positions)
    <3>1. Total(now(t), Positions)' = Total(now(t)', Positions)
      OBVIOUS
    <3> QED
      BY <2>1, <2>2, <3>1
  <2>4. \/ Split
        \/ \A p \in Positions, t \in Tokens : Entitled(p)[t]' >= Entitled(p)[t]
    BY <2>1, EntitledIs
  <2> QED
    BY <2>3, <2>4
<1>2. PoolInv /\ [Next]_vars => [Step]_vars
  BY <1>1
<1> QED
  BY <1>2, Invariance, PTL DEF Spec, FeesStay
=============================================================================
