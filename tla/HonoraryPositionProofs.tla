----------------------- MODULE HonoraryPositionProofs -----------------------
(***************************************************************************)
(* The two programs together, for every pool, roster of positions,         *)
(* schedule and sequence of steps: the router's steps are steps of the     *)
(* pool, so that all that is proved of the pool holds here; the honorary   *)
(* position never earns a base token; a claim finds what it is owed in the *)
(* pool's vault; and the fees arrive as the distribution expects.          *)
(***************************************************************************)
EXTENDS HonoraryPosition, CpAmmPoolProofs

-----------------------------------------------------------------------------
(* The router only does to the pool what any owner may do.                 *)

LEMMA RouterStepIsAPoolStep ==
    ASSUME [HonoraryNext]_allVars
    PROVE  [Next]_vars
<1>1. Honorary \in Positions
  BY HonoraryAssumption
<1>2. ASSUME NEW quote_mint \in Mints, NEW base_mint \in Mints,
             InitializeHonoraryPosition(quote_mint, base_mint)
      PROVE  OwnerStep(Honorary)
  BY <1>2 DEF InitializeHonoraryPosition, OwnerStep
<1>3. ASSUME NEW base_mint \in Mints, ClaimFees(base_mint)
      PROVE  OwnerStep(Honorary)
  BY <1>3 DEF ClaimFees, OwnerStep
<1>4. ASSUME NEW base_mint \in Mints, NEW delta \in Liquidities,
             NEW threshold \in Thresholds,
             AddHonoraryLiquidity(base_mint, delta, threshold)
      PROVE  OwnerStep(Honorary)
  BY <1>4 DEF AddHonoraryLiquidity, OwnerStep
<1>5. ASSUME NEW amount, PayOut(amount)
      PROVE  UNCHANGED vars
  BY <1>5 DEF PayOut
<1>6. CASE RouterStep
  BY <1>1, <1>2, <1>3, <1>4, <1>5, <1>6 DEF RouterStep, Next
<1>7. CASE OthersStep
  BY <1>7 DEF OthersStep, Next, Split
<1>8. CASE UNCHANGED allVars
  BY <1>8 DEF allVars
<1> QED
  BY <1>6, <1>7, <1>8 DEF HonoraryNext

\* Whatever fee_router does, the pool sees a behaviour of a pool: every
\* theorem of CpAmmPoolProofs holds of the two programs together.
THEOREM RouterUsesThePool == HonorarySpec => Spec
<1>1. HonoraryInit => Init
  BY DEF HonoraryInit
<1>2. [HonoraryNext]_allVars => [Next]_vars
  BY RouterStepIsAPoolStep
<1> QED
  BY <1>1, <1>2, PTL DEF HonorarySpec, Spec

-----------------------------------------------------------------------------
(* No base tokens.                                                         *)

\* A pool that collects fees in token B only has never charged one in A.
\* With FeesCovered nobody is owed any.
BaseFree == pool.collect_fee_mode = "OnlyB" => earned["a"] = 0

LEMMA ModeStays ==
    ASSUME PoolInv, [Next]_vars
    PROVE  /\ pool'.collect_fee_mode = pool.collect_fee_mode
           /\ pool.collect_fee_mode = "OnlyB" => earned'["a"] = earned["a"]
<1> DEFINE Same == pool'.collect_fee_mode = pool.collect_fee_mode /\ earned' = earned
<1>1. pool \in PoolAccount /\ earned \in Amount
  BY DEF PoolInv, TypeOK
<1>2. CASE UNCHANGED vars
  BY <1>2 DEF vars
<1>3. ASSUME NEW p \in Positions, OwnerStep(p) PROVE Same
  <2>1. CASE CreatePosition(p)
    BY <2>1 DEF CreatePosition
  <2>2. CASE ClosePosition(p)
    BY <2>2 DEF ClosePosition
  <2>3. CASE ClaimPositionFee(p)
    BY <2>3 DEF ClaimPositionFee
  <2>4. ASSUME NEW delta, AddLiquidity(p, delta) PROVE Same
    BY <1>1, <2>4 DEF AddLiquidity, PoolAccount
  <2>5. ASSUME NEW delta, PermanentLockPosition(p, delta) PROVE Same
    BY <1>1, <2>5 DEF PermanentLockPosition, PoolAccount
  <2>6. ASSUME NEW delta, RemoveLiquidity(p, delta) PROVE Same
    BY <1>1, <2>6 DEF RemoveLiquidity, PoolAccount
  <2>7. ASSUME NEW v, NEW s, LockPosition(p, v, s) PROVE Same
    BY <2>7 DEF LockPosition
  <2> QED
    BY <1>3, <2>1, <2>2, <2>3, <2>4, <2>5, <2>6, <2>7 DEF OwnerStep
<1>4. CASE Split
  BY <1>4 DEF Split, SplitPosition
<1>5. ASSUME NEW v, RefreshVesting(v) PROVE Same
  BY <1>5 DEF RefreshVesting
<1>6. ASSUME NEW caps, ClaimProtocolFee(caps) \/ ClaimPartnerFee(caps) PROVE Same
  BY <1>1, <1>6 DEF ClaimProtocolFee, ClaimPartnerFee, PoolAccount
<1>7. CASE SetPoolStatus
  BY <1>1, <1>7 DEF SetPoolStatus, PoolAccount
<1>8. CASE Tick
  BY <1>8 DEF Tick
<1>9. ASSUME NEW mode, NEW dir, NEW amount, NEW whitelisted, NEW has_referral,
             Swap(mode, dir, amount, whitelisted, has_referral)
      PROVE  /\ pool'.collect_fee_mode = pool.collect_fee_mode
             /\ pool.collect_fee_mode = "OnlyB" => earned'["a"] = earned["a"]
  <2> DEFINE t == FeeToken(pool.collect_fee_mode, dir)
  <2>1. PICK q \in Quotes(mode, dir, amount) :
           LET split == SplitFees(pool.fees, q.fee, has_referral)
           IN /\ pool' = [pool EXCEPT
                            !.sqrt_price = q.next_sqrt_price,
                            !.fee_per_liquidity[t] =
                                @ + PerLiquidity(split.trading, pool.liquidity),
                            !.protocol_fee[t] = @ + split.protocol,
                            !.partner_fee[t] = @ + split.partner]
              /\ earned' = Plus(earned, Only(t, split.trading))
    BY <1>9 DEF Swap
  <2> DEFINE price == q.next_sqrt_price
             split == SplitFees(pool.fees, q.fee, has_referral)
             d == PerLiquidity(split.trading, pool.liquidity)
  <2>2. /\ pool' = [pool EXCEPT !.sqrt_price = price, !.fee_per_liquidity[t] = @ + d,
                                !.protocol_fee[t] = @ + split.protocol,
                                !.partner_fee[t] = @ + split.partner]
        /\ earned' = Plus(earned, Only(t, split.trading))
    BY <2>1
  <2> HIDE DEF price, split, d
  <2>3. pool'.collect_fee_mode = pool.collect_fee_mode
    BY <1>1, <2>2 DEF PoolAccount
  <2>4. ASSUME pool.collect_fee_mode = "OnlyB" PROVE earned'["a"] = earned["a"]
    <3>1. t = "b"
      BY <2>4 DEF FeeToken
    <3>2. Only(t, split.trading)["a"] = 0 /\ earned["a"] \in Nat
      BY <1>1, <3>1 DEF Only, None, Tokens, Amount
    <3> QED
      BY <2>2, <3>2 DEF Plus, Tokens
  <2> QED
    BY <2>3, <2>4
<1> QED
  BY <1>2, <1>3, <1>4, <1>5, <1>6, <1>7, <1>8, <1>9 DEF Next, PoolStep, Trade

\* What the position is owed, in the pool's terms
LEMMA DueIs ==
    ASSUME PoolInv
    PROVE  /\ \A t \in Tokens : Due(t) = Owed(Honorary)[t] /\ Due(t) \in Nat
           /\ Owed(Honorary) \in Amount
<1>1. /\ Owed(Honorary) \in Amount
      /\ Owed(Honorary)
           = UpdateFee(position[Honorary], pool.fee_per_liquidity).pending
  BY OwedIs, HonoraryAssumption DEF PoolInv
<1> QED
  BY <1>1 DEF Due, Amount

\* The position is owed no more than was charged and not yet paid, of which
\* the pool's vaults hold all.
LEMMA DueIsHeld ==
    ASSUME PoolInv, NEW t \in Tokens
    PROVE  Due(t) <= earned[t] /\ Due(t) <= vault[t]
<1> DEFINE owed == [p \in Positions |-> Owed(p)[t]]
           c == [p \in Positions |-> claimed[p][t]]
<1>1. IsFiniteSet(Positions) /\ Honorary \in Positions
  BY PoolAssumption, HonoraryAssumption
<1>2. \A p \in Positions : owed[p] \in Nat /\ c[p] \in Nat
  BY OwedIs DEF PoolInv, TypeOK, Amount
<1>3. Due(t) = owed[Honorary] /\ Due(t) \in Nat
  BY <1>1, DueIs
<1>4. FeesHeld[t] = earned[t] - Total(c, Positions)
  BY DEF FeesHeld
<1>5. Total(owed, Positions) <= FeesHeld[t]
  BY BackedIsCovered DEF PoolInv, FeesCovered
<1> HIDE DEF owed, c
<1>6. owed[Honorary] <= Total(owed, Positions) /\ Total(owed, Positions) \in Nat
  BY <1>1, <1>2, SumTerm, SumNat
<1>7. Total(c, Positions) \in Nat
  BY <1>1, <1>2, SumNat
<1>8. earned[t] \in Nat /\ vault[t] \in Nat
  BY DEF PoolInv, TypeOK, Amount
<1>9. FeesHeld[t] <= vault[t]
  <2>1. /\ pool.protocol_fee[t] \in Nat /\ pool.partner_fee[t] \in Nat
        /\ pool.liquidity \in Nat
    BY DEF PoolInv, TypeOK, PoolAccount, Amount
  <2>2. Amounts(pool.liquidity, "Down")[t] \in Nat
    BY <2>1, AmountsType DEF PoolInv, Amount
  <2>3. vault[t] >= Amounts(pool.liquidity, "Down")[t] + FeesHeld[t]
                      + pool.protocol_fee[t] + pool.partner_fee[t]
    BY DEF PoolInv, Solvent
  <2>4. FeesHeld[t] \in Int
    BY <1>4, <1>7, <1>8
  <2> QED
    BY <1>8, <2>1, <2>2, <2>3, <2>4
<1>10. FeesHeld[t] <= earned[t]
  BY <1>4, <1>7, <1>8
<1> QED
  BY <1>3, <1>4, <1>5, <1>6, <1>7, <1>8, <1>9, <1>10

-----------------------------------------------------------------------------
(* The inductive invariant.                                                *)

QuoteIsB == owner # NoOwner => owner.quote_mint = "b" /\ pool.collect_fee_mode = "OnlyB"

HonoraryInv == PoolInv /\ HonoraryTypeOK /\ BaseFree /\ QuoteIsB

\* What the vault has recorded as claimed
Received == IF owner = NoOwner THEN 0 ELSE owner.total_fees_claimed

LEMMA DueShare ==
    ASSUME PoolInv, PoolInv', NEW t \in Tokens
    PROVE  /\ Due(t) + claimed[Honorary][t]
                = Share(position[Honorary], pool.fee_per_liquidity, claimed[Honorary], t)
           /\ Due(t)' + claimed'[Honorary][t]
                = Share(position'[Honorary], pool'.fee_per_liquidity,
                        claimed'[Honorary], t)
           /\ Due(t) \in Nat /\ claimed[Honorary][t] \in Nat
           /\ Due(t)' \in Nat /\ claimed'[Honorary][t] \in Nat
<1>1. Honorary \in Positions
  BY HonoraryAssumption
<1>2. /\ position[Honorary] \in PositionAccount /\ pool.fee_per_liquidity \in Amount
      /\ claimed[Honorary] \in Amount
      /\ \A s \in Tokens : position[Honorary].checkpoint[s] <= pool.fee_per_liquidity[s]
  BY <1>1 DEF PoolInv, TypeOK, PoolAccount, FeesBacked
<1>3. /\ position'[Honorary] \in PositionAccount /\ pool'.fee_per_liquidity \in Amount
      /\ claimed'[Honorary] \in Amount
      /\ \A s \in Tokens :
            position'[Honorary].checkpoint[s] <= pool'.fee_per_liquidity[s]
  BY <1>1 DEF PoolInv, TypeOK, PoolAccount, FeesBacked
<1>4. Share(position[Honorary], pool.fee_per_liquidity, claimed[Honorary], t)
        = Due(t) + claimed[Honorary][t]
  BY <1>2, SettlingKeepsShares DEF Due
<1>5. Share(position'[Honorary], pool'.fee_per_liquidity, claimed'[Honorary], t)
        = Due(t)' + claimed'[Honorary][t]
  BY <1>3, SettlingKeepsShares DEF Due
<1>6. /\ UpdateFee(position[Honorary], pool.fee_per_liquidity).pending[t] \in Nat
      /\ UpdateFee(position'[Honorary], pool'.fee_per_liquidity).pending[t] \in Nat
  BY <1>2, <1>3, SettledType DEF PositionAccount, Amount
<1>7. Due(t) \in Nat /\ Due(t)' \in Nat
  BY <1>6 DEF Due
<1> QED
  BY <1>2, <1>3, <1>4, <1>5, <1>7 DEF Amount

LEMMA DueStays ==
    ASSUME PoolInv, PoolInv', SharesKept, claimed'[Honorary] = claimed[Honorary],
           NEW t \in Tokens
    PROVE  Due(t)' = Due(t)
<1>1. Share(position'[Honorary], pool'.fee_per_liquidity, claimed'[Honorary], t)
        = Share(position[Honorary], pool.fee_per_liquidity, claimed[Honorary], t)
  BY HonoraryAssumption DEF SharesKept
<1>2. /\ Due(t) + claimed[Honorary][t] = Due(t)' + claimed[Honorary][t]
      /\ Due(t) \in Nat /\ claimed[Honorary][t] \in Nat /\ Due(t)' \in Nat
  BY <1>1, DueShare
<1> QED
  BY <1>2

\* What every step keeps, whoever takes it
LEMMA PoolSideKeeps ==
    ASSUME HonoraryInv, [HonoraryNext]_allVars
    PROVE  /\ PoolInv' /\ TypeOK' /\ BaseFree'
           /\ pool'.collect_fee_mode = pool.collect_fee_mode
<1>1. PoolInv /\ [Next]_vars
  BY RouterStepIsAPoolStep DEF HonoraryInv
<1>2. PoolInv'
  BY <1>1, StepKeeps
<1>3. /\ pool'.collect_fee_mode = pool.collect_fee_mode
      /\ pool.collect_fee_mode = "OnlyB" => earned'["a"] = earned["a"]
  BY <1>1, ModeStays
<1> QED
  BY <1>2, <1>3 DEF HonoraryInv, BaseFree, PoolInv

-----------------------------------------------------------------------------
(* The router's steps.                                                     *)

\* Each keeps the invariant, and the vault records what a claim brings.
LEMMA InitializeKeeps ==
    ASSUME HonoraryInv, NEW quote_mint \in Mints, NEW base_mint \in Mints,
           InitializeHonoraryPosition(quote_mint, base_mint)
    PROVE  HonoraryInv' /\ UNCHANGED <<Due("b"), Received>>
<1>1. PoolInv' /\ TypeOK' /\ BaseFree' /\ pool'.collect_fee_mode = pool.collect_fee_mode
  BY PoolSideKeeps DEF HonoraryNext, RouterStep
<1>2. /\ owner = NoOwner /\ quote_mint = "b" /\ pool.collect_fee_mode = "OnlyB"
      /\ owner' = [quote_mint |-> quote_mint, base_mint |-> base_mint,
                   total_fees_claimed |-> 0]
      /\ UNCHANGED <<treasury, paid>>
      /\ CreatePosition(Honorary)
  BY DEF InitializeHonoraryPosition, QuoteOnlyPool
<1>3. owner' \in OwnerAccount
  BY <1>2 DEF OwnerAccount
<1>4. HonoraryTypeOK'
  BY <1>1, <1>2, <1>3 DEF HonoraryInv, HonoraryTypeOK
<1>5. QuoteIsB'
  BY <1>1, <1>2 DEF QuoteIsB
<1>6. Received' = 0 /\ Received = 0
  BY <1>2 DEF Received
<1>7. Due("b")' = Due("b")
  <2>1. SharesKept /\ claimed' = claimed
    BY <1>2, CreateKeeps, HonoraryAssumption DEF HonoraryInv, CreatePosition
  <2> QED
    BY <1>1, <2>1, DueStays DEF HonoraryInv, Tokens
<1> QED
  BY <1>1, <1>4, <1>5, <1>6, <1>7 DEF HonoraryInv

LEMMA AddHonoraryKeeps ==
    ASSUME HonoraryInv, NEW base_mint \in Mints, NEW delta \in Liquidities,
           NEW threshold \in Thresholds,
           AddHonoraryLiquidity(base_mint, delta, threshold)
    PROVE  HonoraryInv' /\ UNCHANGED <<Due("b"), Received>>
<1> DEFINE funded == FundTreasury(base_mint, threshold)
           cost == Amounts(delta, "Up")
<1>1. PoolInv' /\ TypeOK' /\ BaseFree' /\ pool'.collect_fee_mode = pool.collect_fee_mode
  BY PoolSideKeeps DEF HonoraryNext, RouterStep
<1>2. /\ owner # NoOwner /\ base_mint \in {owner.quote_mint, owner.base_mint}
      /\ \A t \in Tokens : cost[t] <= funded[t]
      /\ treasury' = [m \in Mints |-> IF m \in Tokens THEN funded[m] - cost[m]
                                                      ELSE funded[m]]
      /\ AddLiquidity(Honorary, delta)
      /\ UNCHANGED <<owner, paid>>
  BY DEF AddHonoraryLiquidity, AccountsFit
<1>3. treasury' \in [Mints -> Nat]
  <2>1. owner \in OwnerAccount /\ treasury \in [Mints -> Nat]
    BY <1>2 DEF HonoraryInv, HonoraryTypeOK
  <2>2. threshold["a"] \in Nat /\ threshold["b"] \in Nat
    BY HonoraryAssumption DEF Tokens
  <2>3. owner.quote_mint \in Mints /\ base_mint \in Mints
    BY <2>1 DEF OwnerAccount
  <2>4. funded \in [Mints -> Nat]
    <3> DEFINE first == [treasury EXCEPT ![owner.quote_mint] = @ + threshold["a"]]
    <3>1. first \in [Mints -> Nat]
      BY <2>1, <2>2, <2>3
    <3>2. funded = [first EXCEPT ![base_mint] = @ + threshold["b"]]
      BY DEF FundTreasury
    <3> HIDE DEF first, funded
    <3> QED
      BY <2>2, <2>3, <3>1, <3>2
  <2>5. cost \in Amount
    BY PoolAssumption, AmountsType DEF HonoraryInv, PoolInv
  <2> HIDE DEF funded, cost
  <2>6. ASSUME NEW m \in Mints
        PROVE  (IF m \in Tokens THEN funded[m] - cost[m] ELSE funded[m]) \in Nat
    <3>1. funded[m] \in Nat /\ (m \in Tokens => cost[m] \in Nat /\ cost[m] <= funded[m])
      BY <1>2, <2>4, <2>5 DEF Amount
    <3> QED
      BY <3>1
  <2> QED
    BY <1>2, <2>6
<1>4. HonoraryTypeOK'
  BY <1>1, <1>2, <1>3 DEF HonoraryInv, HonoraryTypeOK
<1>5. QuoteIsB'
  BY <1>1, <1>2 DEF HonoraryInv, QuoteIsB
<1>6. Received' = Received
  BY <1>2 DEF Received
<1>7. Due("b")' = Due("b")
  <2>1. SharesKept /\ claimed' = claimed
    BY <1>2, AddKeeps, HonoraryAssumption DEF HonoraryInv, AddLiquidity
  <2> QED
    BY <1>1, <2>1, DueStays DEF HonoraryInv, Tokens
<1> QED
  BY <1>1, <1>4, <1>5, <1>6, <1>7 DEF HonoraryInv

\* A claim records exactly what the position was owed, and leaves nothing.
LEMMA ClaimFeesKeeps ==
    ASSUME HonoraryInv, NEW base_mint \in Mints, ClaimFees(base_mint)
    PROVE  /\ HonoraryInv'
           /\ Received' = Received + Due("b") /\ Due("b")' = 0
<1>1. PoolInv' /\ TypeOK' /\ BaseFree' /\ pool'.collect_fee_mode = pool.collect_fee_mode
  BY PoolSideKeeps DEF HonoraryNext, RouterStep
<1>2. /\ owner # NoOwner
      /\ ClaimPositionFee(Honorary)
      /\ treasury' = [m \in Mints |-> IF m \in Tokens THEN treasury[m] + Due(m)
                                                      ELSE treasury[m]]
      /\ owner' = [owner EXCEPT !.total_fees_claimed =
                      @ + QuoteClaimed(treasury[owner.quote_mint],
                                       treasury'[owner.quote_mint])]
      /\ UNCHANGED paid
  BY DEF ClaimFees, AccountsFit
<1>3. /\ owner \in OwnerAccount /\ treasury \in [Mints -> Nat]
      /\ owner.quote_mint = "b" /\ owner.total_fees_claimed \in Nat
  BY <1>2 DEF HonoraryInv, HonoraryTypeOK, QuoteIsB, OwnerAccount
<1>4. \A t \in Tokens : Due(t) \in Nat
  BY DueIs DEF HonoraryInv
<1>5. "b" \in Tokens /\ "b" \in Mints
  BY HonoraryAssumption DEF Tokens
<1>6. treasury' \in [Mints -> Nat]
  <2>1. \A m \in Mints : (IF m \in Tokens THEN treasury[m] + Due(m)
                                          ELSE treasury[m]) \in Nat
    BY <1>3, <1>4
  <2> QED
    BY <1>2, <2>1
<1>7. owner' = [owner EXCEPT !.total_fees_claimed = owner.total_fees_claimed + Due("b")]
  <2>1. QuoteClaimed(treasury[owner.quote_mint], treasury'[owner.quote_mint]) = Due("b")
    BY <1>2, <1>3, <1>4, <1>5 DEF QuoteClaimed
  <2> QED
    BY <1>2, <1>3, <2>1 DEF OwnerAccount
<1>8. /\ owner' \in OwnerAccount /\ owner'.quote_mint = "b"
      /\ owner'.total_fees_claimed = owner.total_fees_claimed + Due("b")
  <2>1. owner.total_fees_claimed + Due("b") \in Nat
    BY <1>3, <1>4, <1>5
  <2> QED
    BY <1>3, <1>7, <2>1 DEF OwnerAccount
<1>9. owner' # NoOwner
  BY <1>8, HonoraryAssumption
<1>10. HonoraryTypeOK'
  BY <1>1, <1>2, <1>6, <1>8 DEF HonoraryInv, HonoraryTypeOK
<1>11. QuoteIsB'
  BY <1>1, <1>2, <1>8 DEF HonoraryInv, QuoteIsB
<1>12. Received' = Received + Due("b")
  BY <1>2, <1>8, <1>9 DEF Received
<1>13. Due("b")' = 0
  <2>1. SharesKept
    BY <1>2, ClaimFeeKeeps, HonoraryAssumption DEF HonoraryInv
  <2>2. Share(position'[Honorary], pool'.fee_per_liquidity, claimed'[Honorary], "b")
          = Share(position[Honorary], pool.fee_per_liquidity, claimed[Honorary], "b")
    BY <1>5, <2>1, HonoraryAssumption DEF SharesKept
  <2>3. claimed'[Honorary]["b"] = claimed[Honorary]["b"] + Due("b")
    BY <1>2, <1>5, HonoraryAssumption
       DEF ClaimPositionFee, Due, Plus, HonoraryInv, PoolInv, TypeOK
  <2>4. /\ Due("b") + claimed[Honorary]["b"] = Due("b")' + claimed'[Honorary]["b"]
        /\ Due("b") \in Nat /\ claimed[Honorary]["b"] \in Nat
        /\ Due("b")' \in Nat /\ claimed'[Honorary]["b"] \in Nat
    BY <1>1, <1>5, <2>2, DueShare DEF HonoraryInv
  <2> QED
    BY <2>3, <2>4
<1> QED
  BY <1>1, <1>10, <1>11, <1>12, <1>13 DEF HonoraryInv

LEMMA PayOutKeeps ==
    ASSUME HonoraryInv, NEW amount \in 1 .. (IF owner = NoOwner THEN 0 ELSE Undistributed),
           PayOut(amount)
    PROVE  HonoraryInv' /\ UNCHANGED <<Due("b"), Received>>
<1>1. PoolInv' /\ TypeOK' /\ BaseFree' /\ pool'.collect_fee_mode = pool.collect_fee_mode
  BY PoolSideKeeps DEF HonoraryNext, RouterStep
<1>2. /\ owner # NoOwner /\ amount > 0 /\ amount <= treasury[owner.quote_mint]
      /\ treasury' = [treasury EXCEPT ![owner.quote_mint] = @ - amount]
      /\ paid' = paid + amount
      /\ UNCHANGED <<vars, owner>>
  BY DEF PayOut
<1>3. owner \in OwnerAccount /\ treasury \in [Mints -> Nat] /\ paid \in Nat
  BY <1>2 DEF HonoraryInv, HonoraryTypeOK
<1>4. amount \in Nat /\ owner.quote_mint \in Mints
  BY <1>2, <1>3 DEF OwnerAccount
<1>5. treasury' \in [Mints -> Nat] /\ paid' \in Nat
  BY <1>2, <1>3, <1>4
<1>6. HonoraryTypeOK'
  BY <1>1, <1>2, <1>3, <1>5 DEF HonoraryTypeOK
<1>7. QuoteIsB'
  BY <1>1, <1>2 DEF HonoraryInv, QuoteIsB
<1>8. Received' = Received /\ Due("b")' = Due("b")
  BY <1>2 DEF Received, Due, vars
<1> QED
  BY <1>1, <1>6, <1>7, <1>8 DEF HonoraryInv

-----------------------------------------------------------------------------
(* The steps of others.                                                    *)

LEMMA OthersLeaveItOpenOrClosed ==
    ASSUME OthersStep, Honorary \notin open
    PROVE  Honorary \notin open'
<1>1. ASSUME NEW p \in Positions \ {Honorary}, OwnerStep(p)
      PROVE  open' \subseteq open \cup {p}
  BY <1>1 DEF OwnerStep, CreatePosition, ClosePosition, ClaimPositionFee, AddLiquidity,
              PermanentLockPosition, RemoveLiquidity, LockPosition
<1>2. ASSUME NEW first, NEW second, NEW n, SplitPosition(first, second, n)
      PROVE  open' = open
  BY <1>2 DEF SplitPosition
<1>3. ASSUME PoolStep
      PROVE  open' = open
  <2>1. ASSUME NEW v, RefreshVesting(v) PROVE open' = open
    BY <2>1 DEF RefreshVesting
  <2>2. CASE Trade
    BY <2>2 DEF Trade, Swap
  <2>3. ASSUME NEW caps, ClaimProtocolFee(caps) \/ ClaimPartnerFee(caps)
        PROVE  open' = open
    BY <2>3 DEF ClaimProtocolFee, ClaimPartnerFee
  <2>4. CASE SetPoolStatus \/ Tick
    BY <2>4 DEF SetPoolStatus, Tick
  <2> QED
    BY <1>3, <2>1, <2>2, <2>3, <2>4 DEF PoolStep
<1> QED
  BY <1>1, <1>2, <1>3 DEF OthersStep

\* Nobody else takes anything from the position.
LEMMA OthersKeep ==
    ASSUME HonoraryInv, OthersStep
    PROVE  HonoraryInv' /\ UNCHANGED Received /\ Due("b")' >= Due("b")
<1>1. PoolInv' /\ TypeOK' /\ BaseFree' /\ pool'.collect_fee_mode = pool.collect_fee_mode
  BY PoolSideKeeps DEF HonoraryNext
<1>2. UNCHANGED <<owner, treasury, paid>>
  BY DEF OthersStep, routerVars
<1>3. HonoraryTypeOK'
  <2>1. CASE owner = NoOwner /\ Honorary \notin open
    <3>1. Honorary \notin open'
      BY <2>1, OthersLeaveItOpenOrClosed
    <3> QED
      BY <1>1, <1>2, <2>1, <3>1 DEF HonoraryInv, HonoraryTypeOK
  <2>2. CASE owner \in OwnerAccount
    BY <1>1, <1>2, <2>2 DEF HonoraryInv, HonoraryTypeOK
  <2> QED
    BY <2>1, <2>2 DEF HonoraryInv, HonoraryTypeOK
<1>4. QuoteIsB'
  BY <1>1, <1>2 DEF HonoraryInv, QuoteIsB
<1>5. Received' = Received
  BY <1>2 DEF Received
<1>6. "b" \in Tokens /\ Honorary \in Positions
  BY HonoraryAssumption DEF Tokens
<1>7. PoolInv /\ Due("b") \in Nat
  BY <1>6, DueIs DEF HonoraryInv
<1>8. ASSUME SharesKept, claimed'[Honorary] = claimed[Honorary]
      PROVE  Due("b")' >= Due("b")
  BY <1>1, <1>6, <1>7, <1>8, DueStays
<1>9. ASSUME NEW p \in Positions \ {Honorary}, OwnerStep(p)
      PROVE  Due("b")' >= Due("b")
  BY <1>6, <1>7, <1>8, <1>9, OwnerKeeps
<1>10. ASSUME NEW first \in Positions \ {Honorary}, NEW second \in Positions \ {Honorary},
              NEW n \in SplitNumerators, SplitPosition(first, second, n)
       PROVE  Due("b")' >= Due("b")
  <2>1. position'[Honorary] = position[Honorary] /\ pool' = pool
    BY <1>6, <1>7, <1>10, SplitKeeps
  <2>2. Due("b")' = Due("b")
    BY <2>1 DEF Due
  <2> QED
    BY <1>7, <2>2
<1>11. ASSUME PoolStep
       PROVE  Due("b")' >= Due("b")
  <2>1. (SharesKept \/ Trade) /\ claimed' = claimed
    BY <1>7, <1>11, PoolStepKeeps
  <2>2. CASE Trade
    <3>1. /\ UNCHANGED <<position, claimed>>
          /\ \A s \in Tokens : pool.fee_per_liquidity[s] <= pool'.fee_per_liquidity[s]
      BY <1>7, <2>2, SwapKeeps DEF Trade
    <3> DEFINE pos == position[Honorary]
               F == pool.fee_per_liquidity
               G == pool'.fee_per_liquidity
               c == claimed[Honorary]
    <3>2. /\ pos \in PositionAccount /\ F \in Amount /\ G \in Amount /\ c \in Amount
          /\ \A s \in Tokens : pos.checkpoint[s] <= F[s]
      BY <1>1, <1>6, <1>7 DEF PoolInv, TypeOK, PoolAccount, FeesBacked
    <3>3. Share(pos, F, c, "b") <= Share(pos, G, c, "b")
      BY <1>6, <3>1, <3>2, ShareGrows
    <3>4. /\ Due("b") + c["b"] = Share(pos, F, c, "b")
          /\ Due("b")' + c["b"] = Share(pos, G, c, "b")
          /\ Due("b")' \in Nat /\ c["b"] \in Nat
      BY <1>1, <1>6, <1>7, <3>1, DueShare
    <3> QED
      BY <1>7, <3>3, <3>4
  <2> QED
    BY <1>8, <2>1, <2>2
<1>12. Due("b")' >= Due("b")
  BY <1>9, <1>10, <1>11 DEF OthersStep
<1> QED
  BY <1>1, <1>3, <1>4, <1>5, <1>12 DEF HonoraryInv

-----------------------------------------------------------------------------
(* All steps.                                                              *)

LEMMA HonoraryInitKeeps ==
    ASSUME HonoraryInit
    PROVE  HonoraryInv /\ Due("b") = 0 /\ Received = 0
<1>1. Init /\ owner = NoOwner /\ treasury = [m \in Mints |-> 0] /\ paid = 0
  BY DEF HonoraryInit
<1>2. PoolInv /\ earned = None /\ open = {Creator}
  BY <1>1, InitKeeps DEF Init
<1>3. HonoraryTypeOK
  BY <1>1, <1>2, HonoraryAssumption DEF HonoraryTypeOK, PoolInv
<1>4. BaseFree /\ QuoteIsB
  BY <1>1, <1>2 DEF BaseFree, QuoteIsB, None, Tokens
<1>5. Due("b") = 0
  <2>1. Due("b") <= earned["b"] /\ Due("b") \in Nat
    BY <1>2, DueIs, DueIsHeld DEF Tokens
  <2>2. earned["b"] = 0
    BY <1>2 DEF None, Tokens
  <2> QED
    BY <2>1, <2>2
<1> QED
  BY <1>1, <1>2, <1>3, <1>4, <1>5 DEF HonoraryInv, Received

\* A step of the system is a claim, an accrual, or nothing to the source.
LEMMA HonoraryStepKeeps ==
    ASSUME HonoraryInv, [HonoraryNext]_allVars
    PROVE  /\ HonoraryInv'
           /\ \/ Received' = Received + Due("b") /\ Due("b")' = 0
              \/ Received' = Received /\ Due("b")' >= Due("b")
<1> DEFINE Kept == /\ HonoraryInv'
                   /\ \/ Received' = Received + Due("b") /\ Due("b")' = 0
                      \/ Received' = Received /\ Due("b")' >= Due("b")
<1>1. Due("b") \in Nat
  BY DueIs DEF HonoraryInv, Tokens
<1>2. ASSUME NEW quote_mint \in Mints, NEW base_mint \in Mints,
             InitializeHonoraryPosition(quote_mint, base_mint)
      PROVE  Kept
  BY <1>1, <1>2, InitializeKeeps
<1>3. ASSUME NEW base_mint \in Mints, ClaimFees(base_mint)
      PROVE  Kept
  BY <1>3, ClaimFeesKeeps
<1>4. ASSUME NEW base_mint \in Mints, NEW delta \in Liquidities,
             NEW threshold \in Thresholds,
             AddHonoraryLiquidity(base_mint, delta, threshold)
      PROVE  Kept
  BY <1>1, <1>4, AddHonoraryKeeps
<1>5. ASSUME NEW amount \in 1 .. (IF owner = NoOwner THEN 0 ELSE Undistributed),
             PayOut(amount)
      PROVE  Kept
  BY <1>1, <1>5, PayOutKeeps
<1>6. CASE RouterStep
  BY <1>2, <1>3, <1>4, <1>5, <1>6 DEF RouterStep
<1>7. CASE OthersStep
  BY <1>7, OthersKeep
<1>8. CASE UNCHANGED allVars
  <2>1. UNCHANGED <<vars, owner, treasury, paid>>
    BY <1>8 DEF allVars, routerVars
  <2>2. PoolInv' /\ TypeOK' /\ BaseFree'
    BY <1>8, PoolSideKeeps
  <2>3. HonoraryTypeOK' /\ QuoteIsB'
    BY <2>1, <2>2 DEF HonoraryInv, HonoraryTypeOK, QuoteIsB, vars
  <2>4. Received' = Received /\ Due("b")' = Due("b")
    BY <2>1 DEF Received, Due, vars
  <2> QED
    BY <1>1, <2>2, <2>3, <2>4 DEF HonoraryInv
<1> QED
  BY <1>6, <1>7, <1>8 DEF HonoraryNext

LEMMA HonoraryInvariance == HonorarySpec => []HonoraryInv
<1>1. HonoraryInit => HonoraryInv
  BY HonoraryInitKeeps
<1>2. HonoraryInv /\ [HonoraryNext]_allVars => HonoraryInv'
  BY HonoraryStepKeeps
<1> QED
  BY <1>1, <1>2, PTL DEF HonorarySpec

\* Both programs' accounts stay well formed: no treasury is ever overdrawn,
\* and nobody but the router opens its position.
THEOREM HonoraryTypes == HonorarySpec => []HonoraryTypeOK
<1>1. HonoraryInv => HonoraryTypeOK
  BY DEF HonoraryInv
<1> QED
  BY <1>1, HonoraryInvariance, PTL

LEMMA InvIsQuoteOnly == HonoraryInv => QuoteFeesOnly
<1> SUFFICES ASSUME HonoraryInv, owner # NoOwner PROVE Due("a") = 0
  BY DEF QuoteFeesOnly
<1>1. earned["a"] = 0
  BY DEF HonoraryInv, BaseFree, QuoteIsB
<1>2. Due("a") \in Nat /\ Due("a") <= earned["a"]
  BY DueIs, DueIsHeld DEF HonoraryInv, Tokens
<1> QED
  BY <1>1, <1>2

\* A vault whose pool passed the preflight check never earns a base token:
\* the claim of the crank, which refuses base tokens (BaseFeesDetected), is
\* never stopped by one, whatever traders, owners, the pool's operators and
\* the router itself do, in any number of steps and for every roster of
\* positions, schedules, fees and amounts.
THEOREM NoBaseToken == HonorarySpec => []QuoteFeesOnly
BY HonoraryInvariance, InvIsQuoteOnly, PTL

LEMMA InvIsClaimable == HonoraryInv => ClaimNeverFails
<1> SUFFICES ASSUME HonoraryInv, owner # NoOwner
             PROVE  /\ owner.base_mint = "a" => AccountsFit("a")
                    /\ Due("a") = 0 /\ Due("b") <= vault["b"]
  BY DEF ClaimNeverFails
<1>1. owner.quote_mint = "b"
  BY DEF HonoraryInv, QuoteIsB
<1>2. Due("a") = 0
  BY InvIsQuoteOnly DEF QuoteFeesOnly
<1>3. Due("b") <= vault["b"]
  BY DueIsHeld DEF HonoraryInv, Tokens
<1>4. ASSUME owner.base_mint = "a" PROVE AccountsFit("a")
  BY <1>1, <1>4 DEF AccountsFit, AccountFor, Tokens
<1> QED
  BY <1>2, <1>3, <1>4

\* A vault created with the pool's own mints can always claim
\* (claim_position_fees_quote_only): its accounts are those the pool wants,
\* nothing is due in the base token, and the pool's vault holds what is due.
THEOREM ClaimsNeverFail == HonorarySpec => []ClaimNeverFails
BY HonoraryInvariance, InvIsClaimable, PTL

\* The pool and the position behind it deliver what the daily distribution
\* takes for granted: fees add up, only the program claims them, and each
\* claim records all that was due, once.
THEOREM SourceDelivers == HonorarySpec => DeliversFees
<1>1. HonoraryInit => Source!Init
  BY HonoraryInitKeeps DEF Source!Init, Received
<1>2. ASSUME HonoraryInv, [HonoraryNext]_allVars
      PROVE  [Source!Next]_(Source!vars)
  <2>1. Due("b") \in Nat
    BY <1>2, DueIs DEF HonoraryInv, Tokens
  <2>2. Due("b")' \in Nat
    <3>1. PoolInv /\ PoolInv'
      BY <1>2, HonoraryStepKeeps DEF HonoraryInv
    <3> QED
      BY <3>1, DueShare DEF Tokens
  <2>3. \/ Received' = Received + Due("b") /\ Due("b")' = 0
        \/ Received' = Received /\ Due("b")' >= Due("b")
    BY <1>2, HonoraryStepKeeps
  <2>4. CASE Received' = Received + Due("b") /\ Due("b")' = 0
    BY <2>4 DEF Source!Next, Source!Claim, Received
  <2>5. CASE Received' = Received /\ Due("b")' > Due("b")
    BY <2>2, <2>5 DEF Source!Next, Source!Accrue, Received
  <2>6. CASE Received' = Received /\ Due("b")' = Due("b")
    BY <2>6 DEF Source!vars, Received
  <2> QED
    BY <2>1, <2>2, <2>3, <2>4, <2>5, <2>6
<1>3. HonoraryInv /\ [HonoraryNext]_allVars => [Source!Next]_(Source!vars)
  BY <1>2
<1> QED
  BY <1>1, <1>3, HonoraryInvariance, PTL DEF HonorarySpec, DeliversFees, Source!Spec
=============================================================================
