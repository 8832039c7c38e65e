------------------------- MODULE CpAmmRewardsProofs -------------------------
(***************************************************************************)
(* Theorems about CpAmmRewards, for any number of positions, any durations,*)
(* fundings and times: the vault covers what is owed, and every position   *)
(* earns only its part of each second.                                     *)
(***************************************************************************)
EXTENDS CpAmmRewards, TransferFeesProofs

-----------------------------------------------------------------------------
(* The invariant                                                           *)

\* A vault's token, in the unit in which rewards accrue.
Scale == LIQUIDITY_UNIT * RATE_UNIT

\* What a position has earned, before any rounding.
Weight(stored, pos) == pos.pending * Scale + pos.liquidity * (stored - pos.checkpoint)

Weights(stored, positions) == [p \in Positions |-> Weight(stored, positions[p])]

LiquidityOf(positions) == [p \in Positions |-> positions[p].liquidity]

\* What the reward has still to hand out or give back.
Promised(r) ==
    LIQUIDITY_UNIT * (r.reward_rate
        * (r.empty_seconds + (r.reward_duration_end - r.last_update_time)))

Books(r, positions, in_vault) ==
    Total(Weights(r.reward_per_token_stored, positions), Positions) + Promised(r)
        <= in_vault * Scale

\* A second's reward of a position, in the unit of share.
PerSecond(r, supply, pos) ==
    IF supply > 0 THEN r.reward_rate * pos.liquidity * (SHARES \div supply) ELSE 0

\* Paid and unpaid rewards of a position, and the seconds not yet settled,
\* are within its share.
Fair(r, supply, pos, paid, part, time) ==
    SHARES * (paid * Scale + Weight(r.reward_per_token_stored, pos))
      + LIQUIDITY_UNIT * (PerSecond(r, supply, pos) * ElapsedSince(r, time))
        <= part * LIQUIDITY_UNIT

RewardOK ==
    /\ reward.last_update_time <= now
    /\ reward.last_update_time <= reward.reward_duration_end
    /\ IF reward.initialized
       THEN reward.reward_duration \in Durations
       ELSE reward.reward_per_token_stored = 0 /\ reward.reward_duration_end = 0

PositionsOK ==
    /\ liquidity = Total(LiquidityOf(position), Positions)
    /\ liquidity <= MaxLiquidity
    /\ \A p \in Positions :
         /\ position[p].checkpoint <= reward.reward_per_token_stored
         /\ p \notin open => position[p] = NewPosition

RewardsInv ==
    /\ TypeOK
    /\ RewardOK
    /\ PositionsOK
    /\ Books(reward, position, vault)
    /\ \A p \in Positions :
         Fair(reward, liquidity, position[p], claimed[p], share[p], now)

-----------------------------------------------------------------------------
(* RewardInfo::update_rewards                                              *)

LEMMA Units ==
    /\ LIQUIDITY_UNIT \in Nat /\ LIQUIDITY_UNIT > 0
    /\ RATE_UNIT \in Nat /\ RATE_UNIT > 0
    /\ Scale \in Nat /\ Scale > 0
    /\ SHARES \in Nat /\ SHARES > 0
<1>1. /\ LIQUIDITY_UNIT \in Nat /\ LIQUIDITY_UNIT > 0
      /\ RATE_UNIT \in Nat /\ RATE_UNIT > 0
      /\ SHARES \in Nat /\ SHARES > 0
  BY RewardsAssumption
<1>2. LIQUIDITY_UNIT * RATE_UNIT \in Nat /\ LIQUIDITY_UNIT * RATE_UNIT > 0
  BY <1>1
<1> QED
  BY <1>1, <1>2 DEF Scale

LEMMA RewardFields ==
    ASSUME NEW r \in RewardInfo
    PROVE  /\ r.initialized \in BOOLEAN /\ r.reward_duration_end \in Nat
           /\ r.reward_rate \in Nat /\ r.reward_per_token_stored \in Nat
           /\ r.last_update_time \in Nat /\ r.empty_seconds \in Nat
           /\ r.funder \in Funders \cup {NoFunder}
           /\ r.reward_duration \in Durations \cup {0}
  BY DEF RewardInfo

\* A reward that is up to date with no seconds ahead of its time.
Timely(r, time) ==
    /\ r.last_update_time <= time
    /\ r.last_update_time <= r.reward_duration_end
    /\ ~r.initialized => r.reward_duration_end = 0

\* The seconds since the last update go to the liquidity, rounded down, or
\* count as missed; nothing else changes.
LEMMA PoolUpdated ==
    ASSUME NEW r \in RewardInfo, NEW supply \in Nat, NEW time \in Nat, Timely(r, time)
    PROVE  LET c == UpdatePool(r, supply, time)
               d == c.reward_per_token_stored - r.reward_per_token_stored
           IN /\ c \in RewardInfo
              /\ c.initialized = r.initialized /\ c.funder = r.funder
              /\ c.reward_duration = r.reward_duration
              /\ c.reward_duration_end = r.reward_duration_end
              /\ c.reward_rate = r.reward_rate
              /\ c.last_update_time = Least(time, r.reward_duration_end)
              /\ c.empty_seconds >= r.empty_seconds
              /\ d \in Nat
              /\ supply = 0 => c.empty_seconds = r.empty_seconds + ElapsedSince(r, time)
              /\ supply > 0 => c.empty_seconds = r.empty_seconds
              /\ d * supply <= LIQUIDITY_UNIT * (r.reward_rate * ElapsedSince(r, time))
              /\ ElapsedSince(r, time) \in Nat
              /\ supply = 0 => d = 0
<1> DEFINE e == ElapsedSince(r, time)
           last == LastUpdate(r, time)
           gain == (e * r.reward_rate * LIQUIDITY_UNIT) \div supply
           stored == r.reward_per_token_stored + gain
           empty == r.empty_seconds + e
           c == UpdatePool(r, supply, time)
<1>1. /\ r.reward_duration_end \in Nat /\ r.reward_rate \in Nat
      /\ r.reward_per_token_stored \in Nat /\ r.last_update_time \in Nat
      /\ r.empty_seconds \in Nat /\ r.initialized \in BOOLEAN
  BY RewardFields
<1>2. e \in Nat /\ last \in Nat /\ last = Least(time, r.reward_duration_end)
  BY <1>1 DEF Timely, ElapsedSince, LastUpdate, Least
<1>3. ~r.initialized => e = 0 /\ last = r.last_update_time
  BY <1>1 DEF Timely, ElapsedSince, LastUpdate, Least
<1> HIDE DEF e, last
<1>4. e * r.reward_rate * LIQUIDITY_UNIT \in Nat
  <2>1. e * r.reward_rate \in Nat
    BY <1>1, <1>2
  <2> QED
    BY <2>1, Units
<1>5. e * r.reward_rate * LIQUIDITY_UNIT = LIQUIDITY_UNIT * (r.reward_rate * e)
  BY <1>1, <1>2, Units
<1>6. LIQUIDITY_UNIT * (r.reward_rate * e) \in Nat
  BY <1>4, <1>5
<1>7. supply > 0 => gain \in Nat /\ gain * supply <= e * r.reward_rate * LIQUIDITY_UNIT
  BY <1>4, DivBounds
<1>8. CASE ~r.initialized
  <2>1. c = r
    BY <1>8 DEF UpdatePool
  <2>2. r.reward_per_token_stored - r.reward_per_token_stored = 0 /\ 0 * supply = 0
    BY <1>1
  <2> QED
    BY <2>1, <2>2, <1>1, <1>2, <1>3, <1>6, <1>8 DEF e
<1>9. CASE r.initialized /\ supply > 0
  <2> HIDE DEF gain
  <2>1. c = [r EXCEPT !.reward_per_token_stored = stored, !.last_update_time = last]
    BY <1>9 DEF UpdatePool, e, last, gain
  <2>2. stored \in Nat /\ stored - r.reward_per_token_stored = gain
    BY <1>1, <1>7, <1>9
  <2> HIDE DEF stored, c
  <2>3. /\ c \in RewardInfo /\ c.reward_per_token_stored = stored
        /\ c.last_update_time = last /\ c.initialized = r.initialized
        /\ c.funder = r.funder /\ c.reward_duration = r.reward_duration
        /\ c.reward_duration_end = r.reward_duration_end
        /\ c.reward_rate = r.reward_rate /\ c.empty_seconds = r.empty_seconds
    BY <2>1, <2>2, <1>2 DEF RewardInfo
  <2> QED
    BY <2>2, <2>3, <1>1, <1>2, <1>5, <1>7, <1>9 DEF c, e
<1>10. CASE r.initialized /\ supply = 0
  <2>1. c = [r EXCEPT !.empty_seconds = empty, !.last_update_time = last]
    BY <1>10 DEF UpdatePool, e, last
  <2>2. empty \in Nat /\ empty >= r.empty_seconds
    BY <1>1, <1>2
  <2>e. empty = r.empty_seconds + e
    OBVIOUS
  <2> HIDE DEF empty, c
  <2>3. /\ c \in RewardInfo /\ c.empty_seconds = empty
        /\ c.last_update_time = last /\ c.initialized = r.initialized
        /\ c.funder = r.funder /\ c.reward_duration = r.reward_duration
        /\ c.reward_duration_end = r.reward_duration_end
        /\ c.reward_rate = r.reward_rate
        /\ c.reward_per_token_stored = r.reward_per_token_stored
    BY <2>1, <2>2, <1>2 DEF RewardInfo
  <2>4. c.reward_per_token_stored - r.reward_per_token_stored = 0 /\ 0 * supply = 0
    BY <2>3, <1>1
  <2> QED
    BY <2>2, <2>3, <2>4, <2>e, <1>1, <1>2, <1>6, <1>10 DEF c, e
<1> QED
  BY <1>1, <1>8, <1>9, <1>10
\* Updating twice in a second changes nothing more.
LEMMA UpToDate ==
    ASSUME NEW c \in RewardInfo, NEW supply \in Nat, NEW time \in Nat, Timely(c, time),
           ElapsedSince(c, time) = 0
    PROVE  UpdatePool(c, supply, time).reward_per_token_stored = c.reward_per_token_stored
<1> DEFINE new == UpdatePool(c, supply, time).reward_per_token_stored
           d == new - c.reward_per_token_stored
<1>1. /\ d \in Nat /\ (supply = 0 => d = 0)
      /\ d * supply <= LIQUIDITY_UNIT * (c.reward_rate * 0)
  BY PoolUpdated
<1>2. LIQUIDITY_UNIT * (c.reward_rate * 0) = 0
  BY Units, RewardFields
<1>3. new \in Nat /\ c.reward_per_token_stored \in Nat
  <2>1. UpdatePool(c, supply, time) \in RewardInfo
    BY PoolUpdated
  <2> QED
    BY <2>1, RewardFields
<1>4. d = 0
  <2> HIDE DEF d
  <2>1. d > 0 /\ supply > 0 => d * supply > 0
    BY <1>1
  <2> QED
    BY <1>1, <1>2, <2>1
<1> HIDE DEF new
<1>5. new = c.reward_per_token_stored
  BY <1>3, <1>4
<1> QED
  BY <1>5 DEF new

-----------------------------------------------------------------------------
(* update_position_reward                                                  *)

LEMMA PositionFields ==
    ASSUME NEW pos \in UserRewardInfo
    PROVE  pos.liquidity \in Nat /\ pos.pending \in Nat /\ pos.checkpoint \in Nat
  BY DEF UserRewardInfo

\* What a position earned is a natural number.
LEMMA WeightNat ==
    ASSUME NEW pos \in UserRewardInfo, NEW stored \in Nat, pos.checkpoint <= stored
    PROVE  /\ Weight(stored, pos) \in Nat
           /\ Weight(stored, pos) >= pos.pending * Scale
           /\ pos.pending * Scale \in Nat
           /\ pos.liquidity * (stored - pos.checkpoint) \in Nat
<1>1. stored - pos.checkpoint \in Nat /\ pos.liquidity \in Nat /\ pos.pending \in Nat
  BY PositionFields
<1>2. pos.liquidity * (stored - pos.checkpoint) \in Nat
  BY <1>1
<1>3. pos.pending * Scale \in Nat
  BY <1>1, Units
<1> QED
  BY <1>2, <1>3 DEF Weight

\* Settling a position rounds down what it has earned, and keeps the rest.
LEMMA PositionSettled ==
    ASSUME NEW c \in RewardInfo, NEW pos \in UserRewardInfo,
           pos.checkpoint <= c.reward_per_token_stored,
           ~c.initialized => c.reward_per_token_stored = 0
    PROVE  LET settled == UpdatePosition(c, pos)
               stored == c.reward_per_token_stored
           IN /\ settled \in UserRewardInfo
              /\ settled.liquidity = pos.liquidity
              /\ settled.checkpoint = stored
              /\ settled.pending >= pos.pending
              /\ settled.pending =
                   pos.pending + (pos.liquidity * (stored - pos.checkpoint)) \div Scale
              /\ settled.pending * Scale <= Weight(stored, pos)
              /\ Weight(stored, settled) = settled.pending * Scale
              /\ DOMAIN settled = DOMAIN pos
<1> DEFINE stored == c.reward_per_token_stored
           settled == UpdatePosition(c, pos)
           earned == NewReward(pos, stored)
           pending == pos.pending + earned
           unrounded == pos.liquidity * (stored - pos.checkpoint)
<1>1. /\ stored \in Nat /\ c.initialized \in BOOLEAN /\ pos.liquidity \in Nat
      /\ pos.pending \in Nat /\ pos.checkpoint \in Nat
  BY RewardFields, PositionFields
<1>2. unrounded \in Nat
  BY <1>1, WeightNat
<1>3. earned = unrounded \div Scale
  BY DEF NewReward, Scale
<1>4. earned \in Nat /\ earned * Scale <= unrounded
  BY <1>2, <1>3, Units, DivBounds
<1>5. /\ settled \in UserRewardInfo /\ settled.liquidity = pos.liquidity
      /\ settled.checkpoint = stored /\ settled.pending = pending
      /\ DOMAIN settled = DOMAIN pos
  <2>1. CASE c.initialized
    <3>1. settled = [pos EXCEPT !.pending = pending, !.checkpoint = stored]
      BY <2>1 DEF UpdatePosition
    <3>2. pending \in Nat
      BY <1>1, <1>4
    <3> HIDE DEF pending, settled, stored
    <3> QED
      BY <3>1, <3>2, <1>1 DEF UserRewardInfo
  <2>2. CASE ~c.initialized
    <3>1. settled = pos
      BY <2>2 DEF UpdatePosition
    <3>2. stored = 0 /\ pos.checkpoint = 0
      BY <2>2, <1>1
    <3>3. unrounded = 0
      BY <3>2, <1>1
    <3>4. earned = 0
      BY <3>3, <1>4, <1>3, Units
    <3> QED
      BY <3>1, <3>2, <3>4, <1>1
  <2> QED
    BY <2>1, <2>2, <1>1
<1> HIDE DEF settled, unrounded, earned
<1>6. pending * Scale = pos.pending * Scale + earned * Scale
  BY <1>1, <1>4, Units
<1>7. pos.pending * Scale \in Nat /\ earned * Scale \in Nat
  BY <1>1, <1>4, Units
<1>8. Weight(stored, pos) = pos.pending * Scale + unrounded
  BY DEF Weight, unrounded
<1>9. pending * Scale <= Weight(stored, pos)
  BY <1>2, <1>4, <1>6, <1>7, <1>8
<1>10. Weight(stored, settled) = settled.pending * Scale
  <2>1. settled.liquidity * (stored - settled.checkpoint) = 0
    BY <1>1, <1>5
  <2>2. settled.pending * Scale \in Nat
    BY <1>1, <1>4, <1>5, Units
  <2> QED
    BY <2>1, <2>2 DEF Weight
<1> QED
  BY <1>1, <1>3, <1>4, <1>5, <1>9, <1>10 DEF settled, earned, unrounded

-----------------------------------------------------------------------------
(* The books                                                               *)

PositionsType == [Positions -> UserRewardInfo]

\* No position is checkpointed in the future.
Checked(stored, positions) == \A p \in Positions : positions[p].checkpoint <= stored

LEMMA WeightsNat ==
    ASSUME NEW stored \in Nat, NEW positions \in PositionsType, Checked(stored, positions)
    PROVE  /\ \A p \in Positions : Weights(stored, positions)[p] \in Nat
           /\ Total(Weights(stored, positions), Positions) \in Nat
<1>1. \A p \in Positions : Weights(stored, positions)[p] \in Nat
  BY WeightNat DEF Weights, Checked, PositionsType
<1> QED
  BY <1>1, SumNat, RewardsAssumption

\* Bringing the reward up to date takes from what is promised what it adds to
\* the positions.
LEMMA BooksUpdated ==
    ASSUME NEW r \in RewardInfo, NEW positions \in PositionsType, NEW supply \in Nat,
           NEW time \in Nat, NEW in_vault \in Nat, Timely(r, time),
           Checked(r.reward_per_token_stored, positions),
           supply = Total(LiquidityOf(positions), Positions),
           Books(r, positions, in_vault)
    PROVE  Books(UpdatePool(r, supply, time), positions, in_vault)
<1> DEFINE c == UpdatePool(r, supply, time)
           old == r.reward_per_token_stored
           new == c.reward_per_token_stored
           d == new - old
           f == Weights(old, positions)
           g == [p \in Positions |-> positions[p].liquidity * d]
           h == Weights(new, positions)
           e == ElapsedSince(r, time)
           U == LIQUIDITY_UNIT
           R == r.reward_rate
           ahead == r.reward_duration_end - r.last_update_time
<1>1. /\ c \in RewardInfo /\ c.reward_duration_end = r.reward_duration_end
      /\ c.reward_rate = R /\ c.last_update_time = Least(time, r.reward_duration_end)
      /\ d \in Nat
      /\ supply = 0 => c.empty_seconds = r.empty_seconds + e
      /\ supply > 0 => c.empty_seconds = r.empty_seconds
      /\ d * supply <= U * (R * e)
      /\ e \in Nat
      /\ supply = 0 => d = 0
  BY ZenonT(30), PoolUpdated
<1>2. /\ old \in Nat /\ new \in Nat /\ R \in Nat /\ r.reward_duration_end \in Nat
      /\ r.last_update_time \in Nat /\ r.empty_seconds \in Nat
  BY <1>1, RewardFields
<1>3. \A p \in Positions :
         /\ positions[p] \in UserRewardInfo
         /\ positions[p].liquidity \in Nat /\ positions[p].pending \in Nat
         /\ positions[p].checkpoint \in Nat
  BY PositionFields DEF PositionsType
<1>4. Total(h, Positions) = Total(f, Positions) + Total(g, Positions)
  <2>1. ASSUME NEW p \in Positions
        PROVE  f[p] \in Int /\ g[p] \in Int /\ h[p] = f[p] + g[p]
    <3> DEFINE l == positions[p].liquidity
               k == positions[p].checkpoint
               w == positions[p].pending * Scale
    <3>1. l \in Nat /\ k \in Nat /\ w \in Nat
      BY <1>3, Units
    <3>2. f[p] = w + l * (old - k) /\ h[p] = w + l * (new - k) /\ g[p] = l * d
      BY DEF Weights, Weight
    <3>3. l * (new - k) = l * (old - k) + l * d
      BY <3>1, <1>2
    <3>4. l * (old - k) \in Int /\ l * d \in Int
      BY <3>1, <1>1, <1>2
    <3> HIDE DEF l, k, w, f, g, h, d
    <3> QED
      BY <3>1, <3>2, <3>3, <3>4
  <2> HIDE DEF f, g, h
  <2> QED
    BY <2>1, SumPlus, RewardsAssumption
<1>5. Total(g, Positions) = supply * d
  <2> DEFINE l == LiquidityOf(positions)
  <2>1. \A p \in Positions : l[p] \in Int /\ g[p] = l[p] * d
    BY <1>3 DEF LiquidityOf
  <2>2. d \in Int /\ IsFiniteSet(Positions)
    BY <1>1, RewardsAssumption
  <2>3. supply = Total(l, Positions)
    OBVIOUS
  <2> HIDE DEF g, d, l
  <2>4. Total(g, Positions) = Total(l, Positions) * d
    BY <2>1, <2>2, SumTimes
  <2> QED
    BY <2>3, <2>4
<1>6. Promised(r) = U * (R * (r.empty_seconds + ahead))
  BY DEF Promised
<1>7. supply * d = d * supply /\ d * supply \in Nat
  BY <1>1
<1>8. supply * d + Promised(c) <= Promised(r)
  <2> DEFINE left == r.reward_duration_end - c.last_update_time
  <2>1. left = ahead - e /\ ahead \in Int /\ left \in Int
    BY <1>1, <1>2 DEF ElapsedSince, Least
  <2>2. Promised(c) = U * (R * (c.empty_seconds + left))
    BY <1>1 DEF Promised
  <2>3. CASE supply = 0
    <3>1. c.empty_seconds + left = r.empty_seconds + ahead
      BY <2>1, <2>3, <1>1, <1>2
    <3>2. supply * d = 0
      BY <2>3, <1>1
    <3>3. Promised(r) = Promised(c)
      BY <3>1, <2>2, <1>6
    <3>4. Promised(r) \in Int
      BY <1>2, <1>6, <2>1, Units
    <3> QED
      BY <3>2, <3>3, <3>4
  <2>4. CASE supply > 0
    <3> DEFINE whole == r.empty_seconds + ahead
    <3>1. c.empty_seconds + left = whole - e
      BY <2>1, <2>4, <1>1, <1>2
    <3>w. whole \in Int
      BY <2>1, <1>2
    <3> HIDE DEF whole
    <3>2. R * (whole - e) = R * whole - R * e
      BY <3>w, <1>1, <1>2
    <3>3. R * whole \in Int /\ R * e \in Int
      BY <3>w, <1>1, <1>2
    <3>4. U * (R * whole - R * e) = U * (R * whole) - U * (R * e)
      BY <3>3, Units
    <3>5. U * (R * whole) \in Int /\ U * (R * e) \in Int
      BY <3>3, Units
    <3>6. Promised(c) = U * (R * whole) - U * (R * e)
      BY <2>2, <3>1, <3>2, <3>4
    <3>7. Promised(r) = U * (R * whole)
      BY <1>6 DEF whole
    <3> HIDE DEF d, c, e
    <3> QED
      BY <3>5, <3>6, <3>7, <1>1, <1>7
  <2> QED
    BY <2>3, <2>4
<1>9. /\ Total(f, Positions) \in Int /\ Promised(r) \in Int /\ Promised(c) \in Int
      /\ in_vault * Scale \in Int
  <2>1. Total(f, Positions) \in Int
    BY <1>2, WeightsNat
  <2>2. c.empty_seconds \in Nat /\ c.last_update_time \in Nat
    BY <1>1, RewardFields
  <2>3. U * (R * (c.empty_seconds + (r.reward_duration_end - c.last_update_time))) \in Int
    BY <2>2, <1>2, Units
  <2>4. U * (R * (r.empty_seconds + ahead)) \in Int
    BY <1>2, Units
  <2>5. in_vault * Scale \in Int
    BY Units
  <2> QED
    BY <2>1, <2>3, <2>4, <2>5, <1>1 DEF Promised
<1>10. Total(f, Positions) + Promised(r) <= in_vault * Scale
  BY DEF Books
<1>11. Total(h, Positions) + Promised(c) <= in_vault * Scale
  <2> HIDE DEF f, g, h, c, d
  <2> QED
    BY <1>4, <1>5, <1>7, <1>8, <1>9, <1>10
<1> QED
  BY <1>11 DEF Books
\* One position pays out of what it has earned, or gives some of it up.
LEMMA BooksOne ==
    ASSUME NEW r \in RewardInfo, NEW positions \in PositionsType, NEW in_vault \in Nat,
           Checked(r.reward_per_token_stored, positions),
           Books(r, positions, in_vault),
           NEW p \in Positions, NEW pos \in UserRewardInfo, NEW paid \in Nat,
           pos.checkpoint <= r.reward_per_token_stored,
           Weight(r.reward_per_token_stored, pos) + paid * Scale
             <= Weight(r.reward_per_token_stored, positions[p])
    PROVE  Books(r, [positions EXCEPT ![p] = pos], in_vault - paid)
<1> DEFINE stored == r.reward_per_token_stored
           after == [positions EXCEPT ![p] = pos]
           f == Weights(stored, positions)
           g == Weights(stored, after)
           P == Promised(r)
<1>1. stored \in Nat
  BY RewardFields
<1>2. \A q \in Positions : f[q] \in Nat
  BY <1>1, WeightsNat
<1>3. g[p] = Weight(stored, pos) /\ g[p] \in Nat /\ f[p] = Weight(stored, positions[p])
  BY <1>1, WeightNat DEF Weights, PositionsType
<1>4. \A q \in Positions : q # p => g[q] = f[q]
  BY DEF Weights, PositionsType
<1>5. P \in Int
  BY RewardFields, Units DEF Promised
<1>6. (in_vault - paid) * Scale = in_vault * Scale - paid * Scale
      /\ in_vault * Scale \in Nat /\ paid * Scale \in Nat
  BY Units
<1>7. Total(f, Positions) + P <= in_vault * Scale
  BY DEF Books
<1>8. g[p] + paid * Scale <= f[p]
  BY <1>3
<1> HIDE DEF f, g, P
<1>9. /\ Total(f, Positions) \in Int /\ Total(g, Positions) \in Int
      /\ Total(g, Positions) = Total(f, Positions) + (g[p] - f[p])
  BY <1>2, <1>3, <1>4, SumOne, RewardsAssumption
<1>10. Total(g, Positions) + P <= (in_vault - paid) * Scale
  BY <1>2, <1>3, <1>5, <1>6, <1>7, <1>8, <1>9
<1> QED
  BY <1>10 DEF Books, g, P

\* Two positions share out what they have earned together.
LEMMA BooksTwo ==
    ASSUME NEW r \in RewardInfo, NEW positions \in PositionsType, NEW in_vault \in Nat,
           Checked(r.reward_per_token_stored, positions),
           Books(r, positions, in_vault),
           NEW p \in Positions, NEW q \in Positions, p # q,
           NEW pos \in UserRewardInfo, NEW qos \in UserRewardInfo,
           pos.checkpoint <= r.reward_per_token_stored,
           qos.checkpoint <= r.reward_per_token_stored,
           Weight(r.reward_per_token_stored, pos) + Weight(r.reward_per_token_stored, qos)
             <= Weight(r.reward_per_token_stored, positions[p])
                  + Weight(r.reward_per_token_stored, positions[q])
    PROVE  Books(r, [positions EXCEPT ![p] = pos, ![q] = qos], in_vault)
<1> DEFINE stored == r.reward_per_token_stored
           after == [positions EXCEPT ![p] = pos, ![q] = qos]
           f == Weights(stored, positions)
           g == Weights(stored, after)
           P == Promised(r)
<1>1. stored \in Nat
  BY RewardFields
<1>2. \A x \in Positions : f[x] \in Nat
  BY <1>1, WeightsNat
<1>3. g[p] = Weight(stored, pos) /\ g[p] \in Nat /\ f[p] = Weight(stored, positions[p])
  BY <1>1, WeightNat DEF Weights, PositionsType
<1>4. g[q] = Weight(stored, qos) /\ g[q] \in Nat /\ f[q] = Weight(stored, positions[q])
  BY <1>1, WeightNat DEF Weights, PositionsType
<1>5. \A x \in Positions : x \notin {p, q} => g[x] = f[x]
  BY DEF Weights, PositionsType
<1>6. P \in Int /\ in_vault * Scale \in Int
  BY RewardFields, Units DEF Promised
<1>7. Total(f, Positions) + P <= in_vault * Scale
  BY DEF Books
<1>8. g[p] + g[q] <= f[p] + f[q]
  BY <1>3, <1>4
<1> HIDE DEF f, g, P
<1>9. /\ Total(f, Positions) \in Int /\ Total(g, Positions) \in Int
      /\ Total(g, Positions) = Total(f, Positions) + (g[p] - f[p]) + (g[q] - f[q])
  BY <1>2, <1>3, <1>4, <1>5, SumTwo, RewardsAssumption
<1>10. Total(g, Positions) + P <= in_vault * Scale
  BY <1>2, <1>3, <1>4, <1>6, <1>7, <1>8, <1>9
<1> QED
  BY <1>10 DEF Books, g, P

-----------------------------------------------------------------------------
(* The positions' shares                                                   *)

\* Fair, for a reward that is up to date.
Settled(stored, pos, paid, part) ==
    SHARES * (paid * Scale + Weight(stored, pos)) <= part * LIQUIDITY_UNIT

LEMMA SharesNat ==
    ASSUME NEW stored \in Nat, NEW pos \in UserRewardInfo, NEW paid \in Nat,
           pos.checkpoint <= stored
    PROVE  SHARES * (paid * Scale + Weight(stored, pos)) \in Nat
<1>1. paid * Scale \in Nat /\ Weight(stored, pos) \in Nat
  BY Units, WeightNat
<1> DEFINE x == paid * Scale + Weight(stored, pos)
<1>2. x \in Nat
  BY <1>1
<1> HIDE DEF x
<1>3. SHARES * x \in Nat
  BY <1>2, Units
<1> QED
  BY <1>3 DEF x

LEMMA PerSecondNat ==
    ASSUME NEW r \in RewardInfo, NEW pos \in UserRewardInfo, NEW supply \in Nat
    PROVE  PerSecond(r, supply, pos) \in Nat
<1>1. r.reward_rate \in Nat /\ pos.liquidity \in Nat
  BY RewardFields, PositionFields
<1>2. supply > 0 => SHARES \div supply \in Nat
  BY Units
<1>3. r.reward_rate * pos.liquidity \in Nat
  BY <1>1
<1>4. supply > 0 => r.reward_rate * pos.liquidity * (SHARES \div supply) \in Nat
  BY <1>2, <1>3
<1> QED
  BY <1>4 DEF PerSecond

\* When no second is outstanding, the two say the same.
LEMMA FairWhenSettled ==
    ASSUME NEW r \in RewardInfo, NEW pos \in UserRewardInfo, NEW supply \in Nat,
           NEW time \in Nat, NEW paid \in Nat, NEW part \in Nat,
           pos.checkpoint <= r.reward_per_token_stored,
           ElapsedSince(r, time) = 0
    PROVE  Fair(r, supply, pos, paid, part, time)
             <=> Settled(r.reward_per_token_stored, pos, paid, part)
<1> DEFINE x == SHARES * (paid * Scale + Weight(r.reward_per_token_stored, pos))
           rate == PerSecond(r, supply, pos)
<1>1. x \in Nat /\ rate \in Nat
  BY RewardFields, SharesNat, PerSecondNat
<1>2. LIQUIDITY_UNIT * (rate * 0) = 0
  BY <1>1, Units
<1>3. part * LIQUIDITY_UNIT \in Nat
  BY Units
<1> HIDE DEF x, rate
<1>4. (x + LIQUIDITY_UNIT * (rate * 0) <= part * LIQUIDITY_UNIT)
        <=> (x <= part * LIQUIDITY_UNIT)
  BY <1>1, <1>2, <1>3
<1> QED
  BY <1>4 DEF Fair, Settled, x, rate

\* What an update gives a position of the outstanding seconds is its part.
LEMMA FairUpdated ==
    ASSUME NEW r \in RewardInfo, NEW pos \in UserRewardInfo,
           NEW supply \in 0 .. MaxLiquidity,
           NEW time \in Nat, NEW paid \in Nat, NEW part \in Nat, Timely(r, time),
           pos.checkpoint <= r.reward_per_token_stored,
           Fair(r, supply, pos, paid, part, time)
    PROVE  Settled(UpdatePool(r, supply, time).reward_per_token_stored, pos, paid, part)
<1> DEFINE c == UpdatePool(r, supply, time)
           old == r.reward_per_token_stored
           new == c.reward_per_token_stored
           d == new - old
           e == ElapsedSince(r, time)
           U == LIQUIDITY_UNIT
           R == r.reward_rate
           l == pos.liquidity
           x == paid * Scale + Weight(old, pos)
           rate == PerSecond(r, supply, pos)
<1>0. supply \in Nat /\ supply <= MaxLiquidity
  BY RewardsAssumption
<1>1. /\ c \in RewardInfo /\ d \in Nat /\ e \in Nat
      /\ d * supply <= U * (R * e)
      /\ supply = 0 => d = 0
  BY <1>0, PoolUpdated
<1>2. /\ old \in Nat /\ new \in Nat /\ R \in Nat /\ l \in Nat
      /\ pos.checkpoint \in Nat /\ pos.pending \in Nat
      /\ U \in Nat /\ SHARES \in Nat
  BY <1>1, RewardFields, PositionFields, Units
<1>3. rate \in Nat
  BY <1>0, PerSecondNat
<1>4. paid * Scale + Weight(new, pos) = x + l * d
  <2> DEFINE k == pos.checkpoint
             w == pos.pending * Scale
             v == paid * Scale
  <2>1. w \in Nat /\ v \in Nat /\ k \in Nat
    BY <1>2, Units
  <2>2. l * (new - k) = l * (old - k) + l * d
    BY <1>2
  <2>3. l * (old - k) \in Int /\ l * d \in Int
    BY <1>1, <1>2, <2>1
  <2>4. Weight(new, pos) = w + l * (new - k) /\ Weight(old, pos) = w + l * (old - k)
    BY DEF Weight
  <2>5. x = v + Weight(old, pos)
    OBVIOUS
  <2> HIDE DEF x, w, v, d, k, l
  <2> QED
    BY <2>1, <2>2, <2>3, <2>4, <2>5 DEF v
<1>5. x \in Nat
  BY <1>2, WeightNat, Units
<1>6. SHARES * (l * d) <= U * (rate * e)
  <2>1. CASE supply = 0
    <3>1. l * d = 0 /\ SHARES * 0 = 0
      BY <2>1, <1>1, <1>2
    <3>2. U * (rate * e) \in Nat
      BY <1>1, <1>2, <1>3
    <3> QED
      BY <3>1, <3>2
  <2>2. CASE supply > 0
    <3> DEFINE K == SHARES \div supply
               m == K * l
    <3>1. K \in Nat /\ SHARES = K * supply
      <4>1. SHARES % supply = 0
        BY <2>2, <1>0, RewardsAssumption
      <4> QED
        BY <4>1, <2>2, <1>0, <1>2
    <3>2. rate = R * l * K
      BY <2>2 DEF PerSecond
    <3> HIDE DEF K, d, e, rate, l, R, U
    <3>3. m \in Nat
      BY <3>1, <1>2
    <3>4. SHARES * (l * d) = (d * supply) * m
      BY <3>1, <1>0, <1>1, <1>2
    <3>5. U * (rate * e) = (U * (R * e)) * m
      BY <3>1, <3>2, <1>1, <1>2
    <3>6. d * supply \in Int /\ U * (R * e) \in Int
      BY <1>0, <1>1, <1>2
    <3>7. (d * supply) * m <= (U * (R * e)) * m
      <4> DEFINE y == d * supply
                 z == U * (R * e)
      <4>1. y \in Int /\ z \in Int /\ y <= z
        BY <3>6, <1>1
      <4> HIDE DEF y, z, m
      <4>2. y * m <= z * m
        BY <4>1, <3>3, Monotone
      <4> QED
        BY <4>2 DEF y, z
    <3> QED
      BY <3>4, <3>5, <3>7
  <2> QED
    BY <2>1, <2>2, <1>0
<1>7. SHARES * x + U * (rate * e) <= part * U
  BY DEF Fair
<1>8. SHARES * (x + l * d) = SHARES * x + SHARES * (l * d)
  <2>1. l * d \in Nat
    BY <1>1, <1>2
  <2> HIDE DEF x, l, d
  <2> QED
    BY <2>1, <1>2, <1>5
<1>9. SHARES * x \in Int /\ U * (rate * e) \in Int /\ part * U \in Int
      /\ SHARES * (l * d) \in Int
  <2>1. SHARES * x \in Int
    <3> HIDE DEF x
    <3> QED
      BY <1>2, <1>5
  <2>2. l * d \in Nat /\ rate * e \in Nat
    BY <1>1, <1>2, <1>3
  <2> QED
    BY <2>1, <2>2, <1>2
<1>10. SHARES * (x + l * d) <= part * U
  <2> HIDE DEF x, l, d, rate, e, U
  <2> QED
    BY <1>6, <1>7, <1>8, <1>9
<1> QED
  BY <1>4, <1>10 DEF Settled

-----------------------------------------------------------------------------
(* The state after an instruction brought everything up to date            *)

\* What holds of a reward that is up to date: no second is outstanding.
Fresh(r, time) ==
    /\ r \in RewardInfo
    /\ Timely(r, time)
    /\ ElapsedSince(r, time) = 0

LEMMA InvFacts ==
    ASSUME RewardsInv
    PROVE  /\ reward \in RewardInfo /\ position \in PositionsType
           /\ liquidity \in Nat /\ liquidity \in 0 .. MaxLiquidity
           /\ vault \in Nat /\ now \in Nat /\ fundings \in Nat /\ moves \in Nat
           /\ frozen \in BOOLEAN /\ open \subseteq Positions
           /\ claimed \in [Positions -> Nat] /\ share \in [Positions -> Nat]
           /\ Timely(reward, now)
           /\ Checked(reward.reward_per_token_stored, position)
           /\ liquidity = Total(LiquidityOf(position), Positions)
           /\ ~reward.initialized => reward.reward_per_token_stored = 0
           /\ reward.initialized => reward.reward_duration \in Durations
           /\ \A p \in Positions : p \notin open => position[p] = NewPosition
<1>1. liquidity \in Nat /\ liquidity <= MaxLiquidity
  BY DEF RewardsInv, TypeOK, PositionsOK
<1>2. liquidity \in 0 .. MaxLiquidity
  BY <1>1, RewardsAssumption
<1> QED
  BY <1>1, <1>2 DEF RewardsInv, TypeOK, RewardOK, PositionsOK, PositionsType, Timely, Checked

\* Bringing the reward up to date keeps the books and every position's share.
LEMMA CurrentFacts ==
    ASSUME RewardsInv
    PROVE  /\ Fresh(Current, now)
           /\ Current.initialized = reward.initialized
           /\ Current.reward_duration = reward.reward_duration
           /\ Current.reward_duration_end = reward.reward_duration_end
           /\ Current.reward_rate = reward.reward_rate
           /\ Current.last_update_time = Least(now, reward.reward_duration_end)
           /\ ~Current.initialized => Current.reward_per_token_stored = 0
           /\ reward.reward_per_token_stored <= Current.reward_per_token_stored
           /\ Checked(Current.reward_per_token_stored, position)
           /\ Books(Current, position, vault)
           /\ \A p \in Positions :
                Settled(Current.reward_per_token_stored, position[p], claimed[p], share[p])
<1>1. /\ reward \in RewardInfo /\ liquidity \in Nat /\ now \in Nat /\ Timely(reward, now)
      /\ liquidity \in 0 .. MaxLiquidity /\ vault \in Nat
      /\ position \in PositionsType /\ Checked(reward.reward_per_token_stored, position)
      /\ liquidity = Total(LiquidityOf(position), Positions)
      /\ claimed \in [Positions -> Nat] /\ share \in [Positions -> Nat]
      /\ ~reward.initialized => reward.reward_per_token_stored = 0
  BY InvFacts
<1>2. /\ Books(reward, position, vault)
      /\ \A p \in Positions : Fair(reward, liquidity, position[p], claimed[p], share[p], now)
  BY DEF RewardsInv
<1>3. /\ Current \in RewardInfo
      /\ Current.initialized = reward.initialized
      /\ Current.reward_duration = reward.reward_duration
      /\ Current.reward_duration_end = reward.reward_duration_end
      /\ Current.reward_rate = reward.reward_rate
      /\ Current.last_update_time = Least(now, reward.reward_duration_end)
      /\ Current.reward_per_token_stored - reward.reward_per_token_stored \in Nat
  BY <1>1, PoolUpdated DEF Current
<1>4. /\ Current.reward_per_token_stored \in Nat /\ reward.reward_per_token_stored \in Nat
      /\ reward.reward_duration_end \in Nat
  BY <1>1, <1>3, RewardFields
<1>5. Fresh(Current, now)
  BY <1>1, <1>3, <1>4 DEF Fresh, Timely, ElapsedSince, Least
<1>6. reward.reward_per_token_stored <= Current.reward_per_token_stored
  BY <1>3, <1>4
<1>7. ~Current.initialized => Current.reward_per_token_stored = 0
  <2>1. ~reward.initialized => Current = reward
    BY DEF Current, UpdatePool
  <2> QED
    BY <1>1, <1>3, <2>1
<1>8. Checked(Current.reward_per_token_stored, position)
  <2>1. \A p \in Positions : position[p].checkpoint \in Nat
    BY <1>1, PositionFields DEF PositionsType
  <2> QED
    BY <2>1, <1>1, <1>4, <1>6 DEF Checked
<1>9. Books(Current, position, vault)
  BY <1>1, <1>2, BooksUpdated DEF Current
<1>10. ASSUME NEW p \in Positions
       PROVE  Settled(Current.reward_per_token_stored, position[p], claimed[p], share[p])
  <2>1. /\ position[p] \in UserRewardInfo /\ claimed[p] \in Nat /\ share[p] \in Nat
        /\ position[p].checkpoint <= reward.reward_per_token_stored
    BY <1>1 DEF PositionsType, Checked
  <2> QED
    BY <2>1, <1>1, <1>2, FairUpdated DEF Current
<1> QED
  BY <1>3, <1>5, <1>6, <1>7, <1>8, <1>9, <1>10

\* Settling one position of a state that is up to date.
LEMMA SettledFacts ==
    ASSUME RewardsInv, NEW p \in Positions
    PROVE  LET pos == UpdatePosition(Current, position[p])
               stored == Current.reward_per_token_stored
           IN /\ pos \in UserRewardInfo
              /\ stored \in Nat
              /\ pos.liquidity = position[p].liquidity
              /\ pos.checkpoint = stored
              /\ pos.pending * Scale <= Weight(stored, position[p])
              /\ position[p] \in UserRewardInfo
              /\ position[p].checkpoint <= stored
              /\ claimed[p] \in Nat /\ share[p] \in Nat
              /\ Weight(stored, position[p]) \in Nat
              /\ SHARES * (claimed[p] * Scale + Weight(stored, position[p]))
                   <= share[p] * LIQUIDITY_UNIT
<1>1. /\ position[p] \in UserRewardInfo /\ claimed[p] \in Nat /\ share[p] \in Nat
  BY InvFacts DEF PositionsType
<1>2. /\ Current \in RewardInfo
      /\ ~Current.initialized => Current.reward_per_token_stored = 0
      /\ position[p].checkpoint <= Current.reward_per_token_stored
      /\ Settled(Current.reward_per_token_stored, position[p], claimed[p], share[p])
  BY CurrentFacts DEF Fresh, Checked
<1>3. Current.reward_per_token_stored \in Nat
  BY <1>2, RewardFields
<1>4. Weight(Current.reward_per_token_stored, position[p]) \in Nat
  BY <1>1, <1>2, <1>3, WeightNat
<1>5. LET pos == UpdatePosition(Current, position[p])
          stored == Current.reward_per_token_stored
      IN /\ pos \in UserRewardInfo
         /\ pos.liquidity = position[p].liquidity
         /\ pos.checkpoint = stored
         /\ pos.pending * Scale <= Weight(stored, position[p])
  BY <1>1, <1>2, PositionSettled
<1> QED
  BY <1>1, <1>2, <1>3, <1>4, <1>5 DEF Settled

\* The rest of the invariant after a step to a state that is up to date.
LEMMA InvWhenFresh ==
    ASSUME Fresh(reward', now'), TypeOK',
           reward'.initialized => reward'.reward_duration \in Durations,
           ~reward'.initialized => reward'.reward_per_token_stored = 0,
           liquidity' = Total(LiquidityOf(position'), Positions),
           liquidity' <= MaxLiquidity,
           Checked(reward'.reward_per_token_stored, position'),
           \A p \in Positions : p \notin open' => position'[p] = NewPosition,
           Books(reward', position', vault'),
           \A p \in Positions :
              Settled(reward'.reward_per_token_stored, position'[p], claimed'[p], share'[p])
    PROVE  RewardsInv'
<1>1. RewardOK'
  BY DEF RewardOK, Fresh, Timely
<1>2. PositionsOK'
  BY DEF PositionsOK, Checked
<1>3. ASSUME NEW p \in Positions
      PROVE  Fair(reward', liquidity', position'[p], claimed'[p], share'[p], now')
  <2>1. /\ position'[p] \in UserRewardInfo /\ claimed'[p] \in Nat /\ share'[p] \in Nat
        /\ liquidity' \in Nat /\ now' \in Nat
    BY DEF TypeOK
  <2>2. /\ reward' \in RewardInfo /\ ElapsedSince(reward', now') = 0
        /\ position'[p].checkpoint <= reward'.reward_per_token_stored
    BY DEF Fresh, Checked
  <2> QED
    BY <2>1, <2>2, FairWhenSettled
<1> QED
  BY <1>1, <1>2, <1>3 DEF RewardsInv

-----------------------------------------------------------------------------
(* The instructions that settle nothing                                    *)

LEMMA NewPositionIsEmpty ==
    /\ NewPosition \in UserRewardInfo
    /\ \A stored \in Nat : Weight(stored, NewPosition) = 0
    /\ NewPosition.liquidity = 0 /\ NewPosition.pending = 0 /\ NewPosition.checkpoint = 0
<1>1. NewPosition \in UserRewardInfo
  BY DEF NewPosition, UserRewardInfo
<1>2. NewPosition.liquidity = 0 /\ NewPosition.pending = 0 /\ NewPosition.checkpoint = 0
  BY DEF NewPosition
<1>3. ASSUME NEW stored \in Nat
      PROVE  Weight(stored, NewPosition) = 0
  <2>1. 0 * Scale = 0 /\ 0 * (stored - 0) = 0
    BY Units
  <2> QED
    BY <1>2, <2>1 DEF Weight
<1> QED
  BY <1>1, <1>2, <1>3

LEMMA InitRewards == Init => RewardsInv
<1> SUFFICES ASSUME Init PROVE RewardsInv
  OBVIOUS
<1> DEFINE first == [NewPosition EXCEPT !.liquidity = liquidity]
<1>1. liquidity \in Nat /\ liquidity <= MaxLiquidity /\ First \in Positions
  BY RewardsAssumption DEF Init
<1>2. /\ reward.initialized = FALSE /\ reward.reward_duration_end = 0
      /\ reward.reward_rate = 0 /\ reward.reward_per_token_stored = 0
      /\ reward.last_update_time = 0 /\ reward.empty_seconds = 0
      /\ reward \in RewardInfo
  BY DEF Init, RewardInfo
<1>3. now = 1 /\ ElapsedSince(reward, now) = 0
  BY <1>2 DEF Init, ElapsedSince, Least
<1>4. first \in UserRewardInfo /\ first.pending = 0 /\ first.checkpoint = 0
      /\ first.liquidity = liquidity
  BY <1>1 DEF NewPosition, UserRewardInfo
<1>5. position = [p \in Positions |-> IF p = First THEN first ELSE NewPosition]
  BY DEF Init
<1> HIDE DEF first
<1>6. position \in PositionsType
  BY <1>4, <1>5, NewPositionIsEmpty DEF PositionsType
<1>7. ASSUME NEW p \in Positions
      PROVE  /\ position[p].checkpoint = 0 /\ position[p].pending = 0
             /\ claimed[p] = 0 /\ share[p] = 0
             /\ p # First => position[p] = NewPosition
             /\ p = First => position[p].liquidity = liquidity
  BY <1>4, <1>5, NewPositionIsEmpty DEF Init
<1>8. ASSUME NEW p \in Positions
      PROVE  Weight(0, position[p]) = 0
  <2>1. position[p].liquidity \in Nat
    BY <1>6, PositionFields DEF PositionsType
  <2>2. 0 * Scale = 0 /\ position[p].liquidity * (0 - 0) = 0
    BY <2>1, Units
  <2> QED
    BY <1>7, <2>2 DEF Weight
<1>9. TypeOK
  <2>1. /\ vault = 0 /\ frozen = FALSE /\ fundings = 0 /\ moves = 0 /\ open = {First}
        /\ claimed = [p \in Positions |-> 0] /\ share = [p \in Positions |-> 0]
    BY DEF Init
  <2>2. claimed \in [Positions -> Nat] /\ share \in [Positions -> Nat]
    BY <2>1
  <2>3. open \subseteq Positions /\ frozen \in BOOLEAN
    BY <2>1, <1>1
  <2>4. vault \in Nat /\ fundings \in Nat /\ moves \in Nat /\ now \in Nat
        /\ ElapsedSince(reward, now) >= 0
    BY <2>1, <1>3
  <2>5. position \in [Positions -> UserRewardInfo]
    BY <1>6 DEF PositionsType
  <2> QED
    BY <2>2, <2>3, <2>4, <2>5, <1>1, <1>2 DEF TypeOK
<1>10. RewardOK
  BY <1>2, <1>3 DEF RewardOK
<1>11. liquidity = Total(LiquidityOf(position), Positions)
  <2> DEFINE f == [p \in Positions |-> 0]
             g == LiquidityOf(position)
  <2>1. \A p \in Positions : f[p] \in Int
    OBVIOUS
  <2>2. g[First] \in Int /\ g[First] = liquidity
    BY <1>1, <1>7 DEF LiquidityOf
  <2>3. \A q \in Positions : q # First => g[q] = f[q]
    BY <1>7, NewPositionIsEmpty DEF LiquidityOf
  <2>4. f[First] = 0
    BY <1>1
  <2>5. \A p \in Positions : f[p] = 0
    OBVIOUS
  <2>6. Total(f, Positions) = 0
    <3> HIDE DEF f
    <3> QED
      BY <2>5, SumZero, RewardsAssumption
  <2> HIDE DEF f, g
  <2>7. Total(g, Positions) = Total(f, Positions) + (g[First] - f[First])
    BY <2>1, <2>2, <2>3, <1>1, SumOne, RewardsAssumption
  <2> QED
    BY <2>2, <2>4, <2>6, <2>7, <1>1 DEF g
<1>12. PositionsOK
  <2>1. \A p \in Positions : p \notin open => position[p] = NewPosition
    BY <1>7 DEF Init
  <2> QED
    BY <2>1, <1>1, <1>2, <1>7, <1>11 DEF PositionsOK
<1>13. Books(reward, position, vault)
  <2> DEFINE f == Weights(0, position)
  <2>1. \A p \in Positions : f[p] = 0
    BY <1>8 DEF Weights
  <2>2. Total(f, Positions) = 0
    <3> HIDE DEF f
    <3> QED
      BY <2>1, SumZero, RewardsAssumption
  <2>3. LIQUIDITY_UNIT * (0 * (0 + (0 - 0))) = 0 /\ 0 * Scale = 0
    BY Units
  <2>4. vault = 0
    BY DEF Init
  <2> QED
    BY <2>2, <2>3, <2>4, <1>2 DEF Books, Promised
<1>14. ASSUME NEW p \in Positions
       PROVE  Fair(reward, liquidity, position[p], claimed[p], share[p], now)
  <2>1. position[p] \in UserRewardInfo
    BY <1>6 DEF PositionsType
  <2>2. 0 * Scale = 0 /\ SHARES * (0 + 0) = 0 /\ 0 * LIQUIDITY_UNIT = 0
    BY Units
  <2>3. Settled(0, position[p], claimed[p], share[p])
    BY <1>7, <1>8, <2>2 DEF Settled
  <2>4. now \in Nat /\ claimed[p] \in Nat /\ share[p] \in Nat
        /\ position[p].checkpoint <= reward.reward_per_token_stored
    BY <1>2, <1>3, <1>7
  <2> QED
    BY <2>1, <2>3, <2>4, <1>1, <1>2, <1>3, FairWhenSettled
<1> QED
  BY <1>9, <1>10, <1>12, <1>13, <1>14 DEF RewardsInv

\* Only which kind of reward it is changes: neither its rate nor its times.
LEMMA EditKeepsInv ==
    ASSUME RewardsInv, reward' \in RewardInfo,
           UNCHANGED <<liquidity, open, position, vault, frozen, now, fundings, moves, claimed, share>>,
           reward'.initialized, reward'.reward_duration \in Durations,
           reward'.reward_duration_end = reward.reward_duration_end,
           reward'.reward_rate = reward.reward_rate,
           reward'.reward_per_token_stored = reward.reward_per_token_stored,
           reward'.last_update_time = reward.last_update_time,
           reward'.empty_seconds = reward.empty_seconds
    PROVE  RewardsInv'
<1>1. \A time : ElapsedSince(reward', time) = ElapsedSince(reward, time)
  BY DEF ElapsedSince
<1>2. TypeOK'
  BY <1>1 DEF RewardsInv, TypeOK
<1>3. RewardOK'
  BY DEF RewardsInv, RewardOK
<1>4. PositionsOK'
  BY DEF RewardsInv, PositionsOK
<1>5. Books(reward', position', vault')
  BY DEF RewardsInv, Books, Promised
<1>6. ASSUME NEW p \in Positions
      PROVE  Fair(reward', liquidity', position'[p], claimed'[p], share'[p], now')
  <2>1. Fair(reward, liquidity, position[p], claimed[p], share[p], now)
    BY DEF RewardsInv
  <2> QED
    BY <2>1, <1>1 DEF Fair, PerSecond
<1> QED
  BY <1>2, <1>3, <1>4, <1>5, <1>6 DEF RewardsInv

LEMMA EditStep ==
    ASSUME RewardsInv, NEW signer \in Signers, EditorStep(signer)
    PROVE  RewardsInv'
<1>1. reward \in RewardInfo
  BY InvFacts
<1>2. ASSUME NEW d \in Durations, NEW f \in Funders, InitializeReward(signer, d, f)
      PROVE  RewardsInv'
  <2>1. /\ reward' = [reward EXCEPT !.initialized = TRUE, !.funder = f,
                                    !.reward_duration = d]
        /\ UNCHANGED <<liquidity, open, position, vault, frozen, now, fundings, moves, claimed, share>>
    BY <1>2 DEF InitializeReward
  <2>2. /\ reward' \in RewardInfo /\ reward'.initialized /\ reward'.reward_duration \in Durations
        /\ reward'.reward_duration_end = reward.reward_duration_end
        /\ reward'.reward_rate = reward.reward_rate
        /\ reward'.reward_per_token_stored = reward.reward_per_token_stored
        /\ reward'.last_update_time = reward.last_update_time
        /\ reward'.empty_seconds = reward.empty_seconds
    BY <1>1, <2>1 DEF RewardInfo
  <2> QED
    BY <2>1, <2>2, EditKeepsInv
<1>3. ASSUME NEW d \in Durations, UpdateRewardDuration(signer, d)
      PROVE  RewardsInv'
  <2>1. /\ reward' = [reward EXCEPT !.reward_duration = d] /\ reward.initialized
        /\ UNCHANGED <<liquidity, open, position, vault, frozen, now, fundings, moves, claimed, share>>
    BY <1>3 DEF UpdateRewardDuration
  <2>2. /\ reward' \in RewardInfo /\ reward'.initialized /\ reward'.reward_duration \in Durations
        /\ reward'.reward_duration_end = reward.reward_duration_end
        /\ reward'.reward_rate = reward.reward_rate
        /\ reward'.reward_per_token_stored = reward.reward_per_token_stored
        /\ reward'.last_update_time = reward.last_update_time
        /\ reward'.empty_seconds = reward.empty_seconds
    BY <1>1, <2>1 DEF RewardInfo
  <2> QED
    BY <2>1, <2>2, EditKeepsInv
<1>4. ASSUME NEW f \in Funders, UpdateRewardFunder(signer, f)
      PROVE  RewardsInv'
  <2>1. /\ reward' = [reward EXCEPT !.funder = f] /\ reward.initialized
        /\ UNCHANGED <<liquidity, open, position, vault, frozen, now, fundings, moves, claimed, share>>
    BY <1>4 DEF UpdateRewardFunder
  <2>2. reward.reward_duration \in Durations
    BY <2>1, InvFacts
  <2>3. /\ reward' \in RewardInfo /\ reward'.initialized /\ reward'.reward_duration \in Durations
        /\ reward'.reward_duration_end = reward.reward_duration_end
        /\ reward'.reward_rate = reward.reward_rate
        /\ reward'.reward_per_token_stored = reward.reward_per_token_stored
        /\ reward'.last_update_time = reward.last_update_time
        /\ reward'.empty_seconds = reward.empty_seconds
    BY <1>1, <2>1, <2>2 DEF RewardInfo
  <2> QED
    BY <2>1, <2>3, EditKeepsInv
<1> QED
  BY <1>2, <1>3, <1>4 DEF EditorStep

LEMMA CreateStep ==
    ASSUME RewardsInv, NEW p \in Positions, CreatePosition(p)
    PROVE  RewardsInv'
<1>1. position[p] = NewPosition /\ position \in PositionsType
  BY InvFacts DEF CreatePosition
<1>2. position' = position
  BY <1>1 DEF CreatePosition, PositionsType
<1>3. /\ UNCHANGED <<reward, liquidity, position, vault, frozen, now, fundings, moves, claimed, share>>
      /\ open' = open \cup {p}
  BY <1>2 DEF CreatePosition
<1>4. TypeOK'
  BY <1>3 DEF RewardsInv, TypeOK
<1>5. RewardOK' /\ PositionsOK'
  BY <1>3 DEF RewardsInv, RewardOK, PositionsOK
<1>6. Books(reward', position', vault')
  BY <1>3 DEF RewardsInv
<1>7. \A q \in Positions : Fair(reward', liquidity', position'[q], claimed'[q], share'[q], now')
  BY <1>3 DEF RewardsInv
<1> QED
  BY <1>4, <1>5, <1>6, <1>7 DEF RewardsInv

\* An empty position has nothing outstanding, though nobody settles it.
LEMMA CloseStep ==
    ASSUME RewardsInv, NEW p \in Positions, ClosePosition(p)
    PROVE  RewardsInv'
<1> DEFINE stored == reward.reward_per_token_stored
           pos == position[p]
<1>1. /\ position' = [position EXCEPT ![p] = NewPosition] /\ open' = open \ {p}
      /\ UNCHANGED <<reward, liquidity, vault, frozen, now, fundings, moves, claimed, share>>
      /\ pos.pending = 0 /\ pos.liquidity = 0
  BY DEF ClosePosition, IsEmpty
<1>2. /\ position \in PositionsType /\ reward \in RewardInfo /\ stored \in Nat /\ vault \in Nat
      /\ pos \in UserRewardInfo /\ Checked(stored, position) /\ Books(reward, position, vault)
  BY InvFacts, RewardFields DEF RewardsInv, PositionsType
<1>3. Weight(stored, pos) = 0
  <2>1. pos.checkpoint \in Nat
    BY <1>2, PositionFields
  <2>2. 0 * Scale = 0 /\ 0 * (stored - pos.checkpoint) = 0
    BY <2>1, <1>2, Units
  <2> QED
    BY <1>1, <2>2 DEF Weight
<1>4. position' \in PositionsType
  BY <1>1, <1>2, NewPositionIsEmpty DEF PositionsType
<1>5. /\ position'[p] = NewPosition
      /\ \A q \in Positions : q # p => position'[q] = position[q]
  BY <1>1, <1>2 DEF PositionsType
<1>6. TypeOK'
  BY <1>1, <1>4 DEF RewardsInv, TypeOK, PositionsType
<1>7. RewardOK'
  BY <1>1 DEF RewardsInv, RewardOK
<1>8. PositionsOK'
  <2>1. LiquidityOf(position') = LiquidityOf(position)
    BY <1>1, <1>5, NewPositionIsEmpty DEF LiquidityOf
  <2>2. liquidity' = Total(LiquidityOf(position'), Positions) /\ liquidity' <= MaxLiquidity
    BY <1>1, <2>1 DEF RewardsInv, PositionsOK
  <2>3. ASSUME NEW q \in Positions
        PROVE  /\ position'[q].checkpoint <= reward'.reward_per_token_stored
               /\ q \notin open' => position'[q] = NewPosition
    BY <1>1, <1>2, <1>5, NewPositionIsEmpty DEF RewardsInv, PositionsOK
  <2> QED
    BY <2>2, <2>3 DEF PositionsOK
<1>9. Books(reward', position', vault')
  <2>1. 0 + 0 * Scale <= 0 /\ vault - 0 = vault /\ 0 <= stored
    BY <1>2, Units
  <2>2. Books(reward, [position EXCEPT ![p] = NewPosition], vault - 0)
    BY <1>2, <1>3, <2>1, BooksOne, NewPositionIsEmpty
  <2> QED
    BY <1>1, <2>1, <2>2
<1>10. ASSUME NEW q \in Positions
       PROVE  Fair(reward', liquidity', position'[q], claimed'[q], share'[q], now')
  <2>1. Fair(reward, liquidity, position[q], claimed[q], share[q], now)
    BY DEF RewardsInv
  <2>2. CASE q # p
    BY <1>1, <1>5, <2>1, <2>2
  <2>3. CASE q = p
    <3>1. Weight(stored, NewPosition) = Weight(stored, pos)
      BY <1>2, <1>3, NewPositionIsEmpty
    <3>2. PerSecond(reward, liquidity, NewPosition) = PerSecond(reward, liquidity, pos)
      BY <1>1, NewPositionIsEmpty DEF PerSecond
    <3> QED
      BY <1>1, <1>5, <2>1, <2>3, <3>1, <3>2 DEF Fair
  <2> QED
    BY <2>2, <2>3
<1> QED
  BY <1>6, <1>7, <1>8, <1>9, <1>10 DEF RewardsInv

LEMMA FreezeStep ==
    ASSUME RewardsInv, FreezeOrThaw
    PROVE  RewardsInv'
<1>1. /\ UNCHANGED <<reward, liquidity, open, position, vault, now, fundings, moves, claimed, share>>
      /\ frozen' \in BOOLEAN
  BY InvFacts DEF FreezeOrThaw
<1>2. TypeOK'
  BY <1>1 DEF RewardsInv, TypeOK
<1>3. RewardOK' /\ PositionsOK'
  BY <1>1 DEF RewardsInv, RewardOK, PositionsOK
<1>4. Books(reward', position', vault')
  BY <1>1 DEF RewardsInv
<1>5. \A q \in Positions : Fair(reward', liquidity', position'[q], claimed'[q], share'[q], now')
  BY <1>1 DEF RewardsInv
<1> QED
  BY <1>2, <1>3, <1>4, <1>5 DEF RewardsInv

\* A second adds to what is outstanding of a position exactly its share.
LEMMA TickStep ==
    ASSUME RewardsInv, Tick
    PROVE  RewardsInv'
<1> DEFINE end == reward.reward_duration_end
           K == SHARES \div liquidity
           earning == now < end /\ liquidity > 0
<1>1. /\ now' = now + 1
      /\ UNCHANGED <<reward, liquidity, open, position, vault, frozen, fundings, moves, claimed>>
      /\ share' = IF earning
                  THEN [p \in Positions |-> share[p] +
                          reward.reward_rate * position[p].liquidity * K]
                  ELSE share
  BY DEF Tick
<1>2. /\ reward \in RewardInfo /\ now \in Nat /\ liquidity \in Nat /\ position \in PositionsType
      /\ claimed \in [Positions -> Nat] /\ share \in [Positions -> Nat] /\ Timely(reward, now)
      /\ Checked(reward.reward_per_token_stored, position)
  BY InvFacts
<1>3. /\ end \in Nat /\ reward.reward_rate \in Nat /\ reward.last_update_time \in Nat
      /\ reward.reward_per_token_stored \in Nat
  BY <1>2, RewardFields
<1>4. ASSUME NEW p \in Positions
      PROVE  /\ position[p] \in UserRewardInfo /\ PerSecond(reward, liquidity, position[p]) \in Nat
             /\ claimed[p] \in Nat /\ share[p] \in Nat
             /\ position[p].checkpoint <= reward.reward_per_token_stored
  BY <1>2, PerSecondNat DEF PositionsType, Checked
<1>5. ASSUME NEW p \in Positions
      PROVE  share'[p] = IF earning THEN share[p] + PerSecond(reward, liquidity, position[p])
                         ELSE share[p]
  BY <1>1 DEF PerSecond
<1>6. share' \in [Positions -> Nat]
  <2>1. CASE earning
    <3>1. ASSUME NEW p \in Positions
          PROVE  share[p] + reward.reward_rate * position[p].liquidity * K \in Nat
      <4>1. PerSecond(reward, liquidity, position[p])
              = reward.reward_rate * position[p].liquidity * K
        BY <2>1 DEF PerSecond
      <4>2. share[p] + PerSecond(reward, liquidity, position[p]) \in Nat
        BY <1>4
      <4> QED
        BY <4>1, <4>2
    <3> HIDE DEF K
    <3> QED
      BY <1>1, <2>1, <3>1
  <2>2. CASE ~earning
    BY <1>1, <1>2, <2>2
  <2> QED
    BY <2>1, <2>2
<1>7. /\ ElapsedSince(reward, now) \in Nat
      /\ now < end => ElapsedSince(reward, now + 1) = ElapsedSince(reward, now) + 1
      /\ ~(now < end) => ElapsedSince(reward, now + 1) = ElapsedSince(reward, now)
  BY <1>2, <1>3 DEF Timely, ElapsedSince, Least
<1>8. TypeOK'
  <2>1. ElapsedSince(reward', now') >= 0 /\ now' \in Nat
    BY <1>1, <1>2, <1>7
  <2> QED
    BY <1>1, <1>6, <2>1 DEF RewardsInv, TypeOK
<1>9. RewardOK'
  BY <1>1, <1>2, <1>3 DEF RewardsInv, RewardOK, Timely
<1>10. PositionsOK'
  BY <1>1 DEF RewardsInv, PositionsOK
<1>11. Books(reward', position', vault')
  BY <1>1 DEF RewardsInv
<1>12. ASSUME NEW p \in Positions
       PROVE  Fair(reward', liquidity', position'[p], claimed'[p], share'[p], now')
  <2> DEFINE x == SHARES * (claimed[p] * Scale
                              + Weight(reward.reward_per_token_stored, position[p]))
             s == PerSecond(reward, liquidity, position[p])
             e == ElapsedSince(reward, now)
             e1 == ElapsedSince(reward, now + 1)
             U == LIQUIDITY_UNIT
             y == share[p]
             y1 == share'[p]
  <2>1. x + U * (s * e) <= y * U
    BY DEF RewardsInv, Fair
  <2>2. x \in Nat /\ s \in Nat /\ e \in Nat /\ y \in Nat /\ U \in Nat
    BY <1>3, <1>4, <1>7, SharesNat, Units
  <2>3. \/ e1 = e + 1 /\ y1 = y + s
        \/ e1 = e /\ y1 = y
        \/ s = 0 /\ y1 = y /\ e1 \in Nat
    <3>1. liquidity = 0 => s = 0
      BY DEF PerSecond
    <3>2. now < end => e1 = e + 1
      BY <1>7
    <3>3. ~(now < end) => e1 = e
      BY <1>7
    <3>4. earning => y1 = y + s
      BY <1>5
    <3>5. ~earning => y1 = y
      BY <1>5
    <3>6. e1 \in Nat
      BY <1>7
    <3> HIDE DEF s, e, e1, y, y1, end
    <3> QED
      BY <3>1, <3>2, <3>3, <3>4, <3>5, <3>6, <1>2
  <2>4. Fair(reward', liquidity', position'[p], claimed'[p], share'[p], now')
          <=> x + U * (s * e1) <= y1 * U
    BY <1>1 DEF Fair
  <2> HIDE DEF x, s, e, e1, U, y, y1
  <2>5. CASE e1 = e + 1 /\ y1 = y + s
    <3>1. s * (e + 1) = s * e + s /\ s * e \in Nat
      BY <2>2
    <3>2. U * (s * e + s) = U * (s * e) + U * s /\ U * (s * e) \in Nat /\ U * s \in Nat
      BY <2>2, <3>1
    <3>3. (y + s) * U = y * U + U * s /\ y * U \in Nat
      BY <2>2
    <3> QED
      BY <2>1, <2>2, <2>4, <2>5, <3>1, <3>2, <3>3
  <2>6. CASE e1 = e /\ y1 = y
    BY <2>1, <2>4, <2>6
  <2>7. CASE s = 0 /\ y1 = y /\ e1 \in Nat
    <3>1. U * (s * e1) = 0 /\ U * (s * e) = 0
      BY <2>2, <2>7
    <3> QED
      BY <2>1, <2>2, <2>4, <2>7, <3>1
  <2> QED
    BY <2>3, <2>5, <2>6, <2>7
<1> QED
  BY <1>8, <1>9, <1>10, <1>11, <1>12 DEF RewardsInv

-----------------------------------------------------------------------------
(* The instructions that settle positions                                  *)

\* A position checkpointed now is worth what is pending.
LEMMA WeightSettled ==
    ASSUME NEW pos \in UserRewardInfo
    PROVE  Weight(pos.checkpoint, pos) = pos.pending * Scale /\ pos.pending * Scale \in Nat
<1>1. pos.liquidity \in Nat /\ pos.pending \in Nat /\ pos.checkpoint \in Nat
  BY PositionFields
<1>2. pos.liquidity * (pos.checkpoint - pos.checkpoint) = 0
  BY <1>1
<1>3. pos.pending * Scale \in Nat
  BY <1>1, Units
<1> QED
  BY <1>2, <1>3 DEF Weight

\* Paying out what was earned, or losing it, never takes a position beyond its
\* share.
LEMMA SettledLess ==
    ASSUME NEW stored, NEW pos, NEW new, NEW paid \in Nat, NEW more \in Nat, NEW part \in Nat,
           Weight(stored, pos) \in Nat, Weight(stored, new) \in Nat,
           Weight(stored, new) + more * Scale <= Weight(stored, pos),
           Settled(stored, pos, paid, part)
    PROVE  Settled(stored, new, paid + more, part)
<1> DEFINE v == Weight(stored, pos)
           w == Weight(stored, new)
           x == paid * Scale + v
           y == (paid + more) * Scale + w
           U == part * LIQUIDITY_UNIT
<1>1. /\ (paid + more) * Scale = paid * Scale + more * Scale
      /\ paid * Scale \in Nat /\ more * Scale \in Nat /\ (paid + more) * Scale \in Nat
  BY Units
<1>2. w + more * Scale <= v /\ v \in Nat /\ w \in Nat
  OBVIOUS
<1>u. U \in Nat
  BY Units
<1> HIDE DEF v, w, U
<1>3. x \in Nat /\ y \in Nat /\ y <= x
  BY <1>1, <1>2
<1>4. SHARES * x <= U
  BY DEF Settled, v, U
<1> HIDE DEF x, y
<1>5. SHARES * y <= SHARES * x
  <2>1. y * SHARES <= x * SHARES
    BY <1>3, Units, Monotone
  <2> QED
    BY <2>1, <1>3, Units
<1>6. SHARES * y \in Nat /\ SHARES * x \in Nat
  BY <1>3, Units
<1>7. SHARES * y <= U
  BY <1>4, <1>5, <1>6, <1>u
<1> QED
  BY <1>7 DEF Settled, y, w, U

LEMMA ChangeStep ==
    ASSUME RewardsInv, NEW p \in Positions, NEW delta \in Int, ChangeLiquidity(p, delta)
    PROVE  RewardsInv'
<1> DEFINE c == Current
           stored == c.reward_per_token_stored
           pos == UpdatePosition(c, position[p])
           new == [pos EXCEPT !.liquidity = @ + delta]
<1>1. /\ p \in open /\ position[p].liquidity + delta >= 0
      /\ liquidity + delta <= MaxLiquidity
      /\ reward' = c /\ position' = [position EXCEPT ![p] = new]
      /\ liquidity' = liquidity + delta /\ moves' = moves + 1
      /\ UNCHANGED <<open, vault, frozen, now, fundings, claimed, share>>
  BY DEF ChangeLiquidity
<1>2. /\ pos \in UserRewardInfo /\ stored \in Nat
      /\ pos.liquidity = position[p].liquidity /\ pos.checkpoint = stored
      /\ pos.pending * Scale <= Weight(stored, position[p])
      /\ position[p] \in UserRewardInfo /\ Weight(stored, position[p]) \in Nat
  BY SettledFacts
<1>3. /\ Fresh(c, now) /\ c \in RewardInfo /\ Checked(stored, position)
      /\ Books(c, position, vault)
      /\ c.initialized = reward.initialized /\ c.reward_duration = reward.reward_duration
      /\ ~c.initialized => stored = 0
      /\ \A q \in Positions : Settled(stored, position[q], claimed[q], share[q])
  BY CurrentFacts DEF Fresh
<1>4. /\ position \in PositionsType /\ liquidity \in Nat /\ vault \in Nat
      /\ now \in Nat /\ fundings \in Nat /\ moves \in Nat
      /\ frozen \in BOOLEAN /\ open \subseteq Positions
      /\ claimed \in [Positions -> Nat] /\ share \in [Positions -> Nat]
      /\ liquidity = Total(LiquidityOf(position), Positions)
      /\ reward.initialized => reward.reward_duration \in Durations
      /\ \A q \in Positions : q \notin open => position[q] = NewPosition
  BY InvFacts
<1>5. /\ new \in UserRewardInfo /\ new.liquidity = position[p].liquidity + delta
      /\ new.checkpoint = stored /\ new.pending = pos.pending
  <2>1. pos.liquidity + delta \in Nat
    BY <1>1, <1>2, PositionFields
  <2> HIDE DEF pos, stored
  <2> QED
    BY <1>2, <2>1 DEF UserRewardInfo
<1>6. Weight(stored, new) <= Weight(stored, position[p]) /\ Weight(stored, new) \in Nat
  <2> HIDE DEF new, pos, stored
  <2> QED
    BY <1>2, <1>5, WeightSettled
<1> HIDE DEF new, pos
<1>7. position' \in PositionsType /\ position'[p] = new
      /\ \A q \in Positions : q # p => position'[q] = position[q]
  BY <1>1, <1>4, <1>5 DEF PositionsType
<1>8. liquidity' = Total(LiquidityOf(position'), Positions)
  <2> DEFINE f == LiquidityOf(position)
             g == LiquidityOf(position')
  <2>1. \A q \in Positions : f[q] \in Int
    BY <1>4, PositionFields DEF LiquidityOf, PositionsType
  <2>2. f[p] = position[p].liquidity /\ g[p] = position[p].liquidity + delta
    BY <1>5, <1>7 DEF LiquidityOf
  <2>3. \A q \in Positions : q # p => g[q] = f[q]
    BY <1>7 DEF LiquidityOf
  <2>4. position[p].liquidity \in Int
    BY <1>2, PositionFields
  <2>5. liquidity = Total(f, Positions)
    BY <1>4
  <2> HIDE DEF f, g
  <2>6. Total(g, Positions) = Total(f, Positions) + (g[p] - f[p])
    BY <2>1, <2>2, <2>3, <2>4, SumOne, RewardsAssumption
  <2>7. Total(g, Positions) = liquidity'
    BY <2>2, <2>4, <2>5, <2>6, <1>1, <1>4
  <2> QED
    BY <2>7 DEF g
<1>9. liquidity' \in Nat
  <2>1. \A q \in Positions : LiquidityOf(position')[q] \in Nat
    BY <1>7, PositionFields DEF LiquidityOf, PositionsType
  <2> QED
    BY <2>1, <1>8, SumNat, RewardsAssumption
<1>10. TypeOK'
  <2>1. ElapsedSince(reward', now') >= 0
    BY <1>1, <1>3 DEF Fresh
  <2> QED
    BY <2>1, <1>1, <1>3, <1>4, <1>7, <1>9 DEF TypeOK, PositionsType
<1>11. Checked(reward'.reward_per_token_stored, position')
  BY <1>1, <1>2, <1>3, <1>5, <1>7 DEF Checked
<1>12. Books(reward', position', vault')
  <2>1. Weight(stored, new) + 0 * Scale <= Weight(stored, position[p])
        /\ vault - 0 = vault /\ new.checkpoint <= stored
    BY <1>2, <1>4, <1>5, <1>6, Units
  <2>2. Books(c, [position EXCEPT ![p] = new], vault - 0)
    BY <2>1, <1>3, <1>4, <1>5, BooksOne
  <2> QED
    BY <2>1, <2>2, <1>1
<1>13. ASSUME NEW q \in Positions
       PROVE  Settled(reward'.reward_per_token_stored, position'[q], claimed'[q], share'[q])
  <2>1. CASE q # p
    BY <2>1, <1>1, <1>3, <1>7
  <2>2. CASE q = p
    <3>1. /\ claimed[p] \in Nat /\ share[p] \in Nat /\ claimed[p] + 0 = claimed[p]
          /\ Weight(stored, new) + 0 * Scale <= Weight(stored, position[p])
      BY <1>2, <1>4, <1>6, Units
    <3>2. Settled(stored, new, claimed[p] + 0, share[p])
      BY <3>1, <1>2, <1>3, <1>6, SettledLess
    <3> QED
      BY <3>1, <3>2, <2>2, <1>1, <1>7
  <2> QED
    BY <2>1, <2>2
<1>14. \A q \in Positions : q \notin open' => position'[q] = NewPosition
  BY <1>1, <1>4, <1>7
<1> QED
  BY <1>1, <1>3, <1>4, <1>8, <1>10, <1>11, <1>12, <1>13, <1>14, InvWhenFresh

LEMMA ClaimStep ==
    ASSUME RewardsInv, NEW p \in Positions, NEW skip \in BOOLEAN, ClaimReward(p, skip)
    PROVE  RewardsInv'
<1> DEFINE c == Current
           stored == c.reward_per_token_stored
           pos == UpdatePosition(c, position[p])
           due == pos.pending
           new == [pos EXCEPT !.pending = 0]
<1>1. /\ p \in open /\ reward' = c /\ position' = [position EXCEPT ![p] = new]
      /\ UNCHANGED <<liquidity, open, frozen, now, fundings, moves, share>>
  BY DEF ClaimReward
<1>c. \/ due <= vault /\ vault' = vault - due
         /\ claimed' = [claimed EXCEPT ![p] = claimed[p] + due]
      \/ UNCHANGED <<vault, claimed>>
  BY DEF ClaimReward
<1>2. /\ pos \in UserRewardInfo /\ stored \in Nat
      /\ pos.liquidity = position[p].liquidity /\ pos.checkpoint = stored
      /\ due * Scale <= Weight(stored, position[p])
      /\ position[p] \in UserRewardInfo /\ Weight(stored, position[p]) \in Nat
  BY SettledFacts
<1>3. /\ Fresh(c, now) /\ c \in RewardInfo /\ Checked(stored, position)
      /\ Books(c, position, vault)
      /\ c.initialized = reward.initialized /\ c.reward_duration = reward.reward_duration
      /\ ~c.initialized => stored = 0
      /\ \A q \in Positions : Settled(stored, position[q], claimed[q], share[q])
  BY CurrentFacts DEF Fresh
<1>4. /\ position \in PositionsType /\ liquidity \in Nat /\ vault \in Nat
      /\ liquidity <= MaxLiquidity
      /\ now \in Nat /\ fundings \in Nat /\ moves \in Nat
      /\ frozen \in BOOLEAN /\ open \subseteq Positions
      /\ claimed \in [Positions -> Nat] /\ share \in [Positions -> Nat]
      /\ liquidity = Total(LiquidityOf(position), Positions)
      /\ reward.initialized => reward.reward_duration \in Durations
      /\ \A q \in Positions : q \notin open => position[q] = NewPosition
  BY InvFacts DEF RewardsInv, PositionsOK
<1>5. /\ new \in UserRewardInfo /\ new.liquidity = position[p].liquidity
      /\ new.checkpoint = stored /\ new.pending = 0 /\ due \in Nat
  <2>1. due \in Nat
    BY <1>2, PositionFields
  <2> HIDE DEF pos, stored
  <2> QED
    BY <1>2, <2>1 DEF UserRewardInfo
<1> HIDE DEF new, due, pos
<1>6. Weight(stored, new) = 0
  <2>1. 0 * Scale = 0
    BY Units
  <2> HIDE DEF stored
  <2> QED
    BY <1>5, <2>1, WeightSettled
<1>7. position' \in PositionsType /\ position'[p] = new
      /\ \A q \in Positions : q # p => position'[q] = position[q]
  BY <1>1, <1>4, <1>5 DEF PositionsType
<1>8. liquidity' = Total(LiquidityOf(position'), Positions)
  <2>1. LiquidityOf(position') = LiquidityOf(position)
    BY <1>5, <1>7 DEF LiquidityOf
  <2> QED
    BY <2>1, <1>1, <1>4
<1>9. PICK paid \in Nat : /\ paid <= vault /\ vault' = vault - paid
                          /\ claimed' = [claimed EXCEPT ![p] = claimed[p] + paid]
                          /\ paid * Scale <= Weight(stored, position[p])
  <2>1. CASE /\ due <= vault /\ vault' = vault - due
             /\ claimed' = [claimed EXCEPT ![p] = claimed[p] + due]
    BY <2>1, <1>2, <1>5
  <2>2. CASE UNCHANGED <<vault, claimed>>
    <3>1. 0 * Scale = 0 /\ 0 <= vault /\ vault' = vault - 0
      BY <2>2, <1>4, Units
    <3>2. claimed' = [claimed EXCEPT ![p] = claimed[p] + 0]
      BY <2>2, <1>4
    <3>3. 0 * Scale <= Weight(stored, position[p])
      BY <3>1, <1>2
    <3> WITNESS 0 \in Nat
    <3> QED
      BY <3>1, <3>2, <3>3
  <2> QED
    BY <1>c, <2>1, <2>2
<1>10. /\ vault' \in Nat /\ claimed' \in [Positions -> Nat] /\ claimed'[p] = claimed[p] + paid
       /\ \A q \in Positions : q # p => claimed'[q] = claimed[q]
  BY <1>4, <1>9
<1>11. TypeOK'
  <2>1. ElapsedSince(reward', now') >= 0
    BY <1>1, <1>3 DEF Fresh
  <2> QED
    BY <2>1, <1>1, <1>3, <1>4, <1>7, <1>10 DEF TypeOK, PositionsType
<1>12. Checked(reward'.reward_per_token_stored, position')
  BY <1>1, <1>2, <1>3, <1>5, <1>7 DEF Checked
<1>13. Weight(stored, new) + paid * Scale <= Weight(stored, position[p])
       /\ Weight(stored, new) \in Nat /\ new.checkpoint <= stored
  BY <1>2, <1>5, <1>6, <1>9, Units
<1>14. Books(reward', position', vault')
  <2>1. Books(c, [position EXCEPT ![p] = new], vault - paid)
    BY <1>3, <1>4, <1>5, <1>13, BooksOne
  <2> QED
    BY <2>1, <1>1, <1>9
<1>15. ASSUME NEW q \in Positions
       PROVE  Settled(reward'.reward_per_token_stored, position'[q], claimed'[q], share'[q])
  <2>1. CASE q # p
    BY <2>1, <1>1, <1>3, <1>7, <1>10
  <2>2. CASE q = p
    <3>1. claimed[p] \in Nat /\ share[p] \in Nat
      BY <1>4
    <3>2. Settled(stored, new, claimed[p] + paid, share[p])
      BY <3>1, <1>2, <1>3, <1>13, SettledLess
    <3> QED
      BY <3>2, <2>2, <1>1, <1>7, <1>10
  <2> QED
    BY <2>1, <2>2
<1>16. \A q \in Positions : q \notin open' => position'[q] = NewPosition
  BY <1>1, <1>4, <1>7
<1> QED
  BY <1>1, <1>3, <1>4, <1>8, <1>11, <1>12, <1>14, <1>15, <1>16, InvWhenFresh

\* What is given back is at most what the books promise for those seconds.
LEMMA WithdrawStep ==
    ASSUME RewardsInv, NEW signer \in Signers, WithdrawIneligibleReward(signer)
    PROVE  RewardsInv'
<1> DEFINE c == Current
           stored == c.reward_per_token_stored
           new == [c EXCEPT !.empty_seconds = 0]
           amount == Ineligible(c)
           missed == c.empty_seconds * c.reward_rate
<1>1. /\ reward' = new /\ vault' = vault - amount /\ amount <= vault
      /\ now > reward.reward_duration_end
      /\ UNCHANGED <<liquidity, open, position, frozen, now, fundings, moves, claimed, share>>
  BY DEF WithdrawIneligibleReward
<1>2. /\ Fresh(c, now) /\ c \in RewardInfo /\ Checked(stored, position)
      /\ Books(c, position, vault)
      /\ c.initialized = reward.initialized /\ c.reward_duration = reward.reward_duration
      /\ c.reward_duration_end = reward.reward_duration_end
      /\ c.last_update_time = Least(now, reward.reward_duration_end)
      /\ ~c.initialized => stored = 0
      /\ \A q \in Positions : Settled(stored, position[q], claimed[q], share[q])
  BY CurrentFacts DEF Fresh
<1>3. /\ position \in PositionsType /\ liquidity \in Nat /\ vault \in Nat
      /\ liquidity <= MaxLiquidity
      /\ now \in Nat /\ fundings \in Nat /\ moves \in Nat
      /\ frozen \in BOOLEAN /\ open \subseteq Positions
      /\ claimed \in [Positions -> Nat] /\ share \in [Positions -> Nat]
      /\ liquidity = Total(LiquidityOf(position), Positions)
      /\ reward.initialized => reward.reward_duration \in Durations
      /\ \A q \in Positions : q \notin open => position[q] = NewPosition
  BY InvFacts DEF RewardsInv, PositionsOK
<1>4. /\ c.reward_duration_end \in Nat /\ c.reward_rate \in Nat /\ stored \in Nat
      /\ c.last_update_time \in Nat /\ c.empty_seconds \in Nat
  BY <1>2, RewardFields
<1>5. c.last_update_time = c.reward_duration_end
  BY <1>1, <1>2, <1>3, <1>4 DEF Least
<1>6. /\ new \in RewardInfo /\ new.reward_per_token_stored = stored
      /\ new.initialized = c.initialized /\ new.reward_duration = c.reward_duration
      /\ new.reward_duration_end = c.reward_duration_end /\ new.reward_rate = c.reward_rate
      /\ new.last_update_time = c.last_update_time /\ new.empty_seconds = 0
  <2> HIDE DEF c
  <2> QED
    BY <1>2 DEF RewardInfo
<1>7. missed \in Nat /\ amount \in Nat /\ amount * RATE_UNIT <= missed
  <2>1. missed \in Nat
    BY <1>4
  <2>2. amount = missed \div RATE_UNIT
    BY DEF Ineligible
  <2> HIDE DEF missed, amount
  <2> QED
    BY <2>1, <2>2, Units, DivBounds
<1>8. Promised(new) = 0
  <2>1. c.reward_rate * (0 + (c.reward_duration_end - c.reward_duration_end)) = 0
        /\ LIQUIDITY_UNIT * 0 = 0
    BY <1>4, Units
  <2> HIDE DEF new, c
  <2> QED
    BY <2>1, <1>5, <1>6 DEF Promised
<1>9. Promised(c) = LIQUIDITY_UNIT * missed
  <2>1. c.reward_rate * (c.empty_seconds + (c.reward_duration_end - c.reward_duration_end))
          = missed
    BY <1>4
  <2> QED
    BY <2>1, <1>5 DEF Promised
<1> HIDE DEF new, amount, missed
<1>10. vault' \in Nat
  BY <1>1, <1>3, <1>7
<1>11. Books(reward', position', vault')
  <2> DEFINE t == Total(Weights(stored, position), Positions)
  <2>1. t \in Nat
    BY <1>2, <1>3, <1>4, WeightsNat
  <2>2. t + LIQUIDITY_UNIT * missed <= vault * Scale
    BY <1>2, <1>9 DEF Books
  <2>3. amount * Scale <= LIQUIDITY_UNIT * missed /\ amount * Scale \in Nat
        /\ LIQUIDITY_UNIT * missed \in Nat
    <3>1. (amount * RATE_UNIT) * LIQUIDITY_UNIT <= missed * LIQUIDITY_UNIT
      <4>1. amount * RATE_UNIT \in Nat
        BY <1>7, Units
      <4> QED
        BY <4>1, <1>7, Units, Monotone
    <3>2. (amount * RATE_UNIT) * LIQUIDITY_UNIT = amount * Scale
      BY <1>7, Units DEF Scale
    <3>3. missed * LIQUIDITY_UNIT = LIQUIDITY_UNIT * missed /\ LIQUIDITY_UNIT * missed \in Nat
          /\ amount * Scale \in Nat
      BY <1>7, Units
    <3> QED
      BY <3>1, <3>2, <3>3
  <2>4. (vault - amount) * Scale = vault * Scale - amount * Scale /\ vault * Scale \in Nat
    BY <1>3, <1>7, Units
  <2> HIDE DEF t
  <2>5. t + 0 <= (vault - amount) * Scale
    BY <2>1, <2>2, <2>3, <2>4
  <2> QED
    BY <2>5, <1>1, <1>6, <1>8 DEF Books, t
<1>12. Fresh(reward', now')
  <2>1. ElapsedSince(new, now) = ElapsedSince(c, now) /\ Timely(new, now)
    BY <1>2, <1>6 DEF ElapsedSince, Timely, Fresh
  <2> QED
    BY <2>1, <1>1, <1>2, <1>6 DEF Fresh
<1>13. TypeOK'
  <2>1. ElapsedSince(reward', now') >= 0 /\ reward' \in RewardInfo
    BY <1>12 DEF Fresh
  <2> QED
    BY <2>1, <1>1, <1>3, <1>10 DEF TypeOK, PositionsType
<1>14. Checked(reward'.reward_per_token_stored, position')
  BY <1>1, <1>2, <1>6
<1>15. \A q \in Positions :
         Settled(reward'.reward_per_token_stored, position'[q], claimed'[q], share'[q])
  BY <1>1, <1>2, <1>6
<1>16. /\ liquidity' = Total(LiquidityOf(position'), Positions) /\ liquidity' <= MaxLiquidity
       /\ \A q \in Positions : q \notin open' => position'[q] = NewPosition
       /\ reward'.initialized => reward'.reward_duration \in Durations
       /\ ~reward'.initialized => reward'.reward_per_token_stored = 0
  BY <1>1, <1>2, <1>3, <1>6
<1> QED
  BY <1>11, <1>12, <1>13, <1>14, <1>15, <1>16, InvWhenFresh

\* Time bought by a funding, and by what was left of the last one, costs no
\* more than both brought.
LEMMA FundingPaysForItsTime ==
    ASSUME NEW r \in RewardInfo, NEW time \in Nat, NEW ineligible \in Nat, NEW brought \in Nat,
           Timely(r, time), r.last_update_time = Least(time, r.reward_duration_end),
           r.empty_seconds = 0, r.initialized, r.reward_duration \in Durations
    PROVE  LET f == Funded(r, brought + ineligible, time)
           IN /\ f \in RewardInfo
              /\ f.initialized
              /\ f.reward_duration = r.reward_duration
              /\ f.reward_per_token_stored = r.reward_per_token_stored
              /\ Fresh(f, time)
              /\ Promised(f) <= brought * Scale + ineligible * Scale + Promised(r)
              /\ Promised(f) \in Nat
<1> DEFINE T == r.reward_duration
           end == r.reward_duration_end
           R == r.reward_rate
           left == IF time >= end THEN 0 ELSE end - time
           leftover == IF time >= end THEN 0 ELSE (R * (end - time)) \div RATE_UNIT
           amount == brought + ineligible
           sum == amount + leftover
           rate == (sum * RATE_UNIT) \div T
           f == Funded(r, amount, time)
<1>1. /\ T \in Nat /\ T > 0 /\ end \in Nat /\ R \in Nat /\ r.last_update_time \in Nat
      /\ RATE_UNIT \in Nat /\ RATE_UNIT > 0 /\ LIQUIDITY_UNIT \in Nat
      /\ r.reward_per_token_stored \in Nat
  <2>1. T \in Durations
    OBVIOUS
  <2>2. Durations \subseteq Nat \ {0}
    BY RewardsAssumption
  <2> HIDE DEF T
  <2>3. T \in Nat /\ T > 0
    BY <2>1, <2>2
  <2> QED
    BY <2>3, RewardFields, Units
<1>2. left \in Nat /\ left = end - r.last_update_time
  BY <1>1 DEF Least
<1>3. leftover \in Nat /\ leftover * RATE_UNIT <= R * left /\ R * left \in Nat
  <2>1. CASE time >= end
    <3>1. 0 * RATE_UNIT = 0 /\ R * 0 = 0
      BY <1>1
    <3> QED
      BY <2>1, <3>1
  <2>2. CASE ~(time >= end)
    <3>1. end - time \in Nat /\ R * (end - time) \in Nat
      BY <2>2, <1>1
    <3>2. (R * (end - time)) \div RATE_UNIT \in Nat
          /\ ((R * (end - time)) \div RATE_UNIT) * RATE_UNIT <= R * (end - time)
      <4> DEFINE x == R * (end - time)
      <4>1. x \in Nat
        BY <3>1
      <4> HIDE DEF x
      <4>2. x \div RATE_UNIT \in Nat /\ (x \div RATE_UNIT) * RATE_UNIT <= x
        BY <4>1, <1>1, DivBounds
      <4> QED
        BY <4>2 DEF x
    <3> QED
      BY <3>1, <3>2, <2>2
  <2> QED
    BY <2>1, <2>2
<1>4. f = [r EXCEPT !.reward_rate = rate, !.last_update_time = time,
                    !.reward_duration_end = time + T]
  BY DEF Funded
<1> HIDE DEF leftover, left
<1>5. sum \in Nat /\ sum * RATE_UNIT \in Nat
  BY <1>1, <1>3
<1>6. rate \in Nat /\ rate * T <= sum * RATE_UNIT
  <2> HIDE DEF sum, T
  <2> QED
    BY <1>1, <1>5, DivBounds
<1>7. /\ f \in RewardInfo /\ f.initialized /\ f.reward_duration = T
      /\ f.reward_per_token_stored = r.reward_per_token_stored
      /\ f.reward_rate = rate /\ f.last_update_time = time
      /\ f.reward_duration_end = time + T /\ f.empty_seconds = 0
  <2> DEFINE later == time + T
  <2>1. later \in Nat
    BY <1>1
  <2>2. f = [r EXCEPT !.reward_rate = rate, !.last_update_time = time,
                      !.reward_duration_end = later]
    BY <1>4
  <2> HIDE DEF rate, later, f
  <2> QED
    BY <2>1, <2>2, <1>6 DEF RewardInfo, later
<1> HIDE DEF f, rate
<1>8. Fresh(f, time)
  BY <1>1, <1>7 DEF Fresh, Timely, ElapsedSince, Least
<1>9. Promised(f) = LIQUIDITY_UNIT * (rate * T)
  <2>1. 0 + ((time + T) - time) = T
    BY <1>1
  <2> QED
    BY <2>1, <1>7 DEF Promised
<1>10. Promised(r) = LIQUIDITY_UNIT * (R * left)
  <2>1. 0 + (end - r.last_update_time) = left
    BY <1>2
  <2> QED
    BY <2>1 DEF Promised
<1>11. rate * T <= amount * RATE_UNIT + R * left /\ rate * T \in Nat
       /\ amount * RATE_UNIT \in Nat
  <2>1. sum * RATE_UNIT = amount * RATE_UNIT + leftover * RATE_UNIT
    BY <1>1, <1>3
  <2>2. amount * RATE_UNIT \in Nat /\ leftover * RATE_UNIT \in Nat /\ rate * T \in Nat
    BY <1>1, <1>3, <1>6
  <2> HIDE DEF sum, amount, T, R
  <2> QED
    BY <2>1, <2>2, <1>3, <1>6
<1>12. LIQUIDITY_UNIT * (rate * T) <= LIQUIDITY_UNIT * (amount * RATE_UNIT + R * left)
  <2> DEFINE x == rate * T
             y == amount * RATE_UNIT + R * left
  <2>1. x \in Nat /\ y \in Nat /\ x <= y
    BY <1>3, <1>11
  <2> HIDE DEF x, y
  <2>2. x * LIQUIDITY_UNIT <= y * LIQUIDITY_UNIT
    BY <2>1, <1>1, Monotone
  <2>3. LIQUIDITY_UNIT * x <= LIQUIDITY_UNIT * y
    BY <2>1, <2>2, <1>1
  <2> QED
    BY <2>3 DEF x, y
<1>13. LIQUIDITY_UNIT * (amount * RATE_UNIT + R * left)
         = (brought * Scale + ineligible * Scale) + LIQUIDITY_UNIT * (R * left)
  <2>1. LIQUIDITY_UNIT * (amount * RATE_UNIT + R * left)
          = LIQUIDITY_UNIT * (amount * RATE_UNIT) + LIQUIDITY_UNIT * (R * left)
    <3> DEFINE x == amount * RATE_UNIT
               y == R * left
    <3>1. x \in Nat /\ y \in Nat
      BY <1>3, <1>11
    <3> HIDE DEF x, y
    <3>2. LIQUIDITY_UNIT * (x + y) = LIQUIDITY_UNIT * x + LIQUIDITY_UNIT * y
      BY <3>1, <1>1
    <3> QED
      BY <3>2 DEF x, y
  <2>2. LIQUIDITY_UNIT * (amount * RATE_UNIT) = brought * Scale + ineligible * Scale
    BY <1>1 DEF Scale
  <2> QED
    BY <2>1, <2>2
<1>14. Promised(f) \in Nat
  BY <1>1, <1>9, <1>11
<1>15. Promised(f) <= brought * Scale + ineligible * Scale + Promised(r)
  BY <1>9, <1>10, <1>12, <1>13
<1> QED
  BY <1>7, <1>8, <1>14, <1>15 DEF f

\* The missed seconds are worth what the books promise for them.
LEMMA IneligibleIsPromised ==
    ASSUME NEW c \in RewardInfo, NEW time \in Nat, Timely(c, time)
    PROVE  LET r == [c EXCEPT !.empty_seconds = 0]
           IN /\ r \in RewardInfo /\ r.empty_seconds = 0
              /\ r.initialized = c.initialized /\ r.reward_duration = c.reward_duration
              /\ r.reward_duration_end = c.reward_duration_end
              /\ r.reward_per_token_stored = c.reward_per_token_stored
              /\ r.last_update_time = c.last_update_time
              /\ r.reward_rate = c.reward_rate
              /\ Timely(r, time)
              /\ Ineligible(c) \in Nat
              /\ Ineligible(c) * Scale + Promised(r) <= Promised(c)
              /\ Promised(r) \in Nat /\ Promised(c) \in Nat
<1> DEFINE r == [c EXCEPT !.empty_seconds = 0]
           R == c.reward_rate
           E == c.empty_seconds
           left == c.reward_duration_end - c.last_update_time
           missed == E * R
           n == Ineligible(c)
           U == LIQUIDITY_UNIT
<1>1. /\ r \in RewardInfo /\ r.empty_seconds = 0
      /\ r.initialized = c.initialized /\ r.reward_duration = c.reward_duration
      /\ r.reward_duration_end = c.reward_duration_end
      /\ r.reward_per_token_stored = c.reward_per_token_stored
      /\ r.last_update_time = c.last_update_time /\ r.reward_rate = R
  BY DEF RewardInfo
<1>2. Timely(r, time)
  BY <1>1 DEF Timely
<1>3. R \in Nat /\ E \in Nat /\ left \in Nat /\ U \in Nat
  BY RewardFields, Units DEF Timely
<1>4. missed \in Nat /\ n \in Nat /\ n * RATE_UNIT <= missed
  <2>1. missed \in Nat
    BY <1>3
  <2>2. n = missed \div RATE_UNIT
    BY DEF Ineligible
  <2> HIDE DEF missed, n
  <2> QED
    BY <2>1, <2>2, Units, DivBounds
<1>5. Promised(r) = U * (R * (0 + left)) /\ Promised(c) = U * (R * (E + left))
  BY <1>1 DEF Promised
<1> HIDE DEF r, n, R, E, left, U
<1>6. R * (E + left) = missed + R * left /\ R * (0 + left) = R * left /\ R * left \in Nat
  BY <1>3
<1>7. U * (missed + R * left) = U * missed + U * (R * left)
      /\ U * missed \in Nat /\ U * (R * left) \in Nat
  <2> DEFINE x == R * left
             y == missed
  <2>1. x \in Nat /\ y \in Nat
    BY <1>4, <1>6
  <2> HIDE DEF x, y
  <2>2. U * (y + x) = U * y + U * x /\ U * y \in Nat /\ U * x \in Nat
    BY <2>1, <1>3
  <2> QED
    BY <2>2 DEF x, y
<1>8. n * Scale <= U * missed /\ n * Scale \in Nat
  <2> HIDE DEF missed
  <2>1. n * RATE_UNIT \in Nat
    BY <1>4, Units
  <2>2. (n * RATE_UNIT) * U <= missed * U
    BY <2>1, <1>3, <1>4, Monotone
  <2>3. (n * RATE_UNIT) * U = n * Scale /\ n * Scale \in Nat
    BY <1>3, <1>4, Units DEF Scale, U
  <2>4. missed * U = U * missed
    BY <1>3, <1>4
  <2> QED
    BY <2>2, <2>3, <2>4
<1>9. n * Scale + Promised(r) <= Promised(c) /\ Promised(r) \in Nat /\ Promised(c) \in Nat
  <2> DEFINE x == U * (R * left)
             y == U * missed
             z == n * Scale
  <2>1. x \in Nat /\ y \in Nat /\ z \in Nat /\ z <= y
    BY <1>7, <1>8
  <2>2. Promised(r) = x /\ Promised(c) = y + x
    BY <1>5, <1>6, <1>7
  <2> HIDE DEF x, y, z
  <2>3. z + Promised(r) <= Promised(c) /\ Promised(r) \in Nat /\ Promised(c) \in Nat
    BY <2>1, <2>2
  <2> QED
    BY <2>3 DEF z
<1> QED
  BY <1>1, <1>2, <1>4, <1>9 DEF r, n, R

LEMMA FundStep ==
    ASSUME RewardsInv, NEW signer \in Signers, NEW amount \in Amounts,
           NEW carry_forward \in BOOLEAN, FundReward(signer, amount, carry_forward)
    PROVE  RewardsInv'
<1> DEFINE c == Current
           stored == c.reward_per_token_stored
           r0 == [c EXCEPT !.empty_seconds = 0]
           b == Brought(amount)
           t == Total(Weights(stored, position), Positions)
<1>1. /\ reward.initialized /\ b > 0
      /\ \/ reward' = Funded(r0, b + Ineligible(c), now)
         \/ reward' = Funded(c, b, now) /\ NothingIneligible(c)
      /\ vault' = vault + b /\ fundings' = fundings + 1
      /\ UNCHANGED <<liquidity, open, position, frozen, now, moves, claimed, share>>
  BY DEF FundReward, Brought
<1>2. /\ Fresh(c, now) /\ c \in RewardInfo /\ Timely(c, now) /\ Checked(stored, position)
      /\ Books(c, position, vault)
      /\ c.initialized = reward.initialized /\ c.reward_duration = reward.reward_duration
      /\ c.reward_duration_end = reward.reward_duration_end
      /\ c.last_update_time = Least(now, reward.reward_duration_end)
      /\ \A q \in Positions : Settled(stored, position[q], claimed[q], share[q])
  BY CurrentFacts DEF Fresh
<1>3. /\ position \in PositionsType /\ liquidity \in Nat /\ vault \in Nat
      /\ liquidity <= MaxLiquidity
      /\ now \in Nat /\ fundings \in Nat /\ moves \in Nat
      /\ frozen \in BOOLEAN /\ open \subseteq Positions
      /\ claimed \in [Positions -> Nat] /\ share \in [Positions -> Nat]
      /\ liquidity = Total(LiquidityOf(position), Positions)
      /\ reward.initialized => reward.reward_duration \in Durations
      /\ \A q \in Positions : q \notin open => position[q] = NewPosition
  BY InvFacts DEF RewardsInv, PositionsOK
<1>4. b \in Nat
  <2>1. RewardFee \in FeeType /\ amount \in Nat
    BY RewardsAssumption, TransferAssumption DEF FeeType
  <2>2. CalculateFee(RewardFee, amount) \in Nat
    BY <2>1, FeeIsNat
  <2>3. b = amount - CalculateFee(RewardFee, amount)
    BY DEF Brought, Excluded
  <2> HIDE DEF b
  <2> QED
    BY <2>1, <2>2, <2>3, <1>1
<1>5. /\ r0 \in RewardInfo /\ r0.empty_seconds = 0
      /\ r0.initialized = c.initialized /\ r0.reward_duration = c.reward_duration
      /\ r0.reward_duration_end = c.reward_duration_end
      /\ r0.reward_per_token_stored = stored
      /\ r0.last_update_time = c.last_update_time
      /\ Timely(r0, now)
      /\ Ineligible(c) \in Nat
      /\ Ineligible(c) * Scale + Promised(r0) <= Promised(c)
      /\ Promised(r0) \in Nat /\ Promised(c) \in Nat
  BY <1>2, <1>3, IneligibleIsPromised
<1> HIDE DEF c, r0, b
<1>6. PICK r \in RewardInfo, n \in Nat :
         /\ reward' = Funded(r, b + n, now)
         /\ r.empty_seconds = 0 /\ r.initialized /\ r.reward_duration \in Durations
         /\ r.reward_per_token_stored = stored /\ Timely(r, now)
         /\ r.last_update_time = Least(now, r.reward_duration_end)
         /\ n * Scale + Promised(r) <= Promised(c) /\ Promised(r) \in Nat
  <2>1. CASE reward' = Funded(r0, b + Ineligible(c), now)
    <3>1. /\ r0.initialized /\ r0.reward_duration \in Durations
          /\ r0.last_update_time = Least(now, r0.reward_duration_end)
      BY <1>1, <1>2, <1>3, <1>5
    <3> r0 \in RewardInfo /\ Ineligible(c) \in Nat
      BY <1>5
    <3> WITNESS r0 \in RewardInfo, Ineligible(c) \in Nat
    <3> QED
      BY <2>1, <3>1, <1>5
  <2>2. CASE reward' = Funded(c, b, now) /\ NothingIneligible(c)
    <3>1. b + 0 = b /\ 0 * Scale + Promised(c) = Promised(c) /\ c.empty_seconds = 0
      BY <1>4, <1>5, <2>2, Units DEF NothingIneligible
    <3>2. /\ c.initialized /\ c.reward_duration \in Durations
          /\ c.last_update_time = Least(now, c.reward_duration_end)
      BY <1>1, <1>2, <1>3
    <3>3. 0 * Scale + Promised(c) <= Promised(c)
      BY <3>1, <1>5
    <3> c \in RewardInfo
      BY <1>2
    <3> WITNESS c \in RewardInfo, 0 \in Nat
    <3> QED
      BY <2>2, <3>1, <3>2, <3>3, <1>2, <1>5
  <2> QED
    BY <1>1, <2>1, <2>2
<1> DEFINE f == Funded(r, b + n, now)
<1>7. /\ f \in RewardInfo /\ f.initialized /\ f.reward_duration = r.reward_duration
      /\ f.reward_per_token_stored = stored /\ Fresh(f, now)
      /\ Promised(f) <= b * Scale + n * Scale + Promised(r)
      /\ Promised(f) \in Nat
  <2>1. /\ now \in Nat /\ b \in Nat /\ n \in Nat /\ Timely(r, now)
        /\ r.last_update_time = Least(now, r.reward_duration_end)
        /\ r.empty_seconds = 0 /\ r.initialized /\ r.reward_duration \in Durations
    BY <1>3, <1>4, <1>6
  <2>2. /\ f \in RewardInfo /\ f.initialized /\ f.reward_duration = r.reward_duration
        /\ f.reward_per_token_stored = r.reward_per_token_stored /\ Fresh(f, now)
        /\ Promised(f) <= b * Scale + n * Scale + Promised(r)
        /\ Promised(f) \in Nat
    BY ZenonT(30), <2>1, FundingPaysForItsTime
  <2> HIDE DEF f
  <2> QED
    BY <2>2, <1>6
<1>8. reward' = f
  BY <1>6
<1> HIDE DEF f
<1>9. stored \in Nat /\ t \in Nat
  <2>1. stored \in Nat
    BY <1>2, RewardFields
  <2> QED
    BY <2>1, <1>2, <1>3, WeightsNat
<1>10. t + Promised(c) <= vault * Scale
  BY <1>2 DEF Books
<1>11. Books(reward', position', vault')
  <2>1. (vault + b) * Scale = vault * Scale + b * Scale
        /\ vault * Scale \in Nat /\ b * Scale \in Nat /\ n * Scale \in Nat
    BY <1>3, <1>4, <1>6, Units
  <2>2. Total(Weights(f.reward_per_token_stored, position), Positions) = t
    BY <1>7
  <2> HIDE DEF t
  <2>3. t + Promised(f) <= (vault + b) * Scale
    BY <2>1, <1>5, <1>6, <1>7, <1>9, <1>10
  <2> QED
    BY <2>2, <2>3, <1>1, <1>8 DEF Books
<1>12. TypeOK'
  <2>1. ElapsedSince(reward', now') >= 0 /\ reward' \in RewardInfo
    BY <1>1, <1>7, <1>8 DEF Fresh
  <2>2. vault' \in Nat /\ fundings' \in Nat
    BY <1>1, <1>3, <1>4
  <2> QED
    BY <2>1, <2>2, <1>1, <1>3 DEF TypeOK, PositionsType
<1>13. Fresh(reward', now') /\ Checked(reward'.reward_per_token_stored, position')
  BY <1>1, <1>2, <1>7, <1>8
<1>14. \A q \in Positions :
         Settled(reward'.reward_per_token_stored, position'[q], claimed'[q], share'[q])
  BY <1>1, <1>2, <1>7, <1>8
<1>15. /\ liquidity' = Total(LiquidityOf(position'), Positions) /\ liquidity' <= MaxLiquidity
       /\ \A q \in Positions : q \notin open' => position'[q] = NewPosition
       /\ reward'.initialized /\ reward'.reward_duration \in Durations
  BY <1>1, <1>3, <1>6, <1>7, <1>8
<1> QED
  BY <1>11, <1>12, <1>13, <1>14, <1>15, InvWhenFresh

Worth(w) == w * RATE_UNIT * SHARES

LEMMA WorthOf ==
    ASSUME NEW w \in Nat
    PROVE  Worth(w) \in Nat /\ Worth(w) * LIQUIDITY_UNIT = SHARES * (w * Scale)
<1>1. w * RATE_UNIT \in Nat
  BY Units
<1>2. w * RATE_UNIT * SHARES \in Nat
  BY <1>1, Units
<1>3. w * RATE_UNIT * SHARES * LIQUIDITY_UNIT = SHARES * (w * (LIQUIDITY_UNIT * RATE_UNIT))
  BY Units
<1> QED
  BY <1>2, <1>3 DEF Worth, Scale

\* Pending rewards that move take their worth along.
LEMMA SettledGives ==
    ASSUME NEW stored, NEW pos, NEW new, NEW paid \in Nat, NEW w \in Nat, NEW part \in Nat,
           Weight(stored, pos) \in Nat, Weight(stored, new) \in Nat,
           Weight(stored, new) + w * Scale <= Weight(stored, pos),
           Settled(stored, pos, paid, part)
    PROVE  /\ part - Worth(w) \in Nat
           /\ Settled(stored, new, paid, part - Worth(w))
<1> DEFINE v == paid * Scale + Weight(stored, pos)
           x == paid * Scale + Weight(stored, new)
           y == w * Scale
           k == Worth(w)
           U == LIQUIDITY_UNIT
<1>1. v \in Nat /\ x \in Nat /\ y \in Nat /\ x + y <= v
  <2>1. paid * Scale \in Nat /\ w * Scale \in Nat
    BY Units
  <2> QED
    BY <2>1
<1>2. k \in Nat /\ k * U = SHARES * y
  BY WorthOf
<1>3. SHARES * v <= part * U
  BY DEF Settled
<1>u. U \in Nat /\ U > 0 /\ SHARES \in Nat
  BY Units
<1> HIDE DEF v, x, y, k, U
<1>4. SHARES * (x + y) <= SHARES * v
  <2>1. (x + y) * SHARES <= v * SHARES
    BY <1>1, <1>u, Monotone
  <2> QED
    BY <2>1, <1>1, <1>u
<1>5. SHARES * (x + y) = SHARES * x + SHARES * y /\ SHARES * x \in Nat /\ SHARES * y \in Nat
      /\ SHARES * v \in Nat
  BY <1>1, <1>u
<1>6. part * U \in Nat /\ k * U \in Nat /\ (part - k) * U = part * U - k * U
  BY <1>2, <1>u
<1>7. SHARES * x <= (part - k) * U
  BY <1>2, <1>3, <1>4, <1>5, <1>6
<1>8. k <= part
  <2>1. k * U <= part * U
    BY <1>2, <1>3, <1>4, <1>5, <1>6
  <2> QED
    BY <2>1, <1>2, <1>u, CancelLe
<1> QED
  BY <1>2, <1>7, <1>8 DEF Settled, x, k, U

LEMMA SettledGains ==
    ASSUME NEW stored, NEW pos, NEW new, NEW paid \in Nat, NEW w \in Nat, NEW part \in Nat,
           Weight(stored, pos) \in Nat, Weight(stored, new) \in Nat,
           Weight(stored, new) <= Weight(stored, pos) + w * Scale,
           Settled(stored, pos, paid, part)
    PROVE  /\ part + Worth(w) \in Nat
           /\ Settled(stored, new, paid, part + Worth(w))
<1> DEFINE v == paid * Scale + Weight(stored, pos)
           x == paid * Scale + Weight(stored, new)
           y == w * Scale
           k == Worth(w)
           U == LIQUIDITY_UNIT
<1>1. v \in Nat /\ x \in Nat /\ y \in Nat /\ x <= v + y
  <2>1. paid * Scale \in Nat /\ w * Scale \in Nat
    BY Units
  <2> QED
    BY <2>1
<1>2. k \in Nat /\ k * U = SHARES * y
  BY WorthOf
<1>3. SHARES * v <= part * U
  BY DEF Settled
<1>u. U \in Nat /\ U > 0 /\ SHARES \in Nat
  BY Units
<1> HIDE DEF v, x, y, k, U
<1>4. SHARES * x <= SHARES * (v + y)
  <2>1. x * SHARES <= (v + y) * SHARES
    BY <1>1, <1>u, Monotone
  <2> QED
    BY <2>1, <1>1, <1>u
<1>5. SHARES * (v + y) = SHARES * v + SHARES * y /\ SHARES * x \in Nat /\ SHARES * y \in Nat
      /\ SHARES * v \in Nat
  BY <1>1, <1>u
<1>6. part * U \in Nat /\ k * U \in Nat /\ (part + k) * U = part * U + k * U
  BY <1>2, <1>u
<1>7. SHARES * x <= (part + k) * U
  BY <1>2, <1>3, <1>4, <1>5, <1>6
<1>8. part + k \in Nat
  BY <1>2
<1> QED
  BY <1>7, <1>8 DEF Settled, x, k, U

LEMMA SplitStep ==
    ASSUME RewardsInv, NEW first \in Positions, NEW second \in Positions,
           NEW n \in SplitNumerators, SplitPosition(first, second, n)
    PROVE  RewardsInv'
<1> DEFINE c == Current
           stored == c.reward_per_token_stored
           from == UpdatePosition(c, position[first])
           to == UpdatePosition(c, position[second])
           l == (from.liquidity * n.liquidity) \div SPLIT_DENOMINATOR
           w == (from.pending * n.reward) \div SPLIT_DENOMINATOR
           less == [from EXCEPT !.liquidity = @ - l, !.pending = @ - w]
           more == [to EXCEPT !.liquidity = @ + l, !.pending = @ + w]
           worth == Worth(w)
<1>1. /\ first \in open /\ second \in open /\ first # second
      /\ position' = [position EXCEPT ![first] = less, ![second] = more]
      /\ share' = [share EXCEPT ![first] = @ - worth, ![second] = @ + worth]
      /\ reward' = c /\ moves' = moves + 1
      /\ UNCHANGED <<liquidity, open, vault, frozen, now, fundings, claimed>>
  BY DEF SplitPosition, Worth
<1>2. /\ from \in UserRewardInfo /\ stored \in Nat
      /\ from.liquidity = position[first].liquidity /\ from.checkpoint = stored
      /\ from.pending * Scale <= Weight(stored, position[first])
      /\ Weight(stored, position[first]) \in Nat
  BY SettledFacts
<1>3. /\ to \in UserRewardInfo
      /\ to.liquidity = position[second].liquidity /\ to.checkpoint = stored
      /\ to.pending * Scale <= Weight(stored, position[second])
      /\ Weight(stored, position[second]) \in Nat
  BY SettledFacts
<1>4. /\ Fresh(c, now) /\ c \in RewardInfo /\ Checked(stored, position)
      /\ Books(c, position, vault)
      /\ c.initialized = reward.initialized /\ c.reward_duration = reward.reward_duration
      /\ ~c.initialized => stored = 0
      /\ \A q \in Positions : Settled(stored, position[q], claimed[q], share[q])
  BY CurrentFacts DEF Fresh
<1>5. /\ position \in PositionsType /\ liquidity \in Nat /\ vault \in Nat
      /\ liquidity <= MaxLiquidity
      /\ now \in Nat /\ fundings \in Nat /\ moves \in Nat
      /\ frozen \in BOOLEAN /\ open \subseteq Positions
      /\ claimed \in [Positions -> Nat] /\ share \in [Positions -> Nat]
      /\ liquidity = Total(LiquidityOf(position), Positions)
      /\ reward.initialized => reward.reward_duration \in Durations
      /\ \A q \in Positions : q \notin open => position[q] = NewPosition
  BY InvFacts DEF RewardsInv, PositionsOK
<1>6. /\ from.liquidity \in Nat /\ from.pending \in Nat /\ to.liquidity \in Nat
      /\ to.pending \in Nat
  BY <1>2, <1>3, PositionFields
<1>7. l \in 0 .. from.liquidity /\ w \in 0 .. from.pending
  <2>1. n.liquidity \in 0 .. SPLIT_DENOMINATOR /\ n.reward \in 0 .. SPLIT_DENOMINATOR
    BY RewardsAssumption
  <2>2. SPLIT_DENOMINATOR \in Nat \ {0}
    BY RewardsAssumption
  <2> HIDE DEF from
  <2> QED
    BY <2>1, <2>2, <1>6, PartOf
<1> HIDE DEF l, w
<1>8. l \in Nat /\ w \in Nat /\ from.liquidity - l \in Nat /\ from.pending - w \in Nat
      /\ to.liquidity + l \in Nat /\ to.pending + w \in Nat
  BY <1>6, <1>7
<1>9. /\ less \in UserRewardInfo /\ less.liquidity = from.liquidity - l
      /\ less.pending = from.pending - w /\ less.checkpoint = stored
  <2> HIDE DEF from, stored
  <2> QED
    BY <1>2, <1>8 DEF UserRewardInfo
<1>10. /\ more \in UserRewardInfo /\ more.liquidity = to.liquidity + l
       /\ more.pending = to.pending + w /\ more.checkpoint = stored
  <2> HIDE DEF to, stored
  <2> QED
    BY <1>3, <1>8 DEF UserRewardInfo
<1> HIDE DEF less, more, from, to, worth
<1>11. /\ Weight(stored, less) + w * Scale = from.pending * Scale
       /\ Weight(stored, more) = to.pending * Scale + w * Scale
       /\ Weight(stored, less) \in Nat /\ Weight(stored, more) \in Nat
       /\ w * Scale \in Nat /\ from.pending * Scale \in Nat /\ to.pending * Scale \in Nat
  <2>1. /\ Weight(stored, less) = less.pending * Scale /\ less.pending * Scale \in Nat
        /\ Weight(stored, more) = more.pending * Scale /\ more.pending * Scale \in Nat
    BY <1>9, <1>10, WeightSettled
  <2>2. (from.pending - w) * Scale = from.pending * Scale - w * Scale
        /\ (to.pending + w) * Scale = to.pending * Scale + w * Scale
    BY <1>6, <1>8, Units
  <2>3. w * Scale \in Nat /\ from.pending * Scale \in Nat /\ to.pending * Scale \in Nat
    BY <1>6, <1>8, Units
  <2> QED
    BY <2>1, <2>2, <2>3, <1>9, <1>10
<1>12. /\ position' \in PositionsType /\ position'[first] = less /\ position'[second] = more
       /\ \A q \in Positions : q \notin {first, second} => position'[q] = position[q]
  BY <1>1, <1>5, <1>9, <1>10 DEF PositionsType
<1>13. liquidity' = Total(LiquidityOf(position'), Positions)
  <2> DEFINE f == LiquidityOf(position)
             g == LiquidityOf(position')
  <2>1. \A q \in Positions : f[q] \in Int
    BY <1>5, PositionFields DEF LiquidityOf, PositionsType
  <2>2. /\ f[first] = from.liquidity /\ g[first] = from.liquidity - l
        /\ f[second] = to.liquidity /\ g[second] = to.liquidity + l
    BY <1>2, <1>3, <1>9, <1>10, <1>12 DEF LiquidityOf
  <2>3. \A q \in Positions : q \notin {first, second} => g[q] = f[q]
    BY <1>12 DEF LiquidityOf
  <2>4. liquidity = Total(f, Positions)
    BY <1>5
  <2> HIDE DEF f, g
  <2>5. g[first] \in Int /\ g[second] \in Int
    BY <2>2, <1>8
  <2>6. Total(f, Positions) \in Int
        /\ Total(g, Positions)
             = Total(f, Positions) + (g[first] - f[first]) + (g[second] - f[second])
    BY <2>1, <2>3, <2>5, <1>1, SumTwo, RewardsAssumption
  <2>7. Total(g, Positions) = liquidity
    BY <2>2, <2>4, <2>6, <1>6, <1>8
  <2> QED
    BY <2>7, <1>1 DEF g
<1>14. /\ share[first] - worth \in Nat
       /\ Settled(stored, less, claimed[first], share[first] - worth)
  <2>1. claimed[first] \in Nat /\ share[first] \in Nat
        /\ Settled(stored, position[first], claimed[first], share[first])
    BY <1>4, <1>5
  <2>2. Weight(stored, less) + w * Scale <= Weight(stored, position[first])
    BY <1>2, <1>11
  <2> QED
    BY <2>1, <2>2, <1>2, <1>8, <1>11, SettledGives DEF worth
<1>15. /\ share[second] + worth \in Nat
       /\ Settled(stored, more, claimed[second], share[second] + worth)
  <2>1. claimed[second] \in Nat /\ share[second] \in Nat
        /\ Settled(stored, position[second], claimed[second], share[second])
    BY <1>4, <1>5
  <2>2. Weight(stored, more) <= Weight(stored, position[second]) + w * Scale
    BY <1>3, <1>11
  <2> QED
    BY <2>1, <2>2, <1>3, <1>8, <1>11, SettledGains DEF worth
<1>16. /\ share' \in [Positions -> Nat]
       /\ share'[first] = share[first] - worth /\ share'[second] = share[second] + worth
       /\ \A q \in Positions : q \notin {first, second} => share'[q] = share[q]
  BY <1>1, <1>5, <1>14, <1>15
<1>17. TypeOK'
  <2>1. ElapsedSince(reward', now') >= 0
    BY <1>1, <1>4 DEF Fresh
  <2> QED
    BY <2>1, <1>1, <1>4, <1>5, <1>12, <1>16 DEF TypeOK, PositionsType
<1>18. Checked(reward'.reward_per_token_stored, position')
  <2>1. ASSUME NEW q \in Positions PROVE position'[q].checkpoint <= stored
    <3>1. CASE q \notin {first, second}
      BY <3>1, <1>4, <1>12 DEF Checked
    <3>2. CASE q \in {first, second}
      BY <3>2, <1>2, <1>9, <1>10, <1>12
    <3> QED
      BY <3>1, <3>2
  <2> QED
    BY <2>1, <1>1 DEF Checked
<1>19. Books(reward', position', vault')
  <2>1. Weight(stored, less) + Weight(stored, more)
          <= Weight(stored, position[first]) + Weight(stored, position[second])
    BY <1>2, <1>3, <1>11
  <2>2. less.checkpoint <= stored /\ more.checkpoint <= stored
    BY <1>2, <1>9, <1>10
  <2>3. Books(c, [position EXCEPT ![first] = less, ![second] = more], vault)
    BY <2>1, <2>2, <1>1, <1>4, <1>5, <1>9, <1>10, BooksTwo
  <2> QED
    BY <2>3, <1>1
<1>20. ASSUME NEW q \in Positions
       PROVE  Settled(reward'.reward_per_token_stored, position'[q], claimed'[q], share'[q])
  <2>1. CASE q \notin {first, second}
    BY <2>1, <1>1, <1>4, <1>12, <1>16
  <2>2. CASE q = first
    BY <2>2, <1>1, <1>12, <1>14, <1>16
  <2>3. CASE q = second
    BY <2>3, <1>1, <1>12, <1>15, <1>16
  <2> QED
    BY <2>1, <2>2, <2>3
<1>21. \A q \in Positions : q \notin open' => position'[q] = NewPosition
  BY <1>1, <1>5, <1>12
<1> QED
  BY <1>1, <1>4, <1>5, <1>13, <1>17, <1>18, <1>19, <1>20, <1>21, InvWhenFresh

-----------------------------------------------------------------------------
(* The theorems                                                            *)

LEMMA NextKeepsInv == RewardsInv /\ [Next]_vars => RewardsInv'
<1> SUFFICES ASSUME RewardsInv, [Next]_vars PROVE RewardsInv'
  OBVIOUS
<1>1. ASSUME NEW p \in Positions, OwnerStep(p) PROVE RewardsInv'
  <2>1. ASSUME NEW delta \in Liquidities PROVE delta \in Int /\ -delta \in Int
    BY RewardsAssumption
  <2> QED
    BY <1>1, <2>1, CreateStep, CloseStep, ChangeStep, ClaimStep DEF OwnerStep
<1>2. CASE Split
  BY <1>2, SplitStep DEF Split
<1>3. ASSUME NEW signer \in Signers, EditorStep(signer) PROVE RewardsInv'
  BY <1>3, EditStep
<1>4. ASSUME NEW signer \in Signers, FunderStep(signer) PROVE RewardsInv'
  BY <1>4, FundStep, WithdrawStep DEF FunderStep
<1>5. CASE FreezeOrThaw
  BY <1>5, FreezeStep
<1>6. CASE Tick
  BY <1>6, TickStep
<1>7. CASE UNCHANGED vars
  <2>1. UNCHANGED <<reward, liquidity, open, position, vault, frozen, now, fundings, moves, claimed, share>>
    BY <1>7 DEF vars
  <2>2. TypeOK'
    BY <2>1 DEF RewardsInv, TypeOK
  <2>3. RewardOK' /\ PositionsOK'
    BY <2>1 DEF RewardsInv, RewardOK, PositionsOK
  <2>4. Books(reward', position', vault')
    BY <2>1 DEF RewardsInv
  <2>5. \A q \in Positions : Fair(reward', liquidity', position'[q], claimed'[q], share'[q], now')
    BY <2>1 DEF RewardsInv
  <2> QED
    BY <2>2, <2>3, <2>4, <2>5 DEF RewardsInv
<1> QED
  BY <1>1, <1>2, <1>3, <1>4, <1>5, <1>6, <1>7 DEF Next

LEMMA Invariant == Spec => []RewardsInv
  BY InitRewards, NextKeepsInv, PTL DEF Spec

\* Every account keeps its type, and the checked subtraction of the last update
\* from the time never fails: update_rewards cannot block the pool.
THEOREM RewardTypes == Spec => []TypeOK
<1>1. RewardsInv => TypeOK
  BY DEF RewardsInv
<1> QED
  BY <1>1, Invariant, PTL

\* What a claim pays, rounded down, is within what the books hold for it.
LEMMA OwedWithin ==
    ASSUME RewardsInv, NEW p \in Positions
    PROVE  /\ Owed(p) \in Nat
           /\ Owed(p) * Scale <= Weight(Current.reward_per_token_stored, position[p])
           /\ Owed(p) * Scale \in Nat
<1>1. /\ UpdatePosition(Current, position[p]) \in UserRewardInfo
      /\ Owed(p) * Scale <= Weight(Current.reward_per_token_stored, position[p])
  BY SettledFacts DEF Owed
<1>2. Owed(p) \in Nat
  BY <1>1, PositionFields DEF Owed
<1> QED
  BY <1>1, <1>2, Units

LEMMA InvCovers == RewardsInv => RewardsCovered
<1> SUFFICES ASSUME RewardsInv PROVE RewardsCovered
  OBVIOUS
<1> DEFINE c == Current
           stored == c.reward_per_token_stored
           owed == [p \in Positions |-> Owed(p)]
           scaled == [p \in Positions |-> Owed(p) * Scale]
           h == Weights(stored, position)
           R == c.reward_rate
           E == c.empty_seconds
           rest == IF now < c.reward_duration_end THEN c.reward_duration_end - now ELSE 0
           U == LIQUIDITY_UNIT
           o == Total(owed, Positions)
           y == R * (E + rest)
<1>1. /\ c \in RewardInfo /\ Checked(stored, position) /\ Books(c, position, vault)
      /\ c.reward_duration_end = reward.reward_duration_end
      /\ c.last_update_time = Least(now, reward.reward_duration_end)
  BY CurrentFacts DEF Fresh
<1>2. vault \in Nat /\ now \in Nat /\ position \in PositionsType
  BY InvFacts
<1>3. /\ R \in Nat /\ E \in Nat /\ c.reward_duration_end \in Nat /\ stored \in Nat
      /\ c.last_update_time \in Nat
  BY <1>1, RewardFields
<1>4. \A p \in Positions : owed[p] \in Nat /\ scaled[p] = owed[p] * Scale /\ scaled[p] \in Nat
                            /\ scaled[p] <= h[p] /\ h[p] \in Nat
  <2>1. \A p \in Positions : h[p] = Weight(stored, position[p])
    BY DEF Weights
  <2>2. \A p \in Positions : h[p] \in Nat
    BY <1>1, <1>2, <1>3, WeightsNat
  <2> QED
    BY <2>1, <2>2, OwedWithin
<1>5. Scale \in Nat /\ Scale > 0 /\ U \in Nat /\ U > 0 /\ RATE_UNIT \in Nat
  BY Units
<1> HIDE DEF owed, scaled, h
<1>6. o \in Nat
  BY <1>4, SumNat, RewardsAssumption
<1>7. Total(scaled, Positions) = o * Scale
  <2>1. \A p \in Positions : owed[p] \in Int /\ scaled[p] = owed[p] * Scale
    BY <1>4
  <2> QED
    BY <2>1, <1>5, SumTimes, RewardsAssumption
<1>8. Total(scaled, Positions) <= Total(h, Positions)
  <2>1. \A p \in Positions : scaled[p] \in Int /\ h[p] \in Int /\ scaled[p] <= h[p]
    BY <1>4
  <2> QED
    BY <2>1, SumLe, RewardsAssumption
<1>9. Total(h, Positions) \in Nat
  BY <1>4, SumNat, RewardsAssumption
<1>10. rest \in Nat /\ rest = c.reward_duration_end - c.last_update_time
  BY <1>1, <1>2, <1>3 DEF Least
<1>11. Promised(c) = U * y
  BY <1>10 DEF Promised
<1> HIDE DEF rest, o
<1>12. y \in Nat
  <2>1. E + rest \in Nat
    BY <1>3, <1>10
  <2> QED
    BY <2>1, <1>3
<1>13. Total(h, Positions) + U * y <= vault * Scale
  BY <1>1, <1>11 DEF Books, h
<1> HIDE DEF y, R, E, c, U
<1>14. (RATE_UNIT * o + y) * U <= (vault * RATE_UNIT) * U
  <2>1. U * y \in Nat /\ o * Scale \in Nat /\ vault * Scale \in Nat
    BY <1>2, <1>5, <1>6, <1>12
  <2>2. o * Scale + U * y <= vault * Scale
    BY <2>1, <1>7, <1>8, <1>9, <1>13
  <2>3. (RATE_UNIT * o + y) * U = o * Scale + U * y
    BY <1>5, <1>6, <1>12 DEF Scale, U
  <2>4. (vault * RATE_UNIT) * U = vault * Scale
    BY <1>2, <1>5 DEF Scale, U
  <2> QED
    BY <2>2, <2>3, <2>4
<1>15. RATE_UNIT * o + y <= vault * RATE_UNIT
  <2> DEFINE a == RATE_UNIT * o + y
             b == vault * RATE_UNIT
  <2>1. a \in Nat /\ b \in Nat
    <3>1. RATE_UNIT * o \in Nat
      BY <1>5, <1>6
    <3> QED
      BY <3>1, <1>2, <1>5, <1>12
  <2>2. a * U <= b * U
    BY <1>14
  <2> HIDE DEF a, b
  <2>3. a <= b
    BY <2>1, <2>2, <1>5, CancelLe
  <2> QED
    BY <2>3 DEF a, b
<1>16. RATE_UNIT * o \in Nat /\ vault * RATE_UNIT \in Nat
  BY <1>2, <1>5, <1>6
<1>17. vault * RATE_UNIT >= RATE_UNIT * o + y
  BY <1>12, <1>15, <1>16
<1> QED
  BY <1>17 DEF RewardsCovered, o, owed, y, rest, R, E, c

\* No claim, and no withdrawal of the missed seconds' rewards, finds the vault
\* short: fundings before the end, carried forward or not, withdrawals and
\* changes of the duration never promise the same token twice.
THEOREM VaultCoversRewards == Spec => []RewardsCovered
  BY Invariant, InvCovers, PTL

LEMMA InvEarns == RewardsInv => EarnsOnlyItsTime
<1> SUFFICES ASSUME RewardsInv, NEW p \in Positions
             PROVE  Entitled(p) * RATE_UNIT * SHARES <= share[p]
  BY DEF EarnsOnlyItsTime
<1> DEFINE o == Owed(p)
           k == claimed[p]
           x == o + k
           w == Weight(Current.reward_per_token_stored, position[p])
           s == share[p]
           U == LIQUIDITY_UNIT
<1>1. o \in Nat /\ o * Scale <= w /\ o * Scale \in Nat
  BY OwedWithin
<1>2. k \in Nat /\ s \in Nat /\ w \in Nat /\ SHARES * (k * Scale + w) <= s * U
  BY SettledFacts
<1>3. Entitled(p) = x
  BY DEF Entitled
<1>u. U \in Nat /\ U > 0 /\ SHARES \in Nat /\ RATE_UNIT \in Nat /\ Scale \in Nat
  BY Units
<1> HIDE DEF o, k, w, s, U
<1>4. x \in Nat /\ x * Scale = o * Scale + k * Scale /\ k * Scale \in Nat
  BY <1>1, <1>2, <1>u
<1>5. SHARES * (x * Scale) <= SHARES * (k * Scale + w)
  <2> DEFINE y == x * Scale
             z == k * Scale + w
  <2>1. y \in Nat /\ z \in Nat /\ y <= z
    BY <1>1, <1>2, <1>4
  <2> HIDE DEF y, z
  <2>2. y * SHARES <= z * SHARES
    BY <2>1, <1>u, Monotone
  <2>3. SHARES * y <= SHARES * z
    BY <2>1, <2>2, <1>u
  <2> QED
    BY <2>3 DEF y, z
<1> HIDE DEF x
<1>6. (x * RATE_UNIT * SHARES) * U = SHARES * (x * Scale)
  BY <1>4, <1>u DEF Scale, U
<1>7. x * RATE_UNIT \in Nat
  BY <1>4, <1>u
<1>8. x * RATE_UNIT * SHARES \in Nat
  BY <1>7, <1>u
<1>9. (x * RATE_UNIT * SHARES) * U <= s * U
  <2>1. SHARES * (x * Scale) \in Nat /\ s * U \in Nat
    BY <1>2, <1>6, <1>8, <1>u
  <2>2. k * Scale + w \in Nat
    BY <1>2, <1>4
  <2>3. SHARES * (k * Scale + w) \in Nat
    BY <2>2, <1>u
  <2> QED
    BY <2>1, <2>3, <1>2, <1>5, <1>6
<1>10. x * RATE_UNIT * SHARES <= s
  <2> DEFINE y == x * RATE_UNIT * SHARES
  <2>1. y \in Nat /\ y * U <= s * U
    BY <1>8, <1>9
  <2> HIDE DEF y
  <2>2. y <= s
    BY <2>1, <1>2, <1>u, CancelLe
  <2> QED
    BY <2>2 DEF y
<1> QED
  BY <1>3, <1>10 DEF s

\* What a position was paid and may claim is at most its part, by liquidity, of
\* the seconds it was there: nobody earns of a time before adding or after
\* removing liquidity, or after the end.
THEOREM OnlyItsTime == Spec => []EarnsOnlyItsTime
  BY Invariant, InvEarns, PTL

-----------------------------------------------------------------------------
(* What was earned stays                                                   *)

\* What a position may claim when its reward has come to stored.
Earned(stored, pos) ==
    pos.pending + (pos.liquidity * (stored - pos.checkpoint)) \div Scale

LEMMA EarnedGrows ==
    ASSUME NEW pos \in UserRewardInfo, NEW stored \in Nat, NEW later \in Nat,
           pos.checkpoint <= stored, stored <= later
    PROVE  /\ Earned(stored, pos) \in Nat
           /\ pos.pending <= Earned(stored, pos)
           /\ Earned(stored, pos) <= Earned(later, pos)
<1> DEFINE l == pos.liquidity
           k == pos.checkpoint
           x == l * (stored - k)
           y == l * (later - k)
<1>1. l \in Nat /\ k \in Nat /\ pos.pending \in Nat /\ Scale \in Nat \ {0}
  BY PositionFields, Units
<1> HIDE DEF l
<1>2. x \in Nat /\ y \in Nat /\ x <= y
  <2> DEFINE a == stored - k
             b == later - k
  <2>1. a \in Nat /\ b \in Nat /\ a <= b
    BY <1>1
  <2> HIDE DEF a, b
  <2>2. a * l <= b * l
    BY <2>1, <1>1, Monotone
  <2>3. l * a \in Nat /\ l * b \in Nat /\ l * a <= l * b
    BY <2>1, <2>2, <1>1
  <2> QED
    BY <2>3 DEF a, b
<1> HIDE DEF x, y
<1>3. x \div Scale \in Nat /\ y \div Scale \in Nat /\ x \div Scale <= y \div Scale
  BY <1>1, <1>2, DivBounds, DivMonotone
<1>4. Earned(stored, pos) = pos.pending + x \div Scale
      /\ Earned(later, pos) = pos.pending + y \div Scale
  BY DEF Earned, x, y, l
<1> QED
  BY <1>1, <1>3, <1>4

LEMMA EarnedSettled ==
    ASSUME NEW pos \in UserRewardInfo
    PROVE  Earned(pos.checkpoint, pos) = pos.pending
<1>1. pos.liquidity \in Nat /\ pos.checkpoint \in Nat /\ pos.pending \in Nat
  BY PositionFields
<1>2. pos.liquidity * (pos.checkpoint - pos.checkpoint) = 0
  BY <1>1
<1>3. 0 \div Scale = 0
  BY Units
<1> QED
  BY <1>1, <1>2, <1>3 DEF Earned

LEMMA OwedNow ==
    ASSUME RewardsInv, NEW p \in Positions
    PROVE  /\ Owed(p) = Earned(Current.reward_per_token_stored, position[p])
           /\ position[p] \in UserRewardInfo
           /\ Current.reward_per_token_stored \in Nat
           /\ position[p].checkpoint <= Current.reward_per_token_stored
           /\ claimed[p] \in Nat /\ Owed(p) \in Nat
<1>1. /\ Current \in RewardInfo
      /\ ~Current.initialized => Current.reward_per_token_stored = 0
      /\ position[p].checkpoint <= Current.reward_per_token_stored
  BY CurrentFacts DEF Fresh, Checked
<1>2. position[p] \in UserRewardInfo /\ claimed[p] \in Nat
      /\ Current.reward_per_token_stored \in Nat
  BY SettledFacts
<1>3. UpdatePosition(Current, position[p]).pending
        = Earned(Current.reward_per_token_stored, position[p])
  BY <1>1, <1>2, PositionSettled DEF Earned
<1> QED
  BY <1>1, <1>2, <1>3, OwedWithin DEF Owed

\* The same, of the state after a step.
LEMMA OwedNext ==
    ASSUME RewardsInv', NEW p \in Positions
    PROVE  LET stored == UpdatePool(reward', liquidity', now').reward_per_token_stored
           IN /\ Owed(p)' = Earned(stored, position'[p])
              /\ position'[p] \in UserRewardInfo
              /\ stored \in Nat
              /\ position'[p].checkpoint <= stored
              /\ reward'.reward_per_token_stored <= stored
              /\ claimed'[p] \in Nat
<1> DEFINE c == UpdatePool(reward', liquidity', now')
           old == reward'.reward_per_token_stored
           stored == c.reward_per_token_stored
<1>1. /\ reward' \in RewardInfo /\ liquidity' \in Nat /\ now' \in Nat
      /\ position'[p] \in UserRewardInfo /\ claimed'[p] \in Nat
  BY DEF RewardsInv, TypeOK
<1>2. Timely(reward', now') /\ position'[p].checkpoint <= old
      /\ (~reward'.initialized => old = 0)
  BY DEF RewardsInv, RewardOK, PositionsOK, Timely
<1>3. /\ c \in RewardInfo /\ c.initialized = reward'.initialized
      /\ stored - old \in Nat
  BY <1>1, <1>2, PoolUpdated
<1>4. old \in Nat /\ stored \in Nat /\ position'[p].checkpoint \in Nat
  BY <1>1, <1>3, RewardFields, PositionFields
<1>5. old <= stored /\ position'[p].checkpoint <= stored
  BY <1>2, <1>3, <1>4
<1>6. ~c.initialized => stored = 0
  <2>1. ~reward'.initialized => c = reward'
    BY DEF UpdatePool
  <2> QED
    BY <2>1, <1>2, <1>3
<1>7. Owed(p)' = UpdatePosition(c, position'[p]).pending
  BY DEF Owed, Current
<1>8. UpdatePosition(c, position'[p]).pending = Earned(stored, position'[p])
  BY <1>1, <1>3, <1>5, <1>6, PositionSettled DEF Earned
<1> QED
  BY <1>1, <1>4, <1>5, <1>7, <1>8

\* A position nobody touches may claim no less, when the reward comes to no
\* less.
LEMMA UntouchedKeeps ==
    ASSUME RewardsInv, RewardsInv', NEW p \in Positions,
           position'[p] = position[p], claimed'[p] = claimed[p],
           Current.reward_per_token_stored
             <= UpdatePool(reward', liquidity', now').reward_per_token_stored
    PROVE  Entitled(p)' >= Entitled(p)
<1> DEFINE now1 == Current.reward_per_token_stored
           later == UpdatePool(reward', liquidity', now').reward_per_token_stored
<1>1. /\ Owed(p) = Earned(now1, position[p]) /\ position[p] \in UserRewardInfo
      /\ now1 \in Nat /\ position[p].checkpoint <= now1 /\ claimed[p] \in Nat
      /\ Owed(p) \in Nat
  BY OwedNow
<1>2. Owed(p)' = Earned(later, position[p]) /\ later \in Nat
  BY OwedNext
<1>3. Earned(now1, position[p]) <= Earned(later, position[p])
      /\ Earned(later, position[p]) \in Nat
  <2>1. now1 <= later
    OBVIOUS
  <2> HIDE DEF now1, later
  <2>2. position[p].checkpoint \in Nat
    BY <1>1, PositionFields
  <2>3. position[p].checkpoint <= later
    BY <2>1, <2>2, <1>1, <1>2
  <2> QED
    BY <2>1, <2>3, <1>1, <1>2, EarnedGrows
<1>4. Entitled(p) = Owed(p) + claimed[p] /\ Entitled(p)' = Owed(p)' + claimed[p]
  BY DEF Entitled
<1> QED
  BY <1>1, <1>2, <1>3, <1>4

\* After an instruction that brought the reward up to date, it stays there.
LEMMA CurrentStays ==
    ASSUME RewardsInv, RewardsInv', ElapsedSince(reward', now') = 0,
           reward'.reward_per_token_stored = Current.reward_per_token_stored
    PROVE  UpdatePool(reward', liquidity', now').reward_per_token_stored
             = Current.reward_per_token_stored
<1>1. /\ reward' \in RewardInfo /\ liquidity' \in Nat /\ now' \in Nat
      /\ Timely(reward', now')
  BY DEF RewardsInv, TypeOK, RewardOK, Timely
<1> QED
  BY <1>1, UpToDate

\* A position that was settled keeps, pending and paid together, what it might
\* have claimed.
LEMMA SettledKeeps ==
    ASSUME RewardsInv, RewardsInv', NEW p \in Positions,
           ElapsedSince(reward', now') = 0,
           reward'.reward_per_token_stored = Current.reward_per_token_stored,
           position'[p].checkpoint = Current.reward_per_token_stored,
           position'[p].pending + claimed'[p] = Owed(p) + claimed[p]
    PROVE  Entitled(p)' >= Entitled(p)
<1> DEFINE stored == Current.reward_per_token_stored
<1>1. Owed(p) \in Nat /\ claimed[p] \in Nat
  BY OwedNow
<1>2. UpdatePool(reward', liquidity', now').reward_per_token_stored = stored
  BY CurrentStays
<1>3. Owed(p)' = Earned(stored, position'[p]) /\ position'[p] \in UserRewardInfo
  BY <1>2, OwedNext
<1>4. Earned(stored, position'[p]) = position'[p].pending
  BY <1>3, EarnedSettled
<1>5. Entitled(p)' = Owed(p)' + claimed'[p] /\ Entitled(p) = Owed(p) + claimed[p]
  BY DEF Entitled
<1>6. Entitled(p)' = Entitled(p) /\ Entitled(p) \in Nat
  BY <1>1, <1>3, <1>4, <1>5
<1> QED
  BY <1>6

LEMMA OwnerKeeps ==
    ASSUME RewardsInv, RewardsInv', NEW q \in Positions, OwnerStep(q), NEW p \in Positions
    PROVE  Entitled(p)' >= Entitled(p) \/ (frozen /\ ClaimReward(p, TRUE))
<1>1. /\ Current \in RewardInfo /\ ElapsedSince(Current, now) = 0 /\ position \in PositionsType
      /\ claimed \in [Positions -> Nat]
  BY CurrentFacts, InvFacts DEF Fresh
<1>2. /\ Current.reward_per_token_stored \in Nat /\ Owed(p) \in Nat /\ claimed[p] \in Nat
      /\ position[p] \in UserRewardInfo
  BY OwedNow
<1>3. CASE CreatePosition(q)
  <2>1. position[q] = NewPosition
    BY <1>3, InvFacts DEF CreatePosition
  <2>2. /\ position' = position /\ UNCHANGED <<reward, liquidity, now, claimed>>
    BY <1>1, <1>3, <2>1 DEF CreatePosition, PositionsType
  <2>3. Current.reward_per_token_stored
          <= UpdatePool(reward', liquidity', now').reward_per_token_stored
    BY <1>2, <2>2 DEF Current
  <2> QED
    BY <2>2, <2>3, UntouchedKeeps
<1>4. CASE ClosePosition(q)
  <2>1. /\ UNCHANGED <<reward, liquidity, now, claimed>>
        /\ position' = [position EXCEPT ![q] = NewPosition]
        /\ position[q].pending = 0 /\ position[q].liquidity = 0
    BY <1>4 DEF ClosePosition, IsEmpty
  <2>2. Current.reward_per_token_stored
          <= UpdatePool(reward', liquidity', now').reward_per_token_stored
    BY <1>2, <2>1 DEF Current
  <2>3. CASE p # q
    <3>1. position'[p] = position[p] /\ claimed'[p] = claimed[p]
      BY <2>1, <2>3, <1>1 DEF PositionsType
    <3> QED
      BY <3>1, <2>2, UntouchedKeeps
  <2>4. CASE p = q
    <3>1. Owed(p) = 0
      <4>1. position[p].checkpoint \in Nat
        BY <1>2, PositionFields
      <4>2. 0 * (Current.reward_per_token_stored - position[p].checkpoint) = 0
        BY <1>2, <4>1
      <4>3. 0 + 0 \div Scale = 0
        BY Units
      <4> QED
        BY <2>1, <2>4, <4>2, <4>3, OwedNow DEF Earned
    <3>2. Owed(p)' \in Nat
      <4> DEFINE stored == UpdatePool(reward', liquidity', now').reward_per_token_stored
      <4>1. /\ Owed(p)' = Earned(stored, position'[p]) /\ position'[p] \in UserRewardInfo
            /\ stored \in Nat /\ position'[p].checkpoint <= stored
        BY OwedNext
      <4> HIDE DEF stored
      <4>2. stored <= stored
        BY <4>1
      <4> QED
        BY <4>1, <4>2, EarnedGrows
    <3>3. Entitled(p) = 0 + claimed[p] /\ Entitled(p)' = Owed(p)' + claimed[p]
      BY <2>1, <3>1 DEF Entitled
    <3>4. Entitled(p)' >= Entitled(p)
      <4> DEFINE a == claimed[p]
                 b == Owed(p)'
      <4>1. a \in Nat /\ b \in Nat /\ Entitled(p) = 0 + a /\ Entitled(p)' = b + a
        BY <1>2, <3>2, <3>3
      <4> HIDE DEF a, b
      <4>2. 0 + a <= b + a
        BY <4>1
      <4> QED
        BY <4>1, <4>2
    <3> QED
      BY <3>4
  <2> QED
    BY <2>3, <2>4
<1>5. ASSUME NEW delta \in Int, ChangeLiquidity(q, delta)
      PROVE  Entitled(p)' >= Entitled(p)
  <2> DEFINE pos == UpdatePosition(Current, position[q])
             new == [pos EXCEPT !.liquidity = @ + delta]
  <2>1. /\ reward' = Current /\ now' = now /\ claimed' = claimed
        /\ position' = [position EXCEPT ![q] = new]
    BY <1>5 DEF ChangeLiquidity
  <2>2. ElapsedSince(reward', now') = 0
        /\ reward'.reward_per_token_stored = Current.reward_per_token_stored
    BY <1>1, <2>1
  <2>3. CASE p # q
    <3>1. position'[p] = position[p] /\ claimed'[p] = claimed[p]
      BY <2>1, <2>3, <1>1 DEF PositionsType
    <3>2. Current.reward_per_token_stored
            <= UpdatePool(reward', liquidity', now').reward_per_token_stored
      BY <1>2, <2>2, CurrentStays
    <3> QED
      BY <3>1, <3>2, UntouchedKeeps
  <2>4. CASE p = q
    <3>1. pos \in UserRewardInfo /\ pos.checkpoint = Current.reward_per_token_stored
      BY SettledFacts
    <3>2. position'[p] = new
      BY <2>1, <2>4, <1>1 DEF PositionsType
    <3>3. new.checkpoint = pos.checkpoint /\ new.pending = pos.pending
      <4> HIDE DEF pos
      <4> QED
        BY <3>1 DEF UserRewardInfo
    <3>4. Owed(p) = pos.pending
      BY <2>4 DEF Owed
    <3> HIDE DEF pos, new
    <3>5. position'[p].checkpoint = Current.reward_per_token_stored
          /\ position'[p].pending + claimed'[p] = Owed(p) + claimed[p]
      BY <2>1, <3>1, <3>2, <3>3, <3>4
    <3> QED
      BY <2>2, <3>5, SettledKeeps
  <2> QED
    BY <2>3, <2>4
<1>6. ASSUME NEW skip \in BOOLEAN, ClaimReward(q, skip)
      PROVE  Entitled(p)' >= Entitled(p) \/ (frozen /\ ClaimReward(p, TRUE))
  <2> DEFINE pos == UpdatePosition(Current, position[q])
             new == [pos EXCEPT !.pending = 0]
  <2>1. /\ reward' = Current /\ now' = now
        /\ position' = [position EXCEPT ![q] = new]
        /\ IF frozen /\ pos.pending > 0
           THEN skip /\ claimed' = claimed
           ELSE claimed' = [claimed EXCEPT ![q] = @ + pos.pending]
    BY <1>6 DEF ClaimReward
  <2>2. ElapsedSince(reward', now') = 0
        /\ reward'.reward_per_token_stored = Current.reward_per_token_stored
    BY <1>1, <2>1
  <2>3. CASE p # q
    <3>1. position'[p] = position[p] /\ claimed'[p] = claimed[p]
      <4> HIDE DEF new, pos
      <4> QED
        BY <2>1, <2>3, <1>1 DEF PositionsType
    <3>2. Current.reward_per_token_stored
            <= UpdatePool(reward', liquidity', now').reward_per_token_stored
      BY <1>2, <2>2, CurrentStays
    <3> QED
      BY <3>1, <3>2, UntouchedKeeps
  <2>4. CASE p = q /\ frozen /\ pos.pending > 0
    <3>1. skip = TRUE
      BY <2>1, <2>4
    <3> QED
      BY <3>1, <2>4, <1>6
  <2>5. CASE p = q /\ ~(frozen /\ pos.pending > 0)
    <3>1. pos \in UserRewardInfo /\ pos.checkpoint = Current.reward_per_token_stored
      BY SettledFacts
    <3>2. position'[p] = new
      BY <2>1, <2>5, <1>1 DEF PositionsType
    <3>3. new.checkpoint = pos.checkpoint /\ new.pending = 0 /\ pos.pending \in Nat
      <4> HIDE DEF pos
      <4> QED
        BY <3>1 DEF UserRewardInfo
    <3>4. Owed(p) = pos.pending
      BY <2>5 DEF Owed
    <3> HIDE DEF pos, new
    <3>5. claimed'[p] = claimed[p] + pos.pending
      BY <2>1, <2>5, <1>1
    <3>6. position'[p].checkpoint = Current.reward_per_token_stored
          /\ position'[p].pending + claimed'[p] = Owed(p) + claimed[p]
      BY <3>1, <3>2, <3>3, <3>4, <3>5, <1>2
    <3> QED
      BY <2>2, <3>6, SettledKeeps
  <2> QED
    BY <2>3, <2>4, <2>5
<1>7. ASSUME NEW delta \in Liquidities PROVE delta \in Int /\ -delta \in Int
  BY RewardsAssumption
<1> QED
  BY <1>3, <1>4, <1>5, <1>6, <1>7 DEF OwnerStep

\* The longer since the last update, the more it brings.
LEMMA StoredGrows ==
    ASSUME NEW r \in RewardInfo, NEW s \in RewardInfo, NEW supply \in Nat,
           NEW time \in Nat, NEW later \in Nat,
           Timely(r, time), Timely(s, later), time <= later,
           s.reward_rate = r.reward_rate, s.last_update_time = r.last_update_time,
           s.reward_duration_end = r.reward_duration_end,
           s.reward_per_token_stored = r.reward_per_token_stored,
           r.initialized => s.initialized
    PROVE  UpdatePool(r, supply, time).reward_per_token_stored
             <= UpdatePool(s, supply, later).reward_per_token_stored
<1> DEFINE e == ElapsedSince(r, time)
           f == ElapsedSince(s, later)
           R == r.reward_rate
           U == LIQUIDITY_UNIT
           old == r.reward_per_token_stored
           x == e * R * U
           y == f * R * U
           first == UpdatePool(r, supply, time).reward_per_token_stored
           second == UpdatePool(s, supply, later).reward_per_token_stored
<1>1. /\ R \in Nat /\ old \in Nat /\ r.last_update_time \in Nat
      /\ r.reward_duration_end \in Nat /\ U \in Nat
  BY RewardFields, Units
<1>2. e \in Nat /\ f \in Nat /\ e <= f
  BY <1>1 DEF Timely, ElapsedSince, Least
<1>3. second - old \in Nat /\ second \in Nat
  <2>1. UpdatePool(s, supply, later) \in RewardInfo
        /\ second - s.reward_per_token_stored \in Nat
    BY PoolUpdated
  <2> QED
    BY <2>1, RewardFields
<1>4. CASE ~r.initialized \/ supply = 0
  <2>1. first = old
    BY <1>4 DEF UpdatePool, RewardInfo
  <2> HIDE DEF first, second
  <2> QED
    BY <2>1, <1>1, <1>3 DEF first, second
<1>5. CASE r.initialized /\ supply > 0
  <2>1. first = old + x \div supply
    <3> DEFINE new == old + x \div supply
               last == LastUpdate(r, time)
    <3>1. UpdatePool(r, supply, time)
            = [r EXCEPT !.reward_per_token_stored = new, !.last_update_time = last]
      BY <1>5 DEF UpdatePool
    <3> HIDE DEF new, last
    <3>2. first = new
      BY <3>1 DEF RewardInfo
    <3> QED
      BY <3>2 DEF new
  <2>2. second = old + y \div supply
    <3> DEFINE new == old + y \div supply
               last == LastUpdate(s, later)
    <3>1. UpdatePool(s, supply, later)
            = [s EXCEPT !.reward_per_token_stored = new, !.last_update_time = last]
      BY <1>5 DEF UpdatePool
    <3> HIDE DEF new, last
    <3>2. second = new
      BY <3>1 DEF RewardInfo
    <3> QED
      BY <3>2 DEF new
  <2> HIDE DEF first, second, e, f, R, U, old
  <2>3. x \in Nat /\ y \in Nat /\ x <= y
    <3> DEFINE m == R * U
    <3>1. m \in Nat
      BY <1>1
    <3>2. x = e * m /\ y = f * m
      BY <1>1, <1>2
    <3> HIDE DEF m, x, y
    <3>3. e * m <= f * m /\ e * m \in Nat /\ f * m \in Nat
      BY <3>1, <1>2, Monotone
    <3> QED
      BY <3>2, <3>3
  <2> HIDE DEF x, y
  <2>4. x \div supply \in Nat /\ y \div supply \in Nat /\ x \div supply <= y \div supply
    BY <2>3, <1>5, DivBounds, DivMonotone
  <2>5. first <= second
    BY <2>1, <2>2, <2>4, <1>1
  <2> QED
    BY <2>5 DEF first, second
<1> QED
  BY <1>4, <1>5

\* While its rate and times stay, a reward only brings more.
LEMMA RunningRewardKeeps ==
    ASSUME RewardsInv, RewardsInv', NEW p \in Positions,
           UNCHANGED <<liquidity, position, claimed>>, now <= now',
           reward'.reward_rate = reward.reward_rate,
           reward'.last_update_time = reward.last_update_time,
           reward'.reward_duration_end = reward.reward_duration_end,
           reward'.reward_per_token_stored = reward.reward_per_token_stored,
           reward.initialized => reward'.initialized
    PROVE  Entitled(p)' >= Entitled(p)
<1>1. /\ reward \in RewardInfo /\ liquidity \in Nat /\ now \in Nat /\ Timely(reward, now)
  BY InvFacts
<1>2. /\ reward' \in RewardInfo /\ now' \in Nat /\ Timely(reward', now')
  BY DEF RewardsInv, TypeOK, RewardOK, Timely
<1>3. Current.reward_per_token_stored
        <= UpdatePool(reward', liquidity', now').reward_per_token_stored
  BY <1>1, <1>2, StoredGrows DEF Current
<1> QED
  BY <1>3, UntouchedKeeps

LEMMA EditorKeeps ==
    ASSUME RewardsInv, RewardsInv', NEW p \in Positions,
           NEW signer \in Signers, EditorStep(signer)
    PROVE  Entitled(p)' >= Entitled(p)
<1>1. reward \in RewardInfo /\ now \in Nat /\ now <= now
  BY InvFacts
<1>2. ASSUME NEW d \in Durations, NEW f \in Funders, InitializeReward(signer, d, f)
      PROVE  Entitled(p)' >= Entitled(p)
  <2>1. /\ UNCHANGED <<liquidity, position, claimed>> /\ now' = now
        /\ reward' = [reward EXCEPT !.initialized = TRUE, !.funder = f, !.reward_duration = d]
    BY <1>2 DEF InitializeReward
  <2>2. /\ reward'.reward_rate = reward.reward_rate
        /\ reward'.last_update_time = reward.last_update_time
        /\ reward'.reward_duration_end = reward.reward_duration_end
        /\ reward'.reward_per_token_stored = reward.reward_per_token_stored
        /\ reward'.initialized
    BY <1>1, <2>1 DEF RewardInfo
  <2> QED
    BY <1>1, <2>1, <2>2, RunningRewardKeeps
<1>3. ASSUME NEW d \in Durations, UpdateRewardDuration(signer, d)
      PROVE  Entitled(p)' >= Entitled(p)
  <2>1. /\ UNCHANGED <<liquidity, position, claimed>> /\ now' = now
        /\ reward' = [reward EXCEPT !.reward_duration = d]
    BY <1>3 DEF UpdateRewardDuration
  <2>2. /\ reward'.reward_rate = reward.reward_rate
        /\ reward'.last_update_time = reward.last_update_time
        /\ reward'.reward_duration_end = reward.reward_duration_end
        /\ reward'.reward_per_token_stored = reward.reward_per_token_stored
        /\ reward'.initialized = reward.initialized
    BY <1>1, <2>1 DEF RewardInfo
  <2> QED
    BY <1>1, <2>1, <2>2, RunningRewardKeeps
<1>4. ASSUME NEW f \in Funders, UpdateRewardFunder(signer, f)
      PROVE  Entitled(p)' >= Entitled(p)
  <2>1. /\ UNCHANGED <<liquidity, position, claimed>> /\ now' = now
        /\ reward' = [reward EXCEPT !.funder = f]
    BY <1>4 DEF UpdateRewardFunder
  <2>2. /\ reward'.reward_rate = reward.reward_rate
        /\ reward'.last_update_time = reward.last_update_time
        /\ reward'.reward_duration_end = reward.reward_duration_end
        /\ reward'.reward_per_token_stored = reward.reward_per_token_stored
        /\ reward'.initialized = reward.initialized
    BY <1>1, <2>1 DEF RewardInfo
  <2> QED
    BY <1>1, <2>1, <2>2, RunningRewardKeeps
<1> QED
  BY <1>2, <1>3, <1>4 DEF EditorStep

LEMMA TimeKeeps ==
    ASSUME RewardsInv, RewardsInv', NEW p \in Positions, Tick \/ FreezeOrThaw
    PROVE  Entitled(p)' >= Entitled(p)
<1>1. /\ UNCHANGED <<reward, liquidity, position, claimed>>
      /\ now' = now \/ now' = now + 1
  BY DEF Tick, FreezeOrThaw
<1>2. now <= now'
  BY <1>1, InvFacts
<1> QED
  BY <1>1, <1>2, RunningRewardKeeps

\* What a funding replaces, and what it leaves.
LEMMA FundedFields ==
    ASSUME NEW r \in RewardInfo, NEW amount, NEW time
    PROVE  /\ Funded(r, amount, time).reward_per_token_stored = r.reward_per_token_stored
           /\ Funded(r, amount, time).last_update_time = time
           /\ Funded(r, amount, time).reward_duration_end = time + r.reward_duration
<1> DEFINE leftover == IF time >= r.reward_duration_end THEN 0
                       ELSE (r.reward_rate * (r.reward_duration_end - time)) \div RATE_UNIT
           rate == ((amount + leftover) * RATE_UNIT) \div r.reward_duration
           later == time + r.reward_duration
<1>1. Funded(r, amount, time)
        = [r EXCEPT !.reward_rate = rate, !.last_update_time = time,
                    !.reward_duration_end = later]
  BY DEF Funded
<1>2. later = time + r.reward_duration
  OBVIOUS
<1> HIDE DEF rate, later
<1> QED
  BY <1>1, <1>2 DEF RewardInfo

\* The funder brings the reward up to date before its rate or times change.
LEMMA FunderKeeps ==
    ASSUME RewardsInv, RewardsInv', NEW p \in Positions,
           NEW signer \in Signers, FunderStep(signer)
    PROVE  Entitled(p)' >= Entitled(p)
<1> DEFINE c == Current
<1>1. /\ c \in RewardInfo /\ ElapsedSince(c, now) = 0 /\ now \in Nat
      /\ c.initialized = reward.initialized /\ c.reward_duration = reward.reward_duration
      /\ reward.initialized => reward.reward_duration \in Durations
      /\ c.reward_per_token_stored \in Nat
  BY CurrentFacts, InvFacts, OwedNow DEF Fresh
<1>2. /\ UNCHANGED <<liquidity, position, claimed>>
      /\ reward'.reward_per_token_stored = c.reward_per_token_stored
      /\ ElapsedSince(reward', now') = 0
  <2>1. ASSUME NEW amount \in Amounts, NEW carry_forward \in BOOLEAN,
               FundReward(signer, amount, carry_forward)
        PROVE  /\ UNCHANGED <<liquidity, position, claimed>>
               /\ reward'.reward_per_token_stored = c.reward_per_token_stored
               /\ ElapsedSince(reward', now') = 0
    <3> DEFINE r0 == [c EXCEPT !.empty_seconds = 0]
    <3>1. /\ UNCHANGED <<liquidity, position, claimed>> /\ now' = now
          /\ \/ reward' = Funded(r0, Brought(amount) + Ineligible(c), now)
             \/ reward' = Funded(c, Brought(amount), now)
          /\ reward.initialized
      BY <2>1 DEF FundReward
    <3>2. /\ r0 \in RewardInfo /\ r0.reward_duration = c.reward_duration
          /\ r0.reward_per_token_stored = c.reward_per_token_stored
      <4> HIDE DEF c
      <4> QED
        BY <1>1 DEF RewardInfo
    <3>3. c.reward_duration \in Nat
      <4>1. c.reward_duration \in Durations
        BY <1>1, <3>1
      <4>2. Durations \subseteq Nat \ {0}
        BY RewardsAssumption
      <4> HIDE DEF c
      <4> QED
        BY <4>1, <4>2
    <3> HIDE DEF c, r0
    <3>a. PICK r \in RewardInfo :
             /\ r.reward_duration = c.reward_duration
             /\ r.reward_per_token_stored = c.reward_per_token_stored
             /\ \E b : reward' = Funded(r, b, now)
      BY <1>1, <3>1, <3>2
    <3>b. PICK b : reward' = Funded(r, b, now)
      BY <3>a
    <3>4. /\ reward' = Funded(r, b, now) /\ r \in RewardInfo
          /\ r.reward_duration = c.reward_duration
          /\ r.reward_per_token_stored = c.reward_per_token_stored
      BY <3>a, <3>b
    <3> DEFINE later == now + r.reward_duration
    <3>5. /\ reward'.reward_per_token_stored = r.reward_per_token_stored
          /\ reward'.last_update_time = now
          /\ reward'.reward_duration_end = later
      BY <3>4, FundedFields
    <3>6. ElapsedSince(reward', now') = 0
      <4>1. Least(now, later) = now
        BY <1>1, <3>3, <3>4 DEF Least
      <4> HIDE DEF later
      <4> QED
        BY <4>1, <3>1, <3>5, <1>1 DEF ElapsedSince
    <3> QED
      BY <3>1, <3>4, <3>5, <3>6
  <2>2. CASE WithdrawIneligibleReward(signer)
    <3>1. /\ UNCHANGED <<liquidity, position, claimed>> /\ now' = now
          /\ reward' = [c EXCEPT !.empty_seconds = 0]
      BY <2>2 DEF WithdrawIneligibleReward
    <3> HIDE DEF c
    <3>2. /\ reward'.reward_per_token_stored = c.reward_per_token_stored
          /\ reward'.last_update_time = c.last_update_time
          /\ reward'.reward_duration_end = c.reward_duration_end
      BY <3>1, <1>1 DEF RewardInfo
    <3> QED
      BY <3>1, <3>2, <1>1 DEF ElapsedSince
  <2> QED
    BY <2>1, <2>2 DEF FunderStep
<1>3. c.reward_per_token_stored
        <= UpdatePool(reward', liquidity', now').reward_per_token_stored
  BY <1>1, <1>2, CurrentStays
<1> QED
  BY <1>2, <1>3, UntouchedKeeps

\* Nobody's step takes from a position what it has earned and not yet claimed:
\* only its own split moves it, and its own claim that skips a frozen vault
\* waives it.
THEOREM EarnedRewardsStay == Spec => RewardsStay
<1> DEFINE Keeps == \A p \in Positions :
                      \/ Entitled(p)' >= Entitled(p)
                      \/ frozen /\ ClaimReward(p, TRUE)
<1>1. ASSUME RewardsInv, RewardsInv', Next
      PROVE  Split \/ Keeps
  <2>1. ASSUME NEW q \in Positions, OwnerStep(q) PROVE Keeps
    BY <1>1, <2>1, OwnerKeeps
  <2>2. ASSUME NEW signer \in Signers, EditorStep(signer) PROVE Keeps
    BY <1>1, <2>2, EditorKeeps
  <2>3. ASSUME NEW signer \in Signers, FunderStep(signer) PROVE Keeps
    BY <1>1, <2>3, FunderKeeps
  <2>4. CASE FreezeOrThaw \/ Tick
    BY <1>1, <2>4, TimeKeeps
  <2> HIDE DEF Keeps
  <2> QED
    BY <1>1, <2>1, <2>2, <2>3, <2>4 DEF Next
<1>2. RewardsInv /\ RewardsInv' /\ [Next]_vars => [Split \/ Keeps]_vars
  <2> HIDE DEF Keeps
  <2> QED
    BY <1>1
<1> QED
  BY <1>2, Invariant, PTL DEF Spec, RewardsStay
=============================================================================
