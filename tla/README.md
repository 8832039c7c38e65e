# A verification development for the fee router and its AMM

The repository is a Solana workspace of two programs. `cp-amm` is a constant-product
AMM (positions are NFTs, fees are earned per unit of liquidity). `fee_router` owns one
"honorary" position in a pool that collects fees in the quote token only, and once a day
shares the fees of that position between the investors of a vault, in proportion to what
their Streamflow streams still lock, and the creator.

All source paths below are relative to `src/`.

## 1. Inventory

| Component | State | Operations | What makes it correct |
|---|---|---|---|
| `fee_router`: policy and daily distribution (`instructions/setup_policy.rs`, `crank_distribution.rs`, `state/*`, `utils/math.rs`) | `Policy`, `DistributionProgress` (cursor, day flag, bitmap, carry-overs, totals), the treasury token account | `setup_policy` once; `crank_distribution(page_start, page_size)` by anybody, any number of times | no token appears or disappears; every investor is treated once a day whatever the pages; days are a day apart; a day that was started is finished; dust is neither lost nor paid twice |
| `fee_router`: claim and stream reading (`integrations/*`) | none of its own | `claim_position_fees_quote_only` (CPI), `read_locked_amount_from_stream` | what was claimed is what arrived; nothing in the base token |
| `fee_router`: honorary position (`initialize_position.rs`, `add_honorary_liquidity.rs`, `utils/validation.rs`) | `InvestorFeePositionOwner`, the two treasury accounts | create the position, add liquidity to it | only pools whose fees are all in the quote token, now and after any trade; what liquidity costs is paid by its funder; what a claim records is what the pool owed |
| `cp-amm`: positions and liquidity (`state/position.rs`, `state/vesting.rs`, `ix_*_position*.rs`, `ix_*_liquidity.rs`) | `Position`, `Vesting`, `Pool.liquidity`, `Pool.permanent_lock_liquidity`, the fee accumulators | create, close, add, remove, lock, permanently lock, refresh vesting, split, claim fees | the pool's liquidity is the sum of the positions'; locked liquidity cannot be withdrawn; fees owed are covered |
| `cp-amm`: swaps (`state/pool.rs`, `curve.rs`, `instructions/swap/*`, `utils/token.rs`) | price, reserves, fee ledgers | swap exact in / partial fill / exact out, protocol and partner claims | rounding favours the pool, also through the transfer fees of the mints; the vaults cover what they owe |
| `cp-amm`: fees (`state/fee.rs`, `base_fee/*`) | scheduler and rate-limiter parameters, volatility accumulator | fee numerator for a trade | stays between the bounds, falls with time, grows with size |
| `cp-amm`: rewards (`RewardInfo` in `state/pool.rs`, `ix_fund_reward.rs`, ...) | rate, end, per-liquidity accumulator, empty-pool seconds | initialise, fund, claim, withdraw ineligible, change duration or funder | the reward vault covers every claim; nobody earns for a time they were not there |
| `cp-amm`: configuration and access (`state/config.rs`, `params/activation.rs`, `utils/activation_handler.rs`, `pool_action_access/*`, `ix_initialize_*pool*.rs`, `instructions/admin/*`) | config accounts, operators, token badges, pool status, activation points | admin instructions, the three ways to create a pool | the alpha vault first, then everybody; no pool that never opens |
| `rust-sdk`, TypeScript clients and tests, runbooks | none | off-chain quotes, tests, deployment | not part of the running system |

How they interact: `fee_router` calls `cp-amm` by CPI (create position, add liquidity,
claim fees); swaps on the pool make the fees of the position grow between cranks; the
crank reads the streams of another program; the treasury accounts are shared by the claims
of the crank, its payouts and the funding of the position; crankers, swappers and liquidity
providers are independent, and the chain serialises the transactions that write the same
account.

What is hard here: pages of a day that come from different crankers with different page
sizes, repeated, late, or dropped half-way; amounts read again hours after the total they
are divided by; floors, thresholds and caps whose residues are carried from page to page
and from day to day; accounts that must agree although different lines update them; and,
in the AMM, lazily settled accumulators (fees and rewards per unit of liquidity) that are
right only if every path that changes a position's liquidity settles first.

What could go wrong is listed line by line under `hazards` in `PROJECT.json`, each with
the properties that would notice.

## 2. Plan

Order: the money path of `fee_router` first (it is the program of this repository), then
the parts of `cp-amm` it depends on.

| Step | Modules | State |
|---|---|---|
| 1 | `DistributionDay` (abstract), `FeeRouterCrank` (detailed), their refinement | done: checked and proved |
| 2 | `CpAmmCurve` (operators), `CpAmmPool` | done: checked and, but for liveness, proved |
| 3 | `CpAmmRewards` | done: checked and proved |
| 4 | `CpAmmFees` | done: checked and, but for liveness, proved |
| 5 | `FeeSource` (abstract), `HonoraryPosition` over `CpAmmPool`; the crank's side of the same interface | done: checked and proved, on both sides of the interface |
| 6 | `PoolAccess`: configs, badges, the three ways to create a pool, activation, access; roles, funders and closing in `CpAmmRewards` | done: checked, `PoolAccess` proved |
| 7 | `TransferFees`, under the transfers of `CpAmmPool` and `CpAmmRewards` | done: checked and proved |
| 8 | quotes of the three modes with the full fee (`CpAmmFees`) | done: checked and proved, one trade at a time |
| 9 | `CpAmmPool` over `CpAmmFees`: sequences of swaps and claims with the full fee and the volatility state | next |

Which module uses which:

    DistributionDay <= FeeRouterCrank => FeeSource <= HonoraryPosition
                                                          | extends
    CpAmmMath <- CpAmmCurve <---------------------- CpAmmPool
        ^------- TransferFees <------------------------'
                      ^------- CpAmmRewards         CpAmmFees    PoolAccess

(`<=` and `=>` point to the abstract specification that a module implements.)

Abstract specifications: `DistributionDay` (who is served when) and `FeeSource` (fees add
up, a claim takes all of them once). `FeeSource` has two implementations, the program that
claims and the position that earns: each is checked on its own side of the call, so that
the crank may be checked with fees that merely accrue. A third is worth stating: a share
ledger ("everybody is paid their part of each fee or of each second they were there for")
that the lazy accumulators of pool and rewards implement up to rounding; today its
statements are the invariants `FeesCovered` and `EarnsOnlyItsTime`, with history variables.

Proved by now: every safety invariant, action property and refinement that a run checks
(section 6). What is left is step 9: to run `CpAmmPool` with the fees of `CpAmmFees`, whose
lemmas about the curve (`CpAmmPoolProofs`) and about the three modes (`CpAmmFeesProofs`) would
then be about the same step.

## 3. Modules and how they correspond to the code

Each definition names the function it models in a comment or by its own name;
`PROJECT.json` maps it to lines. An operator `X_Mistake` beside an operator `X` is `X`
with a mistake one could plausibly make in the code. No definition uses it: substituted
for `X` it shows that a property notices the mistake, and `PROJECT.json` says which.

### `FeeRouterCrank` and `DistributionDay`

`setup_policy`, `crank_distribution` and what they call. A Solana instruction is atomic,
and two that write the same account are serialised, but the handler has four loops and
may fail at each turn. So `db` holds the committed accounts, `mem` the copy the
instruction works on, `tx` its local variables, and one action is one turn of a loop:

| Action | Code in `crank_distribution.rs` |
|---|---|
| `SetupPolicy` | `setup_policy.rs`, the whole handler |
| `RetryPreviousPage` | the early `Ok` of an idempotent retry, 169-193 |
| `Begin` | entry, page size and window checks, sequencing, 147-211 and 278-301 |
| `ScanStream` | the sum of all locked amounts on the first page, 212-231 |
| `ClaimAndStartDay` | CPI claim, `start_new_day`, 233-276 |
| `ReadStream` | individual locked amounts, 306-324 |
| `ComputeShares` | eligible share, investor fee, carry-over handed out, 326-359 |
| `PayInvestor`, `PayLoopDone` | payout loop, 361-454 |
| `DistributeCarry` | dust loop, 456-494 |
| `SettlePage`, `CloseDay` | carry-over, totals, creator remainder, `complete_day`, 496-556 |
| `Commit` | `Ok(())`: `mem` becomes `db` |
| `Fail`, `Drop` | an `Err`, or the runtime cutting the transaction short: `db` stays |
| `Accrue`, `Vest`, `TopUp`, `Tick` | fees of the position grow, streams unlock or are topped up, time passes |

Streams may change between pages but not within a transaction. Callers are arbitrary
in which page they ask for and how often, but bring the accounts the page asks for.
`visits`, `scanned`, `investor_atas` and `creator_ata` are history.

`DistributionDay` knows only a roster, an open or closed day, who has been served and
when the day began. Under the refinement `Commit` of a page is `Serve(group)` with the
page's investors, `SetupPolicy` is `Enroll`, `Tick` is `Tick`, everything else a stutter.

Beside it, `FeeSource` sees the fees of the position and what has been recorded as claimed:
a `Commit` of a page that started a day is `Claim`, `Accrue` is `Accrue`.

### `HonoraryPosition` and `FeeSource`

The other end of the claim: the steps of `fee_router` that call `cp-amm`, composed with the
whole of `CpAmmPool`. A CPI runs inside the caller's instruction, so that an action is the
conjunction of the router's part and the pool's action it invokes:

| Action | Code | Calls |
|---|---|---|
| `InitializeHonoraryPosition` | `initialize_position.rs`, `utils/validation.rs` (`QuoteOnlyPool`) | `CreatePosition` |
| `AddHonoraryLiquidity` | `add_honorary_liquidity.rs`: thresholds collected (`FundTreasury`), cost paid from the treasury | `AddLiquidity` |
| `ClaimFees` | `integrations/cp_amm.rs`: balances before and after, `BaseFeesDetected` | `ClaimPositionFee` |
| `PayOut` | the transfers of the crank, in parts | |

`OthersStep` is every step of the pool by anybody else. `AccountFor` is how the code orders
its two treasuries as the pool's tokens A and B; callers may bring any mint as the base,
also one the pool does not have.

### `CpAmmCurve` and `CpAmmPool`

`CpAmmCurve` has the arithmetic without state: amounts for a price move, next prices,
fees within and on top of an amount, the splits, and the three swap modes, each with the
rounding of its call. `CpAmmPool` has one pool, its positions, vesting accounts and
vaults; one instruction is one action (`AddLiquidity`, `RemoveLiquidity`,
`CreatePosition`, `ClosePosition`, `PermanentLockPosition`, `LockPosition`,
`RefreshVesting`, `SplitPosition`, `Swap`, `ClaimPositionFee`, `ClaimProtocolFee`,
`ClaimPartnerFee`, `SetPoolStatus`), because nothing in it is visible half done.

### `TransferFees`

Token-2022 mints that keep a part of every transfer (`utils/token.rs`): what arrives of an
amount (`Excluded`), and what must be sent for an amount to arrive (`Included`, with the
check that raises `FeeInverseIsIncorrect`). `CalculateFee` and `PreFeeAmount` are the
library's, as the code calls it. `CpAmmPool` and `CpAmmRewards` send and receive through it.

### `CpAmmRewards`

One `RewardInfo` with its vault, the positions and their `UserRewardInfo`: positions are
created and closed, a reward is initialised, funded (with and without carry-forward, also
before the end, from a mint with a transfer fee), its funder and its duration change,
liquidity changes, is split, rewards are claimed (also with `skip_reward` from a frozen
vault), the ineligible part is withdrawn. `CanEdit` and `IsValidFunder` say who may do it.
`share` is a history variable: exactly what each position earned, second by second.

### `PoolAccess`

Everything that decides whether a pool exists and who may use it when: the `Config`
accounts of both kinds, token badges, the three instructions that create a pool
(`InitializePool`, `InitializePoolWithDynamicConfig`, `InitializeCustomizablePool`),
`ActivationParams::validate` (`ValidActivation`), and the access rules (`CanSwap`,
`CanRemoveLiquidity`). Slots and seconds are two clocks that advance independently; a pool
has one of them. The account addresses (`Key`) are modelled as far as they forbid a second
pool.

### `CpAmmFees`

The fee of a trade. The base fee is a function of parameters, time and amount:
schedules (`SchedulerNumerators`, with `Pow` as the truncating square-and-multiply) and
rate limiter (`LimiterNumerator`, and `NumeratorsForOutput`, its inversion through
`Root`). An operation that may return an error is a set that is then empty. The dynamic
fee is the state: `Trade` is `update_pre_swap`, a swap to an arbitrary price, and
`update_post_swap`. Time is kept as the seconds since `last_update_timestamp`, up to
`decay_period`, which is all the code compares. `TradeQuotes` are the quotes of
`CpAmmCurve` for the three modes with the full fee at the current price: exact inputs ask
for the numerator of an amount that includes the fee, exact outputs and the part of a fill
that the range cuts short for that of an amount the fee comes on top of.

## 4. Runs

| Run | What it asks | Why the bounds are enough |
|---|---|---|
| `crank` | types, ledger, everybody once, no failing page, backing, investors' share, both refinements; a started day is completed | three investors are a first, a middle and a last one and allow days of one, two and three pages of mixed sizes; two accepted policies (a capped one and one with a share below the whole) and three refused; two fee accruals are two days, so dust crosses a day; one dropped transaction anywhere |
| `crank_growing` | once, dust, refinement, when streams may also grow | pages of at most two investors, so that every day has more than one page and dust is carried within the day; growth lets a page fail and be repeated |
| `pool` | types and price range, solvency of both vaults, fees of positions covered (before rounding, `FeesBacked`, and after it) and kept, quotes kept | a pool in the middle of its range with quote fees and a partner, and one at its upper edge with fees in both tokens; amounts of 7 and 60 are a swap that rounds to almost nothing and one that reaches the edge; two positions that come and go; two moves plus claims of everything; the mint of token A keeps an eighth, at most 3 (so both sides of the limit occur), that of token B is the 100 % case |
| `pool_locks` | liquidity adds up, vested liquidity is backed, vesting ends | two vesting accounts that may lock the same position, three schedules accepted and two refused, time to the end of the longest |
| `honorary` | the position earns quote only, claims never fail, deliver what was owed, other positions are covered meanwhile | a pool that passes preflight and one that must not; three swaps or additions, which allow fees before, between and after two fundings of the position; two thresholds, of which one suffices only if an earlier funding has left something; a third mint that no pool has |
| `rewards` | the vault covers, nobody earns outside their time, rewards stay | two fundings (also overlapping, by different funders), a pool that empties, two liquidity moves, positions closed and created anew, durations 1 and 2, four seconds: past the end of any first funding; the mint keeps a quarter, at most 1 |
| `fees` | every accepted parameter set yields a fee, schedules fall, closed form and inversion are right, all modes pay the same but for rounding, volatility fades | limiters of a few to forty steps, whose last step lies below the greatest amount or beyond it; exponents to 6; volatility that is capped, decays to a half, or does not decay by trades; some parameters that `validate` refuses; two liquidities, of which the range takes a part of the offers and some exact amounts can be bought, at every price, from one end of the range to the other |
| `access` | activation points lie where they may, the vault joins and trades first, every pool opens | buffers, joining times and greatest delays that differ between the two clocks, both just large enough to leave one or two accepted points for a vault; a pool created at each point of either clock, from a config that may be closed and replaced by one of the other kind, or from none; one pool, because pools share nothing but configs and badges |
| `crank_bitmap`, `crank_cap`, `crank_dust`, `honorary_funder` | the disagreements of section 7 | as above, with a bitmap of two bits in the first and a threshold that is exactly the cost in the last |

Scales (`PRICE_UNIT`, `LIQUIDITY_UNIT`, `FEE_DENOMINATOR`, `BASIS_POINTS_DIVISOR`, ...)
are constants and small in the runs: TLC's integers have 32 bits. The roundings are
coarser for it, so that an error of one unit shows. Amounts stay far below the
scaled-down type limits, except where a limit is modelled (the bitmap's bits, the
greatest amount of the rate limiter, the greatest activation delays).

`MaxFees`, `MaxTime`, `MaxDrops`, `MaxMoves`, `MaxFundings`, `MaxLiquidity`, `MaxPools`,
`LastCreation` and `MaxPoint` bound the state space only. Because of them the systems may stop, hence
`CHECK_DEADLOCK FALSE` in all runs but `fees`, where one can always trade.

Three bounds on what the properties say. Under the rate limiter the code rounds the root, the
rest, the fee and the numerator one after the other, so that `LimiterInverts` and
`OneFeeForAllModes` compare within a tolerance. A unit of the numerator is `UnitOf(amount)`
tokens, one for amounts up to `FEE_DENOMINATOR` (as in the run) and more for greater ones: with
plain tokens the bounds would hold of small instances only. An exact-out trade may cost up to
`Rounding`, four units, more than the exact-in trade of the same size, and one unit less.
While the volatility is not zero, and for what a fill may ask beyond its offer, those four
units are multiplied by `Grows`, since an error in a part weighs more in a whole of which the
fee takes much. Amounts out are `Reachable` if the greatest `u64` buys two tokens and one of its
own units more; for the last few the inversion finds an amount beyond the range, and fails.
`EveryDayCloses`
is checked with streams that only vest: one that is topped up in the middle of a day can make a
page need more than the treasury holds, and the page then fails until enough of it has vested.
`ClaimNeverFails` is about vaults created with the pool's own mints: the code accepts others,
whose claims always fail (section 7).

## 5. Fairness

- `FeeRouterCrank`: `WF(TxStep)`, a transaction the runtime has begun ends; and
  `WF(ContinueDay)`, while a day is open somebody keeps calling the page at the cursor.
  The code lets anybody crank, and a cranker who started a day has no other way to have
  it finished. Nobody is assumed to start a day, and no drop is fair.
- `CpAmmPool`: time passes, and a vesting account that has something to release is
  refreshed some time (its owner wants the liquidity).
- `PoolAccess`: slots are produced and time passes; no admin, creator or trader is obliged
  to anything.
- `CpAmmFees`: time passes. That trades go on is a premise of `VolatilityFades`, not
  fairness.

## 6. Proofs

Every theorem holds for all values of the constants that satisfy the assumptions of its
module. TLC evaluates the assumptions in every run. They are:

- `CrankAssumption`, `PolicyAssumption`: amounts are natural numbers, divisors are positive,
  parameters have the types the code gives them, `MaxInvestors` bounds the roster.
- `CurveAssumption`, `TransferAssumption`, `PoolAssumption`: units and denominators are positive, the rosters
  of positions and vesting accounts are finite, the greatest fee is below the whole
  (`get_max_fee_numerator` is 50 %), pools start with parameters of the types of
  `ValidPoolFees` (what `FeeScheduler::validate` computes with a checked subtraction).
- `HonoraryAssumption`: the honorary position is not the pool creator's, and the two mints
  of its pool keep nothing of a transfer (section 8); `NoOwner` is not an account.
- `RewardsAssumption`: the same kind; `SHARES`, the unit of the history variable `share`, is
  divisible by every liquidity a pool may have, so that the exact share of a second is a
  whole number of it. For every `MaxLiquidity` there is such a number.
- `FeesAssumption`: base and dynamic fees are records of the types of `BaseFeeStruct` and
  `DynamicFeeStruct`, a dynamic fee that is switched on has a step to divide by (`validate`
  fixes it), a whole has at most as many basis points as the fee's denominator has units
  (10000 and 10^9). The greatest fee leaves at least nine units of the denominator
  (`get_max_fee_numerator` leaves 1 % of 10^9, or a half): with fewer, a part's fee could be
  off by more than the four units. A root has bits enough for the rate limiter (128, and
  3 * 10^9 times a `u64` has 96). The prices have a least and a greatest one, the
  ends of the pool's range. What `validate` accepts of the parameters is not assumed: `Init`
  says it.
- `AccessAssumption`: buffers and greatest delays, each on its own clock.

The proof modules: `CpAmmMathProofs` (division, remainders, rounding, sums over finite sets,
induction over the natural numbers and exact powers, used by all others of `cp-amm`), `TransferFeesProofs`, `CpAmmPoolProofs`, `HonoraryPositionProofs`, `CpAmmRewardsProofs`,
`CpAmmFeesProofs`, `PoolAccessProofs`, `FeeRouterCrankProofs`.

Totals over positions and vesting accounts are folds. What one needs to know of them (a total
changes by what one member changes, is monotone, is zero only if every member is, and may be
regrouped) is proved in `CpAmmMathProofs` from the definition of the fold: a smallest set for
which the statement failed could be made smaller, which the well-foundedness of strict
inclusion on finite sets forbids. Induction over an operator is not needed for it.

### The crank (`FeeRouterCrankProofs`)

- `TypeCorrect`: `Spec => []TypeOK`. `TypeOK` alone is not inductive: that no subtraction
  goes below zero depends on where the handler is. `TypeInv` adds `PolicyOK` (what
  `setup_policy` checked), `CursorOK` (the cursor stays within the roster), `ControlOK`
  (what the local variables are at each point of the handler), `SumsOK` (partial sums only
  grow, so the difference of two is an investor's locked amount) and `MemOK` (what a
  transaction is about to commit has its cursor in place). One lemma per action.
- `TokensConserved`: `Spec => []Conservation`. Within a page the lifetime total lags behind
  the transfers by exactly what the page has distributed; `MemLedger` says so for the
  working copy at each point, and `Commit` carries it over.
- `EverybodyServedOnce`: `Spec => []ServedOnce`. `DayInv` says who has been visited at each
  point: below the cursor in the committed accounts, and in the working copy those of the
  page that the loop has passed; plus that the page in progress starts at the cursor and
  lies in the day it says it lies in.
- `ImplementsDays`: `Spec => DayProtocol`. From `DayInv`: a commit serves a non-empty group
  that is disjoint from those served, closes the day if and only if everybody is served,
  and starts one only a day length after the last.
- `ImplementsSource`: `Spec => ClaimsFees`. `ClaimInv` says what the working copy knows of
  the claim before and after it; a commit moves all that was owed, and a page that fails or
  is dropped leaves it with the position.
- `InvestorsWithinShare`, `TreasuryBacked`, `PagesNeverFail`: `WithinShare`, `Backed` and
  `NoPageFails`, if streams only vest (and, for the last, if the bitmap has a bit for
  everybody of a roster; runs `crank_growing` and `crank_bitmap` show that neither
  hypothesis can be dropped). No sum of floors has to be computed: with f the fee, T the
  total locked when the day started and S the part of it that belongs to the investors
  already passed, `Within(x, f, S, T)` says T * x <= f * S. `ShareInv` keeps that of x =
  what was distributed + what is carried, at each point of the handler: a payout adds at
  most f * l / T to x and the investor's amount when the day started, which was not
  smaller than l, to S; the dust a threshold or the cap holds back stays in x; the
  carry-over handed out is at most what was carried, by the same argument one level down.
  At the end S is at most T, so x is at most f. The fee in turn is at most the day's total, and
  the treasury holds the day's total less what is distributed. The first page divides
  a smaller total than later ones (section 7), which only leaves more.
- `LongDaysStrandNothing`: `NoDustStranded`, if streams only vest and no page is as long as a
  roster. `DustInv` says that treasury and progress account agree exactly: at a completed
  day on the carry-over, in an open one on total less distributed. The page that closes the
  day is not the one that started it, so it divides the whole of the day's total, and the
  saturating subtractions of `calculate_creator_remainder` are exact by `ShareInv`. This
  delimits the finding of run `crank_dust`: days of a single page are the only ones that
  strand dust.

### The pool (`CpAmmPoolProofs`, over `TransferFeesProofs`)

The inductive invariant is `PoolInv`, the conjunction of `TypeOK`, `LiquidityBacked`,
`VestedBacked`, `FeesBacked` and `Solvent`; each needs others of them: that no subtraction of a
vault goes below zero needs its solvency, that no lock or split takes more than there is
needs the two about liquidity, and so on. One lemma per instruction and part.

- `Types`, `Solvency`, `LiquidityAddsUp`, `VestingAddsUp`, `FeesAreBacked`: the parts.
  Solvency comes from the lemmas about the curve: for both directions, and for prices that the code
  computes by rounding up or down, what a swap pays out of the curve is at most what the
  reserves at the two prices differ by, and what it takes in is at least that; adding
  rounds up, removing rounds down; the transfer fees neither add nor take (below).
- `FeesAreCovered`: `FeesCovered` is not inductive, since what a position is owed is rounded
  down each time it settles. `FeesBacked` is the same before rounding: pending and paid
  fees, and liquidity times the growth of the accumulator since the checkpoint, of all
  positions together, are at most what was charged. A swap raises the accumulator by a
  quotient rounded down, whose product with the pool's liquidity (which is the sum of the
  positions', `LiquidityBacked`) is at most the fee; settling rounds down; a split moves.
- `QuotesKept`: in every state that satisfies `PoolInv` each quote is of the form that
  `InverseExact` and `OfferIsEnough` speak about.
- `FeesStayEarned`: the action property `FeesStay`, instruction by instruction: settling
  moves what is owed to pending and a claim moves pending to paid, a new or empty position
  is owed nothing, and the accumulator never falls.
- `TransferFeesProofs!InverseExact` and `!OfferIsEnough`: the two statements at the end of
  `TransferFees`, for every rate, limit and amount. Below the limit the rounded-up fee of
  the rounded-up amount is the difference of the two (`ExactBelowLimit`); at the limit the
  fee of what is sent reaches it (`ReachesLimit`); and what is computed backwards is the
  least amount that lets enough arrive (`LeastIsWithin`), so that a part of what arrives
  never costs more than the offer. The comment at `utils/token.rs:117` "We believe this
  should never happen" is thereby right.

### The honorary position (`HonoraryPositionProofs`)

- `RouterUsesThePool`: `HonorarySpec => Spec`. Each step of the composition is an
  instruction of the pool or leaves the pool alone. So the theorems of the pool hold of the composition,
  `FeesCovered` of run `honorary` among them.
- `HonoraryTypes`, `NoBaseToken`, `ClaimsNeverFail`: `HonoraryInv` adds to `PoolInv` that a
  pool in mode `OnlyB` has counted nothing in token A and every position (splits mix them)
  has neither pending fees nor a checkpoint in it (`BaseFree`; it follows from the fact that
  such a pool charges nothing in token A, and from `FeesCovered`), and that a pool with an
  honorary position is in that mode (`QuoteIsB`). That the pool's vault covers what a claim
  takes is `Solvent`.
- `SourceDelivers`: `HonorarySpec => DeliversFees`. What is due never falls but by a claim
  (`FeesStayEarned`), the claim records the difference of the two balances, which is what
  was due, and everything else (liquidity paid from the same account, payouts) happens
  before or after the two balances are taken.

### The rewards (`CpAmmRewardsProofs`)

`RewardsInv` consists of the types, `RewardOK` (no reward was last updated in the future, or
after its end), `PositionsOK` (liquidity is the sum of the positions'; nobody's checkpoint is
ahead), `Books` and, for each position, `Fair`.

- `RewardTypes`: the elapsed time of `update_rewards` is never negative (`RewardOK`), and
  what is claimed or withdrawn is in the vault (`Books`).
- `VaultCoversRewards`: `RewardsCovered` speaks of the state after an update that no step
  makes. `Books` speaks of the account as it is: what positions have earned before rounding
  and what the reward promises (the rate times the missed seconds and those to come) are
  together at most the vault. An update moves seconds from what is promised to the positions or to the
  missed ones; a funding carries the rest of the old promise into the new rate, rounded
  down, and pays for its own time with what arrives after the transfer fee; withdrawing takes what the missed
  seconds are worth.
- `OnlyItsTime`: `Fair` compares, before rounding, what a position was paid, has earned and
  will earn of the seconds not yet settled, with the history variable `share`, to which each
  second adds exactly the position's part. A second adds the same to both; settling rounds
  down; liquidity changes only after settling.
- `EarnedRewardsStay`: what a position could claim after one more update grows with the
  accumulator and with time, and every instruction that replaces rate, end or liquidity
  settles first.

### The fees (`CpAmmFeesProofs`)

The inductive invariant is `FeesInv`: `TypeOK`, that base and dynamic fee are those the pool
was created with, and `ReferenceKnown`. The last is what makes `DeltaBinId` well defined: a
new pool's reference price is 0, and the code divides by it. It never does, because the
reference is replaced whenever `filter_period` has passed, and as long as nothing was traded
`last_update_timestamp` is 0, that is, `elapsed` is `decay_period`.

- `FeeTypes`: volatility and reference stay within `max_volatility_accumulator`.
- `ScheduledFeesFall`: `SchedulesFall`, for linear and exponential schedules. What `pow` does
  is a recursive function over the bits of the exponent (`Bits`), and three facts hold of
  every bit, by induction: all products are parts of `ONE`, and the result is never below the
  square (`BitsTypes`); of two exponents that agree in the bits to come, the lower has the
  greater result (`BitsFall`: where they part, the greater one is multiplied by the
  square, and what is left of it is at most the square, which is at most the other's result);
  and result and square are powers of the base, cut off at most w - 1 times for the exponent
  w (`BitsClose`, from `ProductOfParts`: truncating the product of two such numbers adds their
  errors and one). The error is thus less than a unit
  for each multiplication of the naive power, although far fewer are done.
- `LimiterIsASum`: `LimiterSumsTokens`. `Charged` is the sum of the tokens' fees in closed
  form; it grows by one token's fee a token (`ChargedNext`: triangular numbers within the
  steps, a constant beyond the last), so `TokenFees` is `Charged`, and the code computes
  `Charged`, rounded twice (`RoundedTwice`).
- `LimiterIsInverted`: `LimiterInverts`. The argument has four parts.
  - `sqrt_u256` (`RootIs`): after each bit, what is left of the radicand and the square of the
    root so far add up to it, and what is left is less than a further bit would need
    (`RootSoFar`, kept by `OneDigit`). At the last bit that is the integer root.
  - What a limiter leaves of an amount, times the denominator, is `Net`. It grows with the amount
    and ever slower (`NetGrows`; the average fee grows, `AverageGrows`). Up to the last step
    it lies on or below a parabola, and on it at the ends of the steps (`NetParabola`). The root
    of the quadratic separates the amounts before the height of what is asked from
    those behind it (`RootSplits`); hence the whole part is the last amount that leaves no more,
    and the end of its step leaves enough (`WholeIs`).
  - The rest is at one step's fee (`AmountFromBounds`). The amount found leaves what is asked for, and
    less than two tokens and a unit more (`AmountsInAreNear`); up to the last few amounts
    out there is one (`AmountsInExist`).
  - The numerator of that amount is rounded up, and charged on the amount asked for
    (`NumeratorsFound`). What is then paid leaves enough, at its own fee, unless the greatest
    fee cuts in (`PaidLeavesEnough`), and never more than four units too much
    (`PaidLeavesNoMore`).
- `TradesHaveAFee`: `EveryTradeHasAFee`. For a schedule, `validate` looks at the last period
  only; `NumeratorsFall` says that the fees of the periods before it are defined (no
  subtraction fails, no power comes out as 0) and not lower. The limiter charges at least the
  cliff fee of every token (`LimiterAtLeastCliff`), and `NumeratorsExist` is `AmountsInExist`
  with the last check of the code, which refuses a numerator below the cliff fee.
- `OneFee`: `OneFeeForAllModes`. Every quote either pays the whole offer, and the fee within
  it, or what the curve asks for and the fee on top (`QuotesOnInput`). Of the latter kind,
  what was paid is compared with an exact input by `InvertsNearly` without a variable fee, and
  by `OnTopIsNoMore` with one: there the limiter's numerator was found for a lesser amount, and
  its error is a share of that. A fill that is cut short needs less than its offer leaves
  (`e < amount - fee` in `QuotesOnInput`); if the offer's numerator is at least the part's it
  pays for it (`OfferPays`), and else what is paid exceeds it by the tolerance at most
  (`PartIsNoMore`).

The inductions over bits, periods and amounts are over a set and not over an operator:
`NaturalInduction` in `CpAmmMathProofs` says that a set that contains 0 and the successors of
its elements contains all natural numbers, and is proved from the well-foundedness of `<`.

### Access (`PoolAccessProofs`)

`TypeCorrect` and `VaultGoesFirst`: `Spec => []TypeOK` and `Spec => []VaultTradesFirst`.
`AccessInv` adds to the types that the activation of a pool with an alpha vault lies at
least the buffer and twice five minutes after its creation, for each of the three ways to
create it, and whatever happened to its config since.

### Only model-checked

- Liveness: `EveryDayCloses`, `VestingEnds`, `EveryPoolOpens`, `VolatilityFades`.
- The disagreements of section 7, which are counterexamples.

## 7. Where code and documents disagree

| Finding | Code | Says |
|---|---|---|
| A day may distribute more than the daily cap | `programs/fee_router/src/instructions/crank_distribution.rs:490`: the dust loop adds to the day's total without `check_daily_cap`, so what the cap held back on one page is handed out by the next | `README.md:343` "respects daily caps" |
| Dust carried to a day done in one page is never distributed | `:276`: the handler goes on with what was just claimed, not with the day's total that `start_new_day` raised by the carry-over; `complete_day` then forgets it. The later pages of a longer day do use the day's total | `state/progress.rs:81` "This ensures dust gets redistributed instead of being lost" |
| Liquidity of the position is paid for with claimed fees | `programs/fee_router/src/instructions/add_honorary_liquidity.rs:128`: the funder pays the threshold of token A into the quote treasury, but the quote is token B of every pool preflight accepts; the cost of token B beyond it comes out of what the treasury holds for investors and creator | `add_honorary_liquidity.rs:21` "Funder who provides the tokens" |
| A roster longer than the bitmap blocks the vault | `state/progress.rs:123` refuses indices from 2048 on; `setup_policy` accepts any `total_investors` | `README.md:2093` "Handles arbitrary investor counts with resumable pages" |

Things a reader of the code may want to know, for which no run is kept:

- Crank: `remaining_carry_over` subtracts what was to be handed out, not what was
  (`crank_distribution.rs:498`), so the rounding of the carry-over goes to the creator,
  although `:497` says it "stays in carry_over for next page".
- Honorary position: `initialize_position.rs` never compares `base_mint` with the pool, and a
  vault created with a mint the pool does not have can never claim. What the funder's
  threshold leaves over stays in the base treasury, which `README.md:1768` says "Should
  remain empty (quote-only)"; no instruction takes it out, nor any liquidity of the
  position. The call at `README.md:172` passes a base amount of 0, with which nothing can be
  added unless the treasury already holds base tokens.
- Swaps: one is charged with the volatility of the trades before it, undecayed, since
  `update_references` changes the reference and not the accumulator. A partial fill has no
  check that it asks for no more than was offered. Transfer fees need none (section 6), nor
  does the scheduled fee (`QuotesAreKept`); under the rate limiter a fill that the range cuts
  short may ask for more than was offered, because the fee of the part is found by the inverse
  of a sum and rounded several times. Theorem `OneFee` bounds it, while the volatility is
  zero, by four units of the numerator times `Grows(MAX_FEE_NUMERATOR)`. A unit is of the
  order of `amount / FEE_DENOMINATOR`, so that it is a few tokens for small amounts only.
- Rate limiter with the dynamic fee: for an exact output, or a fill that the range cuts short,
  the step of the limiter is found from the amount with the base fee alone
  (`get_total_trading_fee_from_excluded_fee_amount` adds the variable fee afterwards). While
  prices swing such a trade is therefore charged less than an exact input of the same
  amount.
- Rate limiter: the one with all parameters zero, which `is_zero_rate_limiter` accepts, is
  refused by the check before it (the cliff fee would have to be at most 0).
- Positions: one whose last liquidity is worth no whole token of either kind cannot be
  emptied (`AmountIsZero`), nor, therefore, closed.
- Rewards: a claim of a frozen reward with `skip_reward` forfeits it;
  `withdraw_ineligible_reward` is possible only after the end of the reward, and pays
  whoever is the funder then, not who paid for the seconds that were missed; the rounding
  of rates and claims stays in the vault for good. A pool's creator who is also an admin
  cannot edit the second reward (`state/pool.rs:1244`).

## 8. Not modelled

- In the pool: the full fee of a swap (it uses the linear schedule; `CpAmmFees` has the
  rest, with the quotes of single trades), rewards (`CpAmmRewards` has them, with the liquidity operations that
  settle them), metrics.
- Transfer fees: that a mint's fee changes from one epoch to the next, between two
  instructions; fees on the mints of the honorary position's pool (the crank and the
  treasury are modelled without).
- The second reward of a pool, which shares no state with the first.
- Claim-fee operators: a list of keys, compared with the signer of the protocol's claim.
- Prices, liquidity and fees among the parameters of a pool's creation: `CpAmmPool` and
  `CpAmmFees` start from those that `validate` accepts, `PoolAccess` has the rest.
- In the crank: malformed account lists (a caller who brings other accounts than the page
  asks for), compute budget (a drop), the contents of Streamflow accounts beyond the
  locked amount.
- Overflow of `u64` and `u128`: every operation of the code is checked or proved in range
  by `TypeOK` only at the bottom end; a checked overflow fails the instruction and
  changes nothing.
- SDK, clients, tests, runbooks: no state of the running system.
