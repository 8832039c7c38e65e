-------------------------- MODULE HonoraryPosition --------------------------
(***************************************************************************)
(* The honorary position of one vault, in the pool it lives in: the steps  *)
(* of fee_router that touch both programs (initialize_honorary_position,   *)
(* add_honorary_liquidity, the claim of the crank) together with all that  *)
(* others may do with the pool meanwhile (CpAmmPool).                      *)
(*                                                                         *)
(* A call into cp-amm runs inside the caller's transaction, so an action   *)
(* here is the conjunction of the router's part and of the action of       *)
(* CpAmmPool it invokes: either both happen or neither.                    *)
(*                                                                         *)
(* The position and the two treasury accounts belong to the program's PDA: *)
(* no other step than those here can move them.  Of the crank only what    *)
(* concerns the treasury is here: it claims, and it pays what it has       *)
(* claimed and not yet paid, in parts (FeeRouterCrank says which).  The    *)
(* mints have no transfer fee.                                             *)
(***************************************************************************)
EXTENDS CpAmmPool

CONSTANTS
    Honorary,       \* the position owned by the program
    Mints,          \* the mints callers may bring; the pool's are Tokens
    Thresholds,     \* [a, b]: token_a_amount_threshold, token_b_...
    NoOwner         \* stands for the position owner account before creation

\* InvestorFeePositionOwner
OwnerAccount == [quote_mint : Mints, base_mint : Mints, total_fees_claimed : Nat]

ASSUME HonoraryAssumption ==
    /\ Honorary \in Positions \ {Creator}
    /\ Tokens \subseteq Mints
    /\ Thresholds \subseteq [Tokens -> Nat]
    /\ \A t \in Tokens : TransferFee[t].basis_points = 0
    /\ NoOwner \notin OwnerAccount

VARIABLES
    owner,      \* the InvestorFeePositionOwner account, or NoOwner
    treasury,   \* balances of the program's token accounts, by mint
    paid        \* history: what the crank has paid out of the treasury

routerVars == <<owner, treasury, paid>>
allVars == <<vars, routerVars>>

HonoraryInit ==
    /\ Init
    /\ owner = NoOwner
    /\ treasury = [m \in Mints |-> 0]
    /\ paid = 0

-----------------------------------------------------------------------------
(* Creation                                                                *)

QuoteOnlyPool_AnyMode(quote_mint) ==
    /\ quote_mint = "b"
    /\ pool.pool_status = "Enable"

\* preflight_position_validation
QuoteOnlyPool(quote_mint) ==
    /\ pool.collect_fee_mode = "OnlyB"
    /\ quote_mint = "b"                     \* pool.token_b_mint
    /\ pool.pool_status = "Enable"

\* initialize_honorary_position: the owner's account and the treasuries of
\* both mints are `init', so it succeeds once for a vault, and the treasuries
\* must be two accounts.  Nothing compares base_mint with the pool.
InitializeHonoraryPosition(quote_mint, base_mint) ==
    /\ owner = NoOwner
    /\ quote_mint # base_mint
    /\ QuoteOnlyPool(quote_mint)
    /\ CreatePosition(Honorary)
    /\ owner' = [quote_mint |-> quote_mint,
                 base_mint  |-> base_mint,   \* that of the second treasury
                 total_fees_claimed |-> 0]
    /\ UNCHANGED <<treasury, paid>>

-----------------------------------------------------------------------------
(* Calls into cp-amm                                                       *)

\* The treasury passed as the account for the pool's token t
AccountFor_QuoteFirst(t, base_mint) ==
    IF t = "a" THEN owner.quote_mint ELSE base_mint

AccountFor(t, base_mint) ==
    LET quote_is_token_a == owner.quote_mint = "a"
    IN IF quote_is_token_a = (t = "a") THEN owner.quote_mint ELSE base_mint

\* The accounts the caller brings exist, and cp-amm accepts them for the
\* pool's mints.
AccountsFit(base_mint) ==
    /\ owner # NoOwner
    /\ base_mint \in {owner.quote_mint, owner.base_mint}
    /\ \A t \in Tokens : AccountFor(t, base_mint) = t

\* add_honorary_liquidity.  The funder pays the threshold of token A in
\* QUOTE and that of token B in BASE, whichever of them is the quote.
FundTreasury(base_mint, threshold) ==
    [[treasury EXCEPT ![owner.quote_mint] = @ + threshold["a"]]
        EXCEPT ![base_mint] = @ + threshold["b"]]

AddHonoraryLiquidity(base_mint, delta, threshold) ==
    /\ AccountsFit(base_mint)
    /\ delta > 0
    /\ LET funded == FundTreasury(base_mint, threshold)
           cost == Amounts(delta, "Up")
       IN /\ \A t \in Tokens : cost[t] <= threshold[t] /\ cost[t] <= funded[t]
          /\ treasury' = [m \in Mints |-> IF m \in Tokens THEN funded[m] - cost[m]
                                                          ELSE funded[m]]
    /\ AddLiquidity(Honorary, delta)
    /\ UNCHANGED <<owner, paid>>

\* What the claim would bring: all that the position is owed
Due(t) == UpdateFee(position[Honorary], pool.fee_per_liquidity).pending[t]

QuoteClaimed_Balance(before, after) == after
QuoteClaimed_Reversed(before, after) == before - after
QuoteClaimed(before, after) == after - before

\* claim_position_fees_quote_only, on the first page of a day: what arrived
\* is the difference of the treasury's balance; base tokens are refused.
ClaimFees(base_mint) ==
    /\ AccountsFit(base_mint)
    /\ ClaimPositionFee(Honorary)
    /\ treasury' = [m \in Mints |-> IF m \in Tokens THEN treasury[m] + Due(m)
                                                    ELSE treasury[m]]
    /\ treasury'[base_mint] = treasury[base_mint]       \* BaseFeesDetected
    /\ owner' = [owner EXCEPT !.total_fees_claimed =
                    @ + QuoteClaimed(treasury[owner.quote_mint],
                                     treasury'[owner.quote_mint])]
    /\ UNCHANGED paid

\* What the crank has claimed and still owes to investors and creator
Undistributed == owner.total_fees_claimed - paid

\* The transfers of crank_distribution, to investors and creator
PayOut(amount) ==
    /\ owner # NoOwner
    /\ amount > 0 /\ amount <= Undistributed
    /\ amount <= treasury[owner.quote_mint]
    /\ treasury' = [treasury EXCEPT ![owner.quote_mint] = @ - amount]
    /\ paid' = paid + amount
    /\ UNCHANGED <<vars, owner>>

-----------------------------------------------------------------------------
RouterStep ==
    \/ \E quote_mint, base_mint \in Mints :
         InitializeHonoraryPosition(quote_mint, base_mint)
    \/ \E base_mint \in Mints :
         \/ ClaimFees(base_mint)
         \/ \E delta \in Liquidities, threshold \in Thresholds :
              AddHonoraryLiquidity(base_mint, delta, threshold)
    \/ \E amount \in 1 .. (IF owner = NoOwner THEN 0 ELSE Undistributed) :
         PayOut(amount)

\* The pool, its traders and the owners of other positions.  Splits need the
\* signatures of both owners, which the program never gives.
OthersStep ==
    /\ \/ \E p \in Positions \ {Honorary} : OwnerStep(p)
       \/ \E first, second \in Positions \ {Honorary}, n \in SplitNumerators :
            SplitPosition(first, second, n)
       \/ PoolStep
    /\ UNCHANGED routerVars

HonoraryNext == RouterStep \/ OthersStep

HonorarySpec == HonoraryInit /\ [][HonoraryNext]_allVars

-----------------------------------------------------------------------------
(* What must hold.                                                         *)

\* The type invariant of both programs together; nothing is ever taken from
\* a treasury that does not hold it.
HonoraryTypeOK ==
    /\ TypeOK
    /\ \/ owner = NoOwner /\ Honorary \notin open
       \/ owner \in OwnerAccount
    /\ treasury \in [Mints -> Nat]
    /\ paid \in Nat

\* Once the preflight check has passed, no trade in either direction and of
\* any mode, and no step of an owner or of the router, ever makes the
\* position earn a base token, which a claim would refuse for ever.
QuoteFeesOnly == owner # NoOwner => Due("a") = 0

\* A vault created with the pool's own mints can always claim: the accounts
\* it brings are those the pool wants, nothing comes in the base token, and
\* the pool's vault holds what is owed, disabled or not.
ClaimNeverFails ==
    owner # NoOwner =>
        /\ owner.base_mint = "a" => AccountsFit("a")
        /\ Due("a") = 0 /\ Due("b") <= vault["b"]

\* The pool and the position deliver what the distribution expects of them,
\* claims being recorded by the difference of two balances of an account
\* that also receives and pays for liquidity.
Source == INSTANCE FeeSource WITH
    owed     <- Due("b"),
    received <- IF owner = NoOwner THEN 0 ELSE owner.total_fees_claimed

DeliversFees == Source!Spec

-----------------------------------------------------------------------------
(* What a comment says, and the code does not do in every case.            *)

\* add_honorary_liquidity.rs:21 "Funder who provides the tokens": the
\* liquidity of the position is not paid for with the fees that the treasury
\* holds for investors and creator.
FunderProvidesTokens ==
    owner # NoOwner => treasury[owner.quote_mint] >= Undistributed
=============================================================================
