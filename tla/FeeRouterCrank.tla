--------------------------- MODULE FeeRouterCrank ---------------------------
(***************************************************************************)
(* The daily fee distribution of the fee_router program: setup_policy and  *)
(* crank_distribution, with the accounts they read and write.              *)
(*                                                                         *)
(* An instruction runs as one Solana transaction: it works on the accounts *)
(* it has locked and either commits all its writes or none.  `db' holds    *)
(* the committed accounts, `mem' the working copy of the transaction in    *)
(* progress and `tx' its local variables; outside a transaction mem = db.  *)
(* Each loop of the handler is an action that treats one investor, so that *)
(* the sums the handler computes are sums of steps.  Between Begin and     *)
(* Commit nothing else can move: the chain serialises transactions that    *)
(* write the same accounts, and the Clock is read once.                    *)
(*                                                                         *)
(* Crankers follow the documented protocol (README "Pagination"): the      *)
(* first page of a day brings every investor's accounts, a later one those *)
(* of page_start .. page_start + page_size - 1.  Anybody may crank, with   *)
(* any page size, and may crank again whatever was answered.               *)
(***************************************************************************)
EXTENDS Integers

CONSTANTS
    MaxInvestors,           \* bound on policy.total_investors
    PageStarts,             \* the page_start values callers try
    PageSizes,              \* the page_size values callers try
    MAX_PAGE_SIZE,          \* 50 in constants.rs
    BITMAP_BITS,            \* 8 * 256 = 2048: the bits of paid_investor_bitmap
    SECONDS_PER_DAY,        \* 86400
    BASIS_POINTS_DIVISOR,   \* 10000
    MIN_PAYOUT_THRESHOLD,   \* 1000
    Policies,               \* the parameters setup_policy may be called with
    InitialLocked,          \* what the investors' streams may hold at first
    FeeSteps,               \* the amounts by which the position's fees grow
    MaxFees,                \* bound on the fees ever earned
    MaxTime,                \* bound on the clock
    MaxDrops,               \* bound on the transactions cut short
    StreamsMayGrow,         \* TRUE if a stream's locked amount may also grow
    NoPolicy                \* stands for the policy account before setup

Investors == 0 .. MaxInvestors - 1

ASSUME CrankAssumption ==
    /\ MaxInvestors \in Nat
    /\ MAX_PAGE_SIZE \in Nat
    /\ BITMAP_BITS \in Nat
    /\ SECONDS_PER_DAY \in Nat
    /\ BASIS_POINTS_DIVISOR \in Nat \ {0}
    /\ MIN_PAYOUT_THRESHOLD \in Nat \ {0}
    /\ PageStarts \subseteq Nat
    /\ PageSizes \subseteq Nat
    /\ FeeSteps \subseteq Nat
    /\ MaxFees \in Nat /\ MaxTime \in Nat /\ MaxDrops \in Nat
    /\ StreamsMayGrow \in BOOLEAN
    /\ InitialLocked \subseteq [Investors -> Nat]
    /\ NoPolicy \notin Policies

\* A daily cap is an Option<u64>: {} for None, {c} for Some(c).
ASSUME PolicyAssumption ==
    \A p \in Policies :
        /\ p.investor_fee_share_bps \in Nat
        /\ p.y0_total_allocation \in Nat
        /\ p.daily_cap \subseteq Nat /\ \A a, b \in p.daily_cap : a = b
        /\ p.min_payout_lamports \in Nat
        /\ p.total_investors \in 0 .. MaxInvestors

VARIABLES
    policy,   \* the Policy account, or NoPolicy
    db,       \* committed accounts
    mem,      \* the accounts as the transaction in progress sees them
    tx,       \* the transaction in progress
    locked,   \* still-locked tokens of each investor's stream (Streamflow)
    clock,
    drops     \* transactions cut short so far

vars == <<policy, db, mem, tx, locked, clock, drops>>

-----------------------------------------------------------------------------
(* Arithmetic of utils/math.rs.  Here and below, X_Mistake next to X is X   *)
(* with a mistake one could make in the code; no definition uses it, it    *)
(* is there to see which properties notice the mistake.                    *)

Monus_Plain(a, b) == a - b
Monus(a, b) == IF a > b THEN a - b ELSE 0      \* saturating_sub

Least(a, b) == IF a < b THEN a ELSE b

\* Policy::calculate_eligible_investor_share
EligibleShare(p, locked_total) ==
    Least(p.investor_fee_share_bps,
          Least(BASIS_POINTS_DIVISOR,
                (locked_total * BASIS_POINTS_DIVISOR) \div p.y0_total_allocation))

\* calculate_investor_fee_amount
InvestorFee(claimed, bps) == (claimed * bps) \div BASIS_POINTS_DIVISOR

\* calculate_individual_payout, and the two pro-rata shares of the carry-over
ProRata(amount, part, total) ==
    IF total = 0 THEN 0 ELSE (amount * part) \div total

\* apply_dust_threshold: what is paid; the rest is dust
AboveThreshold(amount, min_payout) == IF amount >= min_payout THEN amount ELSE 0

\* check_daily_cap
CheckDailyCap(already, proposed, cap) ==
    IF \E c \in cap : already + proposed > c
    THEN LET c == CHOOSE x \in cap : TRUE IN Monus(c, already)
    ELSE proposed

\* calculate_creator_remainder
CreatorRemainder_TakesDust(claimed, distributed, carry) ==
    Monus(claimed, distributed)

CreatorRemainder(claimed, distributed, carry) ==
    Monus(Monus(claimed, distributed), carry)

-----------------------------------------------------------------------------
(* The accounts: DistributionProgress under its own field names, then the  *)
(* token accounts, the position owner's total and the fees the position    *)
(* has earned and not yet claimed.  The last two fields are history.       *)

Zeros == [i \in Investors |-> 0]
NoSums == [k \in 0 .. MaxInvestors |-> 0]

FreshAccounts ==
    [last_distribution_ts        |-> 0,
     current_day_distributed     |-> 0,
     current_day_carry_over      |-> 0,
     pagination_cursor           |-> 0,
     day_completed               |-> TRUE,
     current_day_total_claimed   |-> 0,
     total_distributions         |-> 0,
     total_investor_distributed  |-> 0,
     total_creator_distributed   |-> 0,
     current_day_total_locked_all |-> 0,
     persistent_carry_over       |-> 0,
     paid_investor_bitmap        |-> {},
     total_fees_claimed          |-> 0,
     treasury                    |-> 0,
     investor_atas               |-> 0,   \* all investors' token accounts
     creator_ata                 |-> 0,
     unclaimed                   |-> 0,   \* fee_b_pending of the position
     scanned                     |-> NoSums, \* [k]: locked of investors below k
                                             \* when the day started
     visits                      |-> Zeros]  \* times treated in this day

\* DistributionProgress::can_distribute
CanDistribute_OffByOne(a, now) ==
    a.day_completed => now + 1 >= a.last_distribution_ts + SECONDS_PER_DAY

CanDistribute(a, now) ==
    a.day_completed => now >= a.last_distribution_ts + SECONDS_PER_DAY

\* DistributionProgress::start_new_day
StartNewDay(a, now, claimed, total_locked) ==
    [a EXCEPT !.last_distribution_ts = now,
              !.current_day_distributed = 0,
              !.current_day_carry_over = 0,
              !.pagination_cursor = 0,
              !.day_completed = FALSE,
              !.current_day_total_claimed = claimed + a.persistent_carry_over,
              !.current_day_total_locked_all = total_locked,
              !.persistent_carry_over = 0,
              !.paid_investor_bitmap = {},
              !.visits = Zeros]

\* DistributionProgress::complete_day
CompleteDay_NoTotal(a, creator_amount) ==
    [a EXCEPT !.day_completed = TRUE,
              !.total_distributions = @ + 1,
              !.pagination_cursor = 0,
              !.persistent_carry_over = a.current_day_carry_over,
              !.paid_investor_bitmap = {}]

CompleteDay_LosesDust(a, creator_amount) ==
    [a EXCEPT !.day_completed = TRUE,
              !.total_distributions = @ + 1,
              !.total_creator_distributed = @ + creator_amount,
              !.pagination_cursor = 0,
              !.paid_investor_bitmap = {}]

CompleteDay(a, creator_amount) ==
    [a EXCEPT !.day_completed = TRUE,
              !.total_distributions = @ + 1,
              !.total_creator_distributed = @ + creator_amount,
              !.pagination_cursor = 0,
              !.persistent_carry_over = a.current_day_carry_over,
              !.paid_investor_bitmap = {}]

-----------------------------------------------------------------------------
(* The local variables of the handler.                                     *)

Idle ==
    [pc |-> "idle", page_start |-> 0, page_size |-> 0, starting |-> FALSE,
     to_process |-> 0, idx |-> 0, claimed_quote |-> 0, fee |-> 0,
     sums |-> NoSums,           \* individual_locked, as its running sums
     carry |-> 0, carry_distributed |-> 0,
     page_distributed |-> 0, page_dust |-> 0]

Init ==
    /\ policy = NoPolicy
    /\ db = FreshAccounts
    /\ mem = FreshAccounts
    /\ tx = Idle
    /\ locked \in InitialLocked
    /\ clock = SECONDS_PER_DAY     \* unix time is far past its first day
    /\ drops = 0

\* setup_policy: both accounts are `init', so it succeeds once
SetupPolicy(p) ==
    /\ tx.pc = "idle"
    /\ policy = NoPolicy
    /\ p.investor_fee_share_bps <= BASIS_POINTS_DIVISOR
    /\ p.y0_total_allocation > 0
    /\ p.min_payout_lamports >= MIN_PAYOUT_THRESHOLD
    /\ p.total_investors > 0
    /\ policy' = p
    /\ UNCHANGED <<db, mem, tx, locked, clock, drops>>

IsFirstPage_AnyTime(a, page_start) == page_start = 0

IsFirstPage(a, page_start) ==
    page_start = 0 /\ (a.day_completed \/ a.pagination_cursor = 0)

IsRetryPreviousPage_AnyEarlier(a, page_start, page_size) ==
    ~a.day_completed /\ page_start <= a.pagination_cursor

IsRetryPreviousPage(a, page_start, page_size) ==
    /\ ~a.day_completed
    /\ page_start = Monus(a.pagination_cursor, page_size)
    /\ page_start < a.pagination_cursor

\* The checks before the early return of an idempotent retry.
CallAccepted(page_size) ==
    /\ tx.pc = "idle"
    /\ policy # NoPolicy
    /\ page_size > 0 /\ page_size <= MAX_PAGE_SIZE
    /\ CanDistribute(db, clock)

\* crank_distribution answering Ok to a page already processed
RetryPreviousPage(page_start, page_size) ==
    /\ CallAccepted(page_size)
    /\ IsRetryPreviousPage(db, page_start, page_size)
    /\ UNCHANGED vars

\* crank_distribution from its entry to its first loop
Begin(page_start, page_size) ==
    /\ CallAccepted(page_size)
    /\ ~IsRetryPreviousPage(db, page_start, page_size)
    /\ IsFirstPage(db, page_start) \/ page_start = db.pagination_cursor
    /\ LET starting == IsFirstPage(db, page_start) /\ db.day_completed
           \* the (stream, ata) pairs in remaining_accounts
           accounts == IF starting
                       THEN policy.total_investors
                       ELSE Least(page_size, Monus(policy.total_investors, page_start))
       IN tx' = [Idle EXCEPT
                   !.pc = IF starting THEN "scan" ELSE "read",
                   !.page_start = page_start,
                   !.page_size = page_size,
                   !.starting = starting,
                   !.to_process = Least(page_size, accounts),
                   !.claimed_quote = IF starting THEN 0
                                     ELSE db.current_day_total_claimed]
    /\ UNCHANGED <<policy, db, mem, locked, clock, drops>>

\* One turn of the loop that sums the locked amounts of ALL investors
ScanStream ==
    /\ tx.pc = "scan"
    /\ tx.idx < policy.total_investors
    /\ mem' = [mem EXCEPT !.scanned[tx.idx + 1] =
                              mem.scanned[tx.idx] + locked[tx.idx]]
    /\ tx' = [tx EXCEPT !.idx = @ + 1]
    /\ UNCHANGED <<policy, db, locked, clock, drops>>

TotalLocked == mem.scanned[policy.total_investors]

\* claim_position_fees_quote_only by CPI, start_new_day, total_fees_claimed
ClaimAndStartDay ==
    /\ tx.pc = "scan"
    /\ tx.idx = policy.total_investors
    /\ LET claimed == mem.unclaimed
       IN /\ mem' = [StartNewDay(mem, clock, claimed, TotalLocked)
                        EXCEPT !.treasury = @ + claimed,
                               !.unclaimed = 0,
                               !.total_fees_claimed = @ + claimed]
          /\ tx' = [tx EXCEPT !.pc = "read", !.idx = 0, !.claimed_quote = claimed]
    /\ UNCHANGED <<policy, db, locked, clock, drops>>

\* One turn of the loop that reads the page's locked amounts
ReadStream ==
    /\ tx.pc = "read"
    /\ tx.idx < tx.to_process
    /\ tx' = [tx EXCEPT !.sums[tx.idx + 1] =
                            tx.sums[tx.idx] + locked[tx.page_start + tx.idx],
                        !.idx = @ + 1]
    /\ UNCHANGED <<policy, db, mem, locked, clock, drops>>

PageLocked == tx.sums[tx.to_process]
IndividualLocked(k) == tx.sums[k + 1] - tx.sums[k]

\* The investors' fee, and the part of the carry-over this page hands out
ComputeShares ==
    /\ tx.pc = "read"
    /\ tx.idx = tx.to_process
    /\ LET total == mem.current_day_total_locked_all
           carry == mem.current_day_carry_over
       IN /\ tx' = [tx EXCEPT
                      !.pc = "pay",
                      !.idx = 0,
                      !.fee = InvestorFee(tx.claimed_quote,
                                          EligibleShare(policy, total)),
                      !.carry = carry,
                      !.carry_distributed =
                          IF carry >= policy.min_payout_lamports
                          THEN ProRata(carry, PageLocked, total)
                          ELSE 0]
          /\ mem' = [mem EXCEPT !.current_day_carry_over = 0]
    /\ UNCHANGED <<policy, db, locked, clock, drops>>

\* transfer_checked from the treasury to an investor, with the bookkeeping
PaidOut(a, amount) ==
    [a EXCEPT !.treasury = @ - amount,
              !.investor_atas = @ + amount,
              !.current_day_distributed = @ + amount]

Payout == ProRata(tx.fee, IndividualLocked(tx.idx), mem.current_day_total_locked_all)

AllowedPayout ==
    LET final == AboveThreshold(Payout, policy.min_payout_lamports)
    IN CheckDailyCap(mem.current_day_distributed, final, policy.daily_cap)

\* InvestorAlreadyPaid, a transfer the treasury cannot cover, or the
\* InvalidPagination of mark_investor_paid: each reverts the transaction
PayFails ==
    LET investor == tx.page_start + tx.idx
    IN \/ investor \in mem.paid_investor_bitmap
       \/ AllowedPayout > mem.treasury
       \/ AllowedPayout > 0 /\ investor >= BITMAP_BITS

\* One turn of the loop over the page's investors
PayInvestor ==
    /\ tx.pc = "pay"
    /\ tx.idx < tx.to_process
    /\ ~PayFails
    /\ LET investor == tx.page_start + tx.idx
       IN /\ mem' = [PaidOut(mem, AllowedPayout) EXCEPT
                       !.paid_investor_bitmap =
                           IF AllowedPayout > 0 THEN @ \cup {investor} ELSE @,
                       !.visits[investor] = @ + 1]
          /\ tx' = [tx EXCEPT !.idx = @ + 1,
                              !.page_distributed = @ + AllowedPayout,
                              !.page_dust = @ + Monus(Payout, AllowedPayout)]
    /\ UNCHANGED <<policy, db, locked, clock, drops>>

PayLoopDone ==
    /\ tx.pc = "pay"
    /\ tx.idx = tx.to_process
    /\ tx' = IF tx.carry_distributed > 0 /\ PageLocked > 0
             THEN [tx EXCEPT !.pc = "carry", !.idx = 0]
             ELSE [tx EXCEPT !.pc = "carry"]
    /\ UNCHANGED <<policy, db, mem, locked, clock, drops>>

CarryShare == ProRata(tx.carry_distributed, IndividualLocked(tx.idx), PageLocked)

CarryFails == CarryShare > mem.treasury

\* One turn of the loop that hands out the carry-over
DistributeCarry ==
    /\ tx.pc = "carry"
    /\ tx.idx < tx.to_process
    /\ ~CarryFails
    /\ mem' = PaidOut(mem, CarryShare)
    /\ tx' = [tx EXCEPT !.idx = @ + 1, !.page_distributed = @ + CarryShare]
    /\ UNCHANGED <<policy, db, locked, clock, drops>>

IsFinalPage_OffByOne ==
    \/ tx.to_process < tx.page_size
    \/ tx.page_start + tx.to_process + 1 >= policy.total_investors

IsFinalPage ==
    \/ tx.to_process < tx.page_size
    \/ tx.page_start + tx.to_process >= policy.total_investors

CarryLeft_Whole == tx.carry
CarryLeft == Monus(tx.carry, tx.carry_distributed)

\* The page's totals
SettlePage ==
    /\ tx.pc = "carry"
    /\ tx.idx = tx.to_process
    /\ mem' = [mem EXCEPT
                 !.current_day_carry_over =
                     tx.page_dust + CarryLeft,
                 !.pagination_cursor = tx.page_start + tx.page_size,
                 !.total_investor_distributed = @ + tx.page_distributed]
    /\ tx' = [tx EXCEPT !.pc = IF IsFinalPage THEN "close" ELSE "commit"]
    /\ UNCHANGED <<policy, db, locked, clock, drops>>

Remainder ==
    CreatorRemainder(tx.claimed_quote, mem.current_day_distributed,
                     mem.current_day_carry_over)

CloseFails == Remainder > mem.treasury

\* The final page pays the creator and completes the day
CloseDay ==
    /\ tx.pc = "close"
    /\ ~CloseFails
    /\ mem' = [CompleteDay(mem, Remainder) EXCEPT
                 !.treasury = @ - Remainder,
                 !.creator_ata = @ + Remainder]
    /\ tx' = [tx EXCEPT !.pc = "commit"]
    /\ UNCHANGED <<policy, db, locked, clock, drops>>

\* Ok(()): the runtime writes the accounts back
Commit ==
    /\ tx.pc = "commit"
    /\ db' = mem
    /\ tx' = Idle
    /\ UNCHANGED <<policy, mem, locked, clock, drops>>

Revert_KeepsClaim ==
    /\ mem' = [db EXCEPT !.unclaimed = mem.unclaimed]
    /\ tx' = Idle

Revert ==
    /\ mem' = db
    /\ tx' = Idle

\* The transaction in progress has run into an error
PageFails ==
    \/ tx.pc = "pay" /\ tx.idx < tx.to_process /\ PayFails
    \/ tx.pc = "carry" /\ tx.idx < tx.to_process /\ CarryFails
    \/ tx.pc = "close" /\ CloseFails

Fail ==
    /\ PageFails
    /\ Revert
    /\ UNCHANGED <<policy, db, locked, clock, drops>>

\* The runtime cuts a transaction short: compute budget, expired blockhash,
\* a stream or a token account it cannot read
Drop ==
    /\ tx.pc # "idle"
    /\ drops < MaxDrops
    /\ Revert
    /\ drops' = drops + 1
    /\ UNCHANGED <<policy, db, locked, clock>>

-----------------------------------------------------------------------------
(* The environment, between transactions: swaps earn fees for the honorary *)
(* position (quote token only), streams vest, time passes.                 *)

Accrue(amount) ==
    /\ tx.pc = "idle"
    /\ db.total_fees_claimed + db.unclaimed + amount <= MaxFees
    /\ db' = [db EXCEPT !.unclaimed = @ + amount]
    /\ mem' = db'
    /\ UNCHANGED <<policy, tx, locked, clock, drops>>

Vest(i) ==
    /\ tx.pc = "idle"
    /\ \E amount \in 0 .. locked[i] - 1 : locked' = [locked EXCEPT ![i] = amount]
    /\ UNCHANGED <<policy, db, mem, tx, clock, drops>>

\* net_amount_deposited grows with a top-up
TopUp(i) ==
    /\ tx.pc = "idle"
    /\ StreamsMayGrow
    /\ \E l \in InitialLocked :
         /\ l[i] > locked[i]
         /\ locked' = [locked EXCEPT ![i] = l[i]]
    /\ UNCHANGED <<policy, db, mem, tx, clock, drops>>

Tick ==
    /\ tx.pc = "idle"
    /\ clock < MaxTime
    /\ clock' = clock + 1
    /\ UNCHANGED <<policy, db, mem, tx, locked, drops>>

TxStep ==
    \/ ScanStream \/ ClaimAndStartDay \/ ReadStream \/ ComputeShares
    \/ PayInvestor \/ PayLoopDone \/ DistributeCarry \/ SettlePage
    \/ CloseDay \/ Commit \/ Fail

Next ==
    \/ \E p \in Policies : SetupPolicy(p)
    \/ \E page_start \in PageStarts, page_size \in PageSizes :
         \/ Begin(page_start, page_size)
         \/ RetryPreviousPage(page_start, page_size)
    \/ TxStep
    \/ Drop
    \/ \E amount \in FeeSteps : Accrue(amount)
    \/ \E i \in Investors : Vest(i) \/ TopUp(i)
    \/ Tick

Spec == Init /\ [][Next]_vars

\* Somebody continues a day that was started, and the runtime runs what it
\* has begun.  Nobody is obliged to start a day.
ContinueDay ==
    /\ ~db.day_completed
    /\ \E page_size \in PageSizes : Begin(db.pagination_cursor, page_size)

FairSpec == Spec /\ WF_vars(TxStep) /\ WF_vars(ContinueDay)

-----------------------------------------------------------------------------
(* What must hold.                                                         *)

\* Accounts, as far as their types go.
Accounts ==
    [last_distribution_ts : Nat, current_day_distributed : Nat,
     current_day_carry_over : Nat, pagination_cursor : Nat,
     day_completed : BOOLEAN, current_day_total_claimed : Nat,
     total_distributions : Nat, total_investor_distributed : Nat,
     total_creator_distributed : Nat, current_day_total_locked_all : Nat,
     persistent_carry_over : Nat, paid_investor_bitmap : SUBSET Nat,
     total_fees_claimed : Nat, treasury : Nat, investor_atas : Nat,
     creator_ata : Nat, unclaimed : Nat,
     scanned : [0 .. MaxInvestors -> Nat], visits : [Investors -> Nat]]

Transactions ==
    [pc : {"idle", "scan", "read", "pay", "carry", "close", "commit"},
     page_start : Nat, page_size : Nat, starting : BOOLEAN, to_process : Nat,
     idx : Nat, claimed_quote : Nat, fee : Nat, sums : [0 .. MaxInvestors -> Nat],
     carry : Nat, carry_distributed : Nat, page_distributed : Nat,
     page_dust : Nat]

\* The type invariant: amounts stay natural numbers, that is, no transfer
\* and no subtraction of the handler goes below zero.
TypeOK ==
    /\ policy \in Policies \cup {NoPolicy}
    /\ db \in Accounts
    /\ mem \in Accounts
    /\ tx \in Transactions
    /\ locked \in [Investors -> Nat]
    /\ clock \in Nat
    /\ drops \in Nat

\* Every token ever claimed is in the investors' accounts, the creator's or
\* the treasury, and the two lifetime totals of the progress account agree
\* with what was really transferred: crank_distribution updates them apart
\* from the transfers (per page and per day, lines 508 and 548).
Conservation ==
    /\ db.total_fees_claimed = db.investor_atas + db.creator_ata + db.treasury
    /\ db.total_investor_distributed = db.investor_atas
    /\ db.total_creator_distributed = db.creator_ata

\* Whatever page sizes the crankers mix, and whichever transactions are
\* dropped or repeated, the day's pages cut the investors into disjoint
\* pieces: in the middle of a day exactly those below the cursor have been
\* treated, once; when the day is complete everybody has been.
ServedOnce ==
    policy # NoPolicy =>
        \A i \in Investors :
            db.visits[i] =
                IF i < policy.total_investors
                   /\ IF db.day_completed THEN db.total_distributions > 0
                                          ELSE i < db.pagination_cursor
                THEN 1 ELSE 0

\* While streams only vest, no page of the documented protocol ever runs
\* into an error: nobody is InvestorAlreadyPaid, the bitmap suffices and
\* the treasury covers every transfer.
NoPageFails == ~PageFails

\* What the treasury holds covers what the progress account still promises:
\* between days the persistent carry-over, within a day whatever is not yet
\* distributed of the day's total.
Backed ==
    IF db.day_completed
    THEN db.treasury >= db.persistent_carry_over
    ELSE db.treasury >= db.current_day_total_claimed - db.current_day_distributed

\* The investors' share of what a day distributes.
InvestorPool(a) ==
    InvestorFee(a.current_day_total_claimed,
                EligibleShare(policy, a.current_day_total_locked_all))

\* Payouts and the dust carried never exceed the investors' share of the
\* day's total, though each page reads the streams anew, rounds anew and
\* recycles the dust of the pages before it.  So the page that closes a day
\* leaves the creator at least what the policy does not give to investors.
WithinShare ==
    /\ ~db.day_completed =>
         db.current_day_distributed + db.current_day_carry_over <= InvestorPool(db)
    /\ tx.pc = "close" =>
         mem.current_day_distributed + mem.current_day_carry_over <= tx.fee

\* What DistributionDay promises: days a day length apart, everybody of the
\* roster served exactly once in each, however the pages are cut.
Days == INSTANCE DistributionDay WITH
    Candidates <- Investors,
    DayLength  <- SECONDS_PER_DAY,
    roster     <- IF policy = NoPolicy THEN {} ELSE 0 .. policy.total_investors - 1,
    open       <- ~db.day_completed,
    served     <- {i \in Investors : db.visits[i] > 0},
    started    <- db.last_distribution_ts,
    now        <- clock

DayProtocol == Days!Spec

\* The program claims as the fee source allows: whatever is dropped, failed
\* or repeated, all that the position has earned is recorded once, when the
\* transaction that claimed it commits, and nothing else is.
Source == INSTANCE FeeSource WITH
    owed     <- db.unclaimed,
    received <- db.total_fees_claimed

ClaimsFees == Source!Spec

\* A day that was started is completed: pages may be dropped and repeated,
\* and fees, streams and time move between them.
EveryDayCloses == ~db.day_completed ~> db.day_completed

-----------------------------------------------------------------------------
(* What the documents say, and the code does not do in every case.         *)

\* README.md:343 "respects daily caps", README.md:800 and 2266: what exceeds
\* the cap is carried to the next day's distribution.
CapRespected == policy # NoPolicy =>
    \A cap \in policy.daily_cap : db.current_day_distributed <= cap

\* progress.rs:81 "This ensures dust gets redistributed instead of being
\* lost": when a day is complete, the treasury holds nothing but the dust
\* that the next day will distribute.
NoDustStranded == db.day_completed => db.treasury = db.persistent_carry_over
=============================================================================
