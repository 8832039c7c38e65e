------------------------ MODULE FeeRouterCrankProofs ------------------------
(***************************************************************************)
(* Theorems about FeeRouterCrank, for every number of investors, page      *)
(* size, policy, stream and fee: tokens are conserved, it claims as        *)
(* FeeSource allows, its pages treat every investor once and implement     *)
(* DistributionDay, and, while streams only vest, the investors keep       *)
(* within their share, the treasury covers what is promised and no page    *)
(* fails.                                                                  *)
(***************************************************************************)
EXTENDS FeeRouterCrank, TLAPS

-----------------------------------------------------------------------------
(* Arithmetic                                                              *)

\* The product of two naturals is one: the only nonlinear fact about types.
LEMMA ProductNat ==
    ASSUME NEW a \in Nat, NEW b \in Nat
    PROVE  a * b \in Nat
  OBVIOUS

\* Dividing a natural by a positive one stays in the naturals.
LEMMA QuotientNat ==
    ASSUME NEW a \in Nat, NEW b \in Nat, b > 0
    PROVE  a \div b \in Nat
  OBVIOUS

\* saturating_sub never leaves the naturals, nor exceeds its first operand.
LEMMA MonusNat ==
    ASSUME NEW a \in Nat, NEW b \in Nat
    PROVE  Monus(a, b) \in Nat /\ Monus(a, b) <= a
  BY DEF Monus

\* Every pro-rata share of the handler is a natural number.
LEMMA ProRataNat ==
    ASSUME NEW a \in Nat, NEW b \in Nat, NEW t \in Nat
    PROVE  ProRata(a, b, t) \in Nat
<1>1. a * b \in Nat
  BY ProductNat
<1>2. CASE t = 0
  BY <1>2 DEF ProRata
<1>3. CASE t # 0
  <2>1. (a * b) \div t \in Nat
    BY <1>1, <1>3, QuotientNat
  <2> QED
    BY <1>3, <2>1 DEF ProRata
<1> QED
  BY <1>2, <1>3

\* The daily cap only lowers a payout.
LEMMA CapNat ==
    ASSUME NEW already \in Nat, NEW proposed \in Nat, NEW cap \in SUBSET Nat
    PROVE  /\ CheckDailyCap(already, proposed, cap) \in Nat
  BY MonusNat DEF CheckDailyCap

-----------------------------------------------------------------------------
(* The accounts                                                            *)

LEMMA FreshAccountsType == FreshAccounts \in Accounts
  BY CrankAssumption DEF FreshAccounts, Accounts, Zeros, NoSums, Investors

LEMMA IdleType == Idle \in Transactions
  BY CrankAssumption DEF Idle, Transactions, NoSums

\* The fields of well-typed accounts, one by one.
LEMMA AccountFields ==
    ASSUME NEW a \in Accounts
    PROVE  /\ a.last_distribution_ts \in Nat
           /\ a.current_day_distributed \in Nat
           /\ a.current_day_carry_over \in Nat
           /\ a.pagination_cursor \in Nat
           /\ a.day_completed \in BOOLEAN
           /\ a.current_day_total_claimed \in Nat
           /\ a.total_distributions \in Nat
           /\ a.total_investor_distributed \in Nat
           /\ a.total_creator_distributed \in Nat
           /\ a.current_day_total_locked_all \in Nat
           /\ a.persistent_carry_over \in Nat
           /\ a.paid_investor_bitmap \in SUBSET Nat
           /\ a.total_fees_claimed \in Nat
           /\ a.treasury \in Nat
           /\ a.investor_atas \in Nat
           /\ a.creator_ata \in Nat
           /\ a.unclaimed \in Nat
           /\ a.scanned \in [0 .. MaxInvestors -> Nat]
           /\ a.visits \in [Investors -> Nat]
  BY DEF Accounts

\* The transaction's local variables, one by one.
LEMMA TransactionFields ==
    ASSUME NEW t \in Transactions
    PROVE  /\ t.pc \in {"idle", "scan", "read", "pay", "carry", "close", "commit"}
           /\ t.page_start \in Nat
           /\ t.page_size \in Nat
           /\ t.starting \in BOOLEAN
           /\ t.to_process \in Nat
           /\ t.idx \in Nat
           /\ t.claimed_quote \in Nat
           /\ t.fee \in Nat
           /\ t.sums \in [0 .. MaxInvestors -> Nat]
           /\ t.carry \in Nat
           /\ t.carry_distributed \in Nat
           /\ t.page_distributed \in Nat
           /\ t.page_dust \in Nat
  BY DEF Transactions

\* A transfer the treasury covers keeps the accounts well typed; the amount
\* leaves the treasury, reaches the investors and counts for the day.
LEMMA PaidOutType ==
    ASSUME NEW a \in Accounts, NEW amount \in Nat, amount <= a.treasury
    PROVE  PaidOut(a, amount) \in Accounts
<1> DEFINE left == a.treasury - amount
           got == a.investor_atas + amount
           day == a.current_day_distributed + amount
<1>1. left \in Nat /\ got \in Nat /\ day \in Nat
  BY AccountFields
<1>2. PaidOut(a, amount) =
        [a EXCEPT !.treasury = left, !.investor_atas = got,
                  !.current_day_distributed = day]
  BY DEF PaidOut
<1> HIDE DEF left, got, day
<1>3. [a EXCEPT !.treasury = left, !.investor_atas = got,
                  !.current_day_distributed = day] \in Accounts
  BY <1>1 DEF Accounts
<1> QED
  BY <1>2, <1>3

LEMMA StartNewDayType ==
    ASSUME NEW a \in Accounts, NEW now \in Nat, NEW claimed \in Nat, NEW total \in Nat
    PROVE  StartNewDay(a, now, claimed, total) \in Accounts
<1> DEFINE pot == claimed + a.persistent_carry_over
           zero == 0
           no == FALSE
           nobody == {}
<1>1. /\ pot \in Nat /\ zero \in Nat /\ no \in BOOLEAN
      /\ nobody \in SUBSET Nat /\ Zeros \in [Investors -> Nat]
  BY AccountFields DEF Zeros
<1>2. StartNewDay(a, now, claimed, total) =
        [a EXCEPT !.last_distribution_ts = now,
                  !.current_day_distributed = zero,
                  !.current_day_carry_over = zero,
                  !.pagination_cursor = zero,
                  !.day_completed = no,
                  !.current_day_total_claimed = pot,
                  !.current_day_total_locked_all = total,
                  !.persistent_carry_over = zero,
                  !.paid_investor_bitmap = nobody,
                  !.visits = Zeros]
  BY DEF StartNewDay
<1> HIDE DEF pot, zero, no, nobody
<1>3. [a EXCEPT !.last_distribution_ts = now,
                  !.current_day_distributed = zero,
                  !.current_day_carry_over = zero,
                  !.pagination_cursor = zero,
                  !.day_completed = no,
                  !.current_day_total_claimed = pot,
                  !.current_day_total_locked_all = total,
                  !.persistent_carry_over = zero,
                  !.paid_investor_bitmap = nobody,
                  !.visits = Zeros] \in Accounts
  BY <1>1 DEF Accounts
<1> QED
  BY <1>2, <1>3

LEMMA CompleteDayType ==
    ASSUME NEW a \in Accounts, NEW amount \in Nat
    PROVE  CompleteDay(a, amount) \in Accounts
<1> DEFINE days == a.total_distributions + 1
           sum == a.total_creator_distributed + amount
           kept == a.current_day_carry_over
           zero == 0
           yes == TRUE
           nobody == {}
<1>1. /\ days \in Nat /\ sum \in Nat /\ kept \in Nat /\ zero \in Nat
      /\ yes \in BOOLEAN /\ nobody \in SUBSET Nat
  BY AccountFields
<1>2. CompleteDay(a, amount) =
        [a EXCEPT !.day_completed = yes, !.total_distributions = days,
                  !.total_creator_distributed = sum, !.pagination_cursor = zero,
                  !.persistent_carry_over = kept, !.paid_investor_bitmap = nobody]
  BY DEF CompleteDay
<1> HIDE DEF days, sum, kept, zero, yes, nobody
<1>3. [a EXCEPT !.day_completed = yes, !.total_distributions = days,
                  !.total_creator_distributed = sum, !.pagination_cursor = zero,
                  !.persistent_carry_over = kept, !.paid_investor_bitmap = nobody] \in Accounts
  BY <1>1 DEF Accounts
<1> QED
  BY <1>2, <1>3

-----------------------------------------------------------------------------
(* Type correctness.  The types alone are not inductive: that no index      *)
(* leaves the investors, no difference of running sums is negative and no   *)
(* divisor is zero needs the control part of the invariant.                 *)

PolicyOK ==
    policy # NoPolicy =>
        /\ policy.y0_total_allocation > 0
        /\ policy.total_investors \in 1 .. MaxInvestors

\* The cursor lies strictly inside the roster during a day, and is 0 between
\* days: so a first page always starts a day.
CursorOK ==
    IF db.day_completed
    THEN db.pagination_cursor = 0
    ELSE /\ policy # NoPolicy
         /\ db.pagination_cursor > 0
         /\ db.pagination_cursor < policy.total_investors

\* The transaction in progress treats the investors from the cursor on.
ControlOK ==
    /\ tx.pc = "idle" => mem = db
    /\ tx.pc # "idle" =>
         /\ policy # NoPolicy
         /\ tx.page_size > 0
         /\ tx.page_start = db.pagination_cursor
         /\ tx.page_start < policy.total_investors
         /\ tx.to_process = Least(tx.page_size, policy.total_investors - tx.page_start)
         /\ tx.starting = db.day_completed
    /\ tx.pc = "scan" => tx.starting /\ tx.idx <= policy.total_investors
    /\ tx.pc \in {"read", "pay", "carry"} => tx.idx <= tx.to_process

\* The running sums of the page's locked amounts never decrease.
SumsOK ==
    /\ tx.pc = "read" =>
         \A k \in 0 .. MaxInvestors - 1 : k < tx.idx => tx.sums[k] <= tx.sums[k + 1]
    /\ tx.pc \in {"pay", "carry"} =>
         \A k \in 0 .. MaxInvestors - 1 : k < tx.to_process => tx.sums[k] <= tx.sums[k + 1]

\* What a transaction is about to commit has its cursor in place as well.
MemOK ==
    /\ tx.pc \in {"read", "pay", "carry"} => ~mem.day_completed
    /\ tx.pc = "commit" =>
         IF mem.day_completed
         THEN mem.pagination_cursor = 0
         ELSE /\ mem.pagination_cursor > 0
              /\ mem.pagination_cursor < policy.total_investors

TypeInv == TypeOK /\ PolicyOK /\ CursorOK /\ ControlOK /\ SumsOK /\ MemOK

LEMMA TypeInit == Init => TypeInv
<1> SUFFICES ASSUME Init PROVE TypeInv
  OBVIOUS
<1>1. TypeOK
  BY FreshAccountsType, IdleType, CrankAssumption DEF Init, TypeOK
<1>2. tx.pc = "idle" /\ db.day_completed /\ db.pagination_cursor = 0
  BY DEF Init, Idle, FreshAccounts
<1> QED
  BY <1>1, <1>2 DEF Init, TypeInv, PolicyOK, CursorOK, ControlOK, SumsOK, MemOK

\* While a policy is set, its parameters are those setup_policy accepted.
LEMMA PolicyFields ==
    ASSUME TypeOK, PolicyOK, policy # NoPolicy
    PROVE  /\ policy.y0_total_allocation \in Nat \ {0}
           /\ policy.investor_fee_share_bps \in Nat
           /\ policy.min_payout_lamports \in Nat
           /\ policy.daily_cap \in SUBSET Nat
           /\ policy.total_investors \in Nat
           /\ policy.total_investors >= 1
           /\ policy.total_investors <= MaxInvestors
<1>1. policy \in Policies
  BY DEF TypeOK
<1> QED
  BY <1>1, PolicyAssumption, CrankAssumption DEF PolicyOK

\* The share of the investors is a natural number.
LEMMA InvestorFeeNat ==
    ASSUME TypeOK, PolicyOK, policy # NoPolicy, NEW claimed \in Nat, NEW total \in Nat
    PROVE  InvestorFee(claimed, EligibleShare(policy, total)) \in Nat
<1>1. total * BASIS_POINTS_DIVISOR \in Nat
  BY ProductNat, CrankAssumption
<1>2. (total * BASIS_POINTS_DIVISOR) \div policy.y0_total_allocation \in Nat
  BY <1>1, QuotientNat, PolicyFields
<1>3. EligibleShare(policy, total) \in Nat
  BY <1>2, PolicyFields, CrankAssumption DEF EligibleShare, Least
<1>4. claimed * EligibleShare(policy, total) \in Nat
  BY <1>3, ProductNat
<1> QED
  BY <1>4, QuotientNat, CrankAssumption DEF InvestorFee

\* Every index the page loops use is inside the roster.
LEMMA PageIndex ==
    ASSUME TypeInv, tx.pc \in {"read", "pay", "carry"}
    PROVE  /\ tx.to_process \in 0 .. MaxInvestors
           /\ tx.page_start + tx.to_process <= policy.total_investors
           /\ tx.idx < tx.to_process =>
                /\ tx.idx \in 0 .. MaxInvestors - 1
                /\ tx.idx \in 0 .. MaxInvestors
                /\ tx.idx + 1 \in 0 .. MaxInvestors
                /\ tx.page_start + tx.idx \in Investors
                /\ tx.page_start + tx.idx < policy.total_investors
<1>1. policy # NoPolicy
  BY DEF TypeInv, ControlOK
<1>2. /\ tx.idx \in Nat /\ tx.to_process \in Nat /\ tx.page_start \in Nat
      /\ tx.page_size \in Nat
  BY TransactionFields DEF TypeInv, TypeOK
<1>3. /\ tx.page_start < policy.total_investors
      /\ tx.to_process = Least(tx.page_size, policy.total_investors - tx.page_start)
  BY <1>1 DEF TypeInv, ControlOK
<1>4. /\ policy.total_investors \in Nat
      /\ policy.total_investors <= MaxInvestors
  BY <1>1, PolicyFields DEF TypeInv
<1>5. tx.to_process <= policy.total_investors - tx.page_start
  BY <1>2, <1>3, <1>4 DEF Least
<1>6. tx.to_process \in 0 .. MaxInvestors
  BY <1>2, <1>4, <1>5, CrankAssumption
<1>7. tx.page_start + tx.to_process <= policy.total_investors
  BY <1>2, <1>4, <1>5
<1>8. ASSUME tx.idx < tx.to_process
      PROVE  /\ tx.idx \in 0 .. MaxInvestors - 1
             /\ tx.idx \in 0 .. MaxInvestors
             /\ tx.idx + 1 \in 0 .. MaxInvestors
  BY <1>2, <1>6, <1>8, CrankAssumption
<1>9. ASSUME tx.idx < tx.to_process
      PROVE  tx.page_start + tx.idx < policy.total_investors
  BY <1>2, <1>4, <1>5, <1>9
<1>10. ASSUME tx.idx < tx.to_process
       PROVE  tx.page_start + tx.idx \in Investors
  BY <1>2, <1>4, <1>9, <1>10, CrankAssumption DEF Investors
<1> QED
  BY <1>6, <1>7, <1>8, <1>9, <1>10

\* What a page reads of its current investor is a natural number.
LEMMA IndividualNat ==
    ASSUME TypeInv, tx.pc \in {"pay", "carry"}, tx.idx < tx.to_process
    PROVE  IndividualLocked(tx.idx) \in Nat /\ PageLocked \in Nat
<1>1. tx.sums \in [0 .. MaxInvestors -> Nat]
  BY TransactionFields DEF TypeInv, TypeOK
<1>2. tx.sums[tx.idx] \in Nat /\ tx.sums[tx.idx + 1] \in Nat
  BY <1>1, PageIndex
<1>3. tx.sums[tx.idx] <= tx.sums[tx.idx + 1]
  BY PageIndex DEF TypeInv, SumsOK
<1>4. IndividualLocked(tx.idx) \in Nat
  BY <1>2, <1>3 DEF IndividualLocked
<1>5. PageLocked \in Nat
  BY <1>1, PageIndex DEF PageLocked
<1> QED
  BY <1>4, <1>5

-----------------------------------------------------------------------------
(* Each action preserves TypeInv.                                          *)

\* In the first state of a transaction nothing but `tx' has changed.
LEMMA SetupPolicyStep ==
    ASSUME TypeInv, NEW p \in Policies, SetupPolicy(p)
    PROVE  TypeInv'
<1>1. /\ policy' = p /\ p \in Policies /\ p # NoPolicy
      /\ p.y0_total_allocation > 0
      /\ p.total_investors \in 1 .. MaxInvestors
  BY CrankAssumption, PolicyAssumption DEF SetupPolicy
<1>2. UNCHANGED <<db, mem, tx, locked, clock, drops>> /\ tx.pc = "idle"
      /\ policy = NoPolicy
  BY DEF SetupPolicy
<1>3. TypeOK' /\ PolicyOK'
  BY <1>1, <1>2 DEF TypeInv, TypeOK, PolicyOK
<1>4. CursorOK' /\ ControlOK' /\ SumsOK' /\ MemOK'
  BY <1>2 DEF TypeInv, CursorOK, ControlOK, SumsOK, MemOK
<1> QED
  BY <1>3, <1>4 DEF TypeInv

LEMMA BeginStep ==
    ASSUME TypeInv, NEW start \in PageStarts, NEW size \in PageSizes, Begin(start, size)
    PROVE  TypeInv'
<1> DEFINE starting == IsFirstPage(db, start) /\ db.day_completed
           left == IF starting THEN policy.total_investors
                   ELSE Least(size, Monus(policy.total_investors, start))
           pc == IF starting THEN "scan" ELSE "read"
           count == Least(size, left)
           quote == IF starting THEN 0 ELSE db.current_day_total_claimed
<1>1. /\ tx.pc = "idle" /\ policy # NoPolicy /\ size > 0
      /\ UNCHANGED <<policy, db, mem, locked, clock, drops>>
  BY DEF Begin, CallAccepted
<1>2. size \in Nat /\ start \in Nat
  BY CrankAssumption
<1>3. tx' = [Idle EXCEPT !.pc = pc, !.page_start = start, !.page_size = size,
                         !.starting = starting, !.to_process = count,
                         !.claimed_quote = quote]
  BY DEF Begin
<1>4. /\ policy.total_investors \in Nat /\ policy.total_investors >= 1
      /\ policy.total_investors <= MaxInvestors
  BY <1>1, PolicyFields DEF TypeInv
<1>5. start = db.pagination_cursor
  BY DEF Begin, IsFirstPage, TypeInv, CursorOK
<1>6. start < policy.total_investors
  BY <1>2, <1>4, <1>5 DEF TypeInv, CursorOK
<1>7. starting = db.day_completed
  <2>1. db.day_completed \in BOOLEAN
    BY AccountFields DEF TypeInv, TypeOK
  <2>2. CASE db.day_completed
    BY <2>2, <1>5 DEF IsFirstPage, TypeInv, CursorOK
  <2>3. CASE ~db.day_completed
    BY <2>1, <2>3
  <2> QED
    BY <2>1, <2>2, <2>3
<1>8. count = Least(size, policy.total_investors - start)
  <2>1. CASE starting
    <3>1. start = 0
      BY <2>1 DEF IsFirstPage
    <3>2. policy.total_investors - start = policy.total_investors
      BY <3>1, <1>4
    <3>3. left = policy.total_investors
      BY <2>1
    <3> QED
      BY <3>2, <3>3
  <2>2. CASE ~starting
    BY <2>2, <1>2, <1>4, <1>6 DEF Least, Monus
  <2> QED
    BY <2>1, <2>2
<1>9. /\ pc \in {"scan", "read"} /\ starting \in BOOLEAN /\ count \in Nat
      /\ quote \in Nat
  <2>1. db.current_day_total_claimed \in Nat /\ db.day_completed \in BOOLEAN
    BY AccountFields DEF TypeInv, TypeOK
  <2>2. count \in Nat
    BY <1>2, <1>4, <1>6, <1>8 DEF Least
  <2> QED
    BY <2>1, <2>2, <1>7
<1> HIDE DEF starting, left, pc, count, quote
<1>10. tx' \in Transactions
  BY <1>2, <1>3, <1>9, IdleType DEF Transactions
<1>11. /\ tx'.pc = pc /\ tx'.page_start = start /\ tx'.page_size = size
       /\ tx'.starting = starting /\ tx'.to_process = count /\ tx'.idx = 0
  BY <1>3 DEF Idle
<1>12. TypeOK' /\ PolicyOK' /\ CursorOK'
  BY <1>1, <1>10 DEF TypeInv, TypeOK, PolicyOK, CursorOK
<1>13. pc = "scan" => starting
  BY DEF pc
<1>14. ControlOK'
  BY <1>1, <1>4, <1>5, <1>6, <1>7, <1>8, <1>9, <1>11, <1>13 DEF ControlOK
<1>15. SumsOK'
  BY <1>9, <1>11, CrankAssumption DEF SumsOK
<1>16. pc = "read" => ~db.day_completed
  BY <1>7 DEF pc
<1>17. MemOK'
  BY <1>1, <1>9, <1>11, <1>16 DEF TypeInv, ControlOK, MemOK
<1> QED
  BY <1>12, <1>14, <1>15, <1>17 DEF TypeInv

\* Reading one stream extends the running sums and touches nothing else.
LEMMA ScanStreamStep ==
    ASSUME TypeInv, ScanStream
    PROVE  TypeInv'
<1> DEFINE next == tx.idx + 1
           sum == mem.scanned[tx.idx] + locked[tx.idx]
<1>1. /\ tx.pc = "scan" /\ tx.idx < policy.total_investors
      /\ mem' = [mem EXCEPT !.scanned[next] = sum]
      /\ tx' = [tx EXCEPT !.idx = next]
      /\ UNCHANGED <<policy, db, locked, clock, drops>>
  BY DEF ScanStream
<1>2. policy # NoPolicy /\ tx.starting
  BY <1>1 DEF TypeInv, ControlOK
<1>3. /\ policy.total_investors \in Nat
      /\ policy.total_investors <= MaxInvestors
  BY <1>2, PolicyFields DEF TypeInv
<1>4. /\ tx \in Transactions /\ mem \in Accounts /\ tx.idx \in Nat
      /\ mem.scanned \in [0 .. MaxInvestors -> Nat]
      /\ locked \in [Investors -> Nat]
  BY TransactionFields, AccountFields DEF TypeInv, TypeOK
<1>5. /\ tx.idx \in 0 .. MaxInvestors /\ next \in 0 .. MaxInvestors
      /\ tx.idx \in Investors
  <2>1. tx.idx < policy.total_investors /\ tx.idx \in Nat /\ MaxInvestors \in Nat
    BY <1>1, <1>4, CrankAssumption
  <2>2. tx.idx < MaxInvestors
    BY <2>1, <1>3
  <2> QED
    BY <2>1, <2>2 DEF Investors
<1>6. /\ mem.scanned[tx.idx] \in Nat /\ locked[tx.idx] \in Nat
  BY <1>4, <1>5
<1>7. sum \in Nat /\ next \in Nat /\ next <= policy.total_investors
  BY <1>1, <1>3, <1>4, <1>6
<1> HIDE DEF next, sum
<1>8. [mem.scanned EXCEPT ![next] = sum] \in [0 .. MaxInvestors -> Nat]
  BY <1>4, <1>5, <1>7
<1>9. mem' \in Accounts
  BY <1>1, <1>4, <1>8 DEF Accounts
<1>10. tx' \in Transactions
  BY <1>1, <1>4, <1>7 DEF Transactions
<1>11. /\ tx'.pc = tx.pc /\ tx'.page_start = tx.page_start
       /\ tx'.page_size = tx.page_size /\ tx'.starting = tx.starting
       /\ tx'.to_process = tx.to_process /\ tx'.idx = next
  BY <1>1, <1>4 DEF Transactions
<1>12. TypeOK' /\ PolicyOK' /\ CursorOK'
  BY <1>1, <1>9, <1>10 DEF TypeInv, TypeOK, PolicyOK, CursorOK
<1>13. ControlOK' /\ SumsOK' /\ MemOK'
  BY <1>1, <1>2, <1>7, <1>11 DEF TypeInv, ControlOK, SumsOK, MemOK
<1> QED
  BY <1>12, <1>13 DEF TypeInv

LEMMA ClaimAndStartDayStep ==
    ASSUME TypeInv, ClaimAndStartDay
    PROVE  TypeInv'
<1> DEFINE claimed == mem.unclaimed
           total == TotalLocked
           day == StartNewDay(mem, clock, claimed, total)
           funds == day.treasury + claimed
           sum == day.total_fees_claimed + claimed
           zero == 0
           pc == "read"
<1>1. /\ tx.pc = "scan" /\ tx.idx = policy.total_investors
      /\ mem' = [day EXCEPT !.treasury = funds, !.unclaimed = zero,
                            !.total_fees_claimed = sum]
      /\ tx' = [tx EXCEPT !.pc = pc, !.idx = zero, !.claimed_quote = claimed]
      /\ UNCHANGED <<policy, db, locked, clock, drops>>
  BY DEF ClaimAndStartDay
<1>2. policy # NoPolicy /\ tx.starting
  BY <1>1 DEF TypeInv, ControlOK
<1>3. /\ policy.total_investors \in Nat
      /\ policy.total_investors <= MaxInvestors
  BY <1>2, PolicyFields DEF TypeInv
<1>4. /\ tx \in Transactions /\ mem \in Accounts /\ clock \in Nat
      /\ claimed \in Nat /\ tx.to_process \in Nat
      /\ mem.scanned \in [0 .. MaxInvestors -> Nat]
  BY TransactionFields, AccountFields DEF TypeInv, TypeOK
<1>5. total \in Nat
  BY <1>3, <1>4, CrankAssumption DEF TotalLocked
<1>6. day \in Accounts
  BY <1>4, <1>5, StartNewDayType
<1>7. day.treasury \in Nat /\ day.total_fees_claimed \in Nat
  BY <1>6, AccountFields
<1>8. /\ funds \in Nat /\ sum \in Nat /\ zero \in Nat /\ zero = 0
      /\ pc \in {"read"}
  BY <1>4, <1>7
<1> HIDE DEF claimed, total, day, funds, sum, zero, pc
<1>9. mem' \in Accounts
  BY <1>1, <1>6, <1>8 DEF Accounts
<1>10. tx' \in Transactions
  BY <1>1, <1>4, <1>8 DEF Transactions
<1>11. /\ tx'.pc = "read" /\ tx'.page_start = tx.page_start
       /\ tx'.page_size = tx.page_size /\ tx'.starting = tx.starting
       /\ tx'.to_process = tx.to_process /\ tx'.idx = 0
  BY <1>1, <1>4, <1>8 DEF Transactions
<1>12. TypeOK' /\ PolicyOK' /\ CursorOK'
  BY <1>1, <1>9, <1>10 DEF TypeInv, TypeOK, PolicyOK, CursorOK
<1>13. ControlOK'
  <2>1. tx.pc = "scan" /\ UNCHANGED <<policy, db>>
    BY <1>1
  <2>2. tx.to_process \in Nat
    BY <1>4
  <2>3. /\ policy # NoPolicy /\ tx.page_size > 0
        /\ tx.page_start = db.pagination_cursor
        /\ tx.page_start < policy.total_investors
        /\ tx.to_process = Least(tx.page_size, policy.total_investors - tx.page_start)
        /\ tx.starting = db.day_completed
    BY <2>1 DEF TypeInv, ControlOK
  <2> QED
    BY <2>1, <2>2, <2>3, <1>11 DEF ControlOK
<1>14. SumsOK'
  BY <1>11, CrankAssumption DEF SumsOK
<1>15. ~day.day_completed
  BY <1>4 DEF day, StartNewDay, Accounts
<1>16. ~mem'.day_completed
  BY <1>1, <1>6, <1>15 DEF Accounts
<1>17. MemOK'
  BY <1>11, <1>16 DEF MemOK
<1> QED
  BY <1>12, <1>13, <1>14, <1>17 DEF TypeInv

LEMMA ReadStreamStep ==
    ASSUME TypeInv, ReadStream
    PROVE  TypeInv'
<1> DEFINE next == tx.idx + 1
           sum == tx.sums[tx.idx] + locked[tx.page_start + tx.idx]
<1>1. /\ tx.pc = "read" /\ tx.idx < tx.to_process
      /\ tx' = [tx EXCEPT !.sums[next] = sum, !.idx = next]
      /\ UNCHANGED <<policy, db, mem, locked, clock, drops>>
  BY DEF ReadStream
<1>2. /\ tx \in Transactions
      /\ tx.idx \in Nat /\ tx.to_process \in Nat /\ tx.page_start \in Nat
      /\ tx.page_size \in Nat
      /\ tx.sums \in [0 .. MaxInvestors -> Nat]
      /\ locked \in [Investors -> Nat]
  BY TransactionFields DEF TypeInv, TypeOK
<1>6. tx.page_start + tx.idx \in Investors
  BY <1>1, PageIndex
<1>7. /\ tx.idx \in 0 .. MaxInvestors - 1 /\ tx.idx \in 0 .. MaxInvestors
      /\ next \in 0 .. MaxInvestors
  BY <1>1, PageIndex
<1>8. tx.sums[tx.idx] \in Nat /\ locked[tx.page_start + tx.idx] \in Nat
  BY <1>2, <1>6, <1>7
<1>9. /\ sum \in Nat /\ next \in Nat /\ next <= tx.to_process
      /\ tx.sums[tx.idx] <= sum
  BY <1>1, <1>2, <1>8
<1> DEFINE sums == [tx.sums EXCEPT ![next] = sum]
<1>10. sums \in [0 .. MaxInvestors -> Nat]
  BY <1>2, <1>7, <1>9
<1>11. tx' = [tx EXCEPT !.sums = sums, !.idx = next]
  BY <1>1
<1>12. \A k \in 0 .. MaxInvestors - 1 : k < next => sums[k] <= sums[k + 1]
  <2>1. SUFFICES ASSUME NEW k \in 0 .. MaxInvestors - 1, k < next
                 PROVE  sums[k] <= sums[k + 1]
    OBVIOUS
  <2>2. k \in 0 .. MaxInvestors /\ k + 1 \in 0 .. MaxInvestors /\ k # next /\ k \in Nat
    BY <2>1, <1>2, CrankAssumption
  <2>3. sums[k] = tx.sums[k]
    BY <2>2, <1>2
  <2>4. CASE k = tx.idx
    BY <2>2, <2>3, <2>4, <1>2, <1>7, <1>9
  <2>5. CASE k # tx.idx
    <3>1. k < tx.idx /\ k + 1 # next
      BY <2>1, <2>2, <2>5, <1>2
    <3>2. tx.sums[k] <= tx.sums[k + 1]
      BY <3>1, <1>1 DEF TypeInv, SumsOK
    <3> QED
      BY <2>2, <2>3, <3>1, <3>2, <1>2
  <2> QED
    BY <2>4, <2>5
<1> HIDE DEF next, sum, sums
<1>13. tx' \in Transactions
  BY <1>2, <1>9, <1>10, <1>11 DEF Transactions
<1>14. /\ tx'.pc = tx.pc /\ tx'.page_start = tx.page_start
       /\ tx'.page_size = tx.page_size /\ tx'.starting = tx.starting
       /\ tx'.to_process = tx.to_process /\ tx'.idx = next /\ tx'.sums = sums
  BY <1>2, <1>11 DEF Transactions
<1>15. TypeOK' /\ PolicyOK' /\ CursorOK'
  BY <1>1, <1>13 DEF TypeInv, TypeOK, PolicyOK, CursorOK
<1>16. ControlOK' /\ MemOK'
  BY <1>1, <1>9, <1>14 DEF TypeInv, ControlOK, MemOK
<1>17. SumsOK'
  BY <1>1, <1>12, <1>14 DEF SumsOK
<1> QED
  BY <1>15, <1>16, <1>17 DEF TypeInv

LEMMA ComputeSharesStep ==
    ASSUME TypeInv, ComputeShares
    PROVE  TypeInv'
<1> DEFINE total == mem.current_day_total_locked_all
           carry == mem.current_day_carry_over
           fee == InvestorFee(tx.claimed_quote, EligibleShare(policy, total))
           out == IF carry >= policy.min_payout_lamports
                  THEN ProRata(carry, PageLocked, total) ELSE 0
           zero == 0
           pc == "pay"
<1>1. /\ tx.pc = "read" /\ tx.idx = tx.to_process
      /\ tx' = [tx EXCEPT !.pc = pc, !.idx = zero, !.fee = fee, !.carry = carry,
                          !.carry_distributed = out]
      /\ mem' = [mem EXCEPT !.current_day_carry_over = zero]
      /\ UNCHANGED <<policy, db, locked, clock, drops>>
  BY DEF ComputeShares
<1>2. /\ tx \in Transactions /\ mem \in Accounts
      /\ tx.to_process \in Nat /\ tx.page_start \in Nat /\ tx.page_size \in Nat
      /\ tx.claimed_quote \in Nat
      /\ tx.sums \in [0 .. MaxInvestors -> Nat]
      /\ total \in Nat /\ carry \in Nat
  BY TransactionFields, AccountFields DEF TypeInv, TypeOK
<1>3. policy # NoPolicy
  BY <1>1 DEF TypeInv, ControlOK
<1>4. policy.min_payout_lamports \in Nat
  BY <1>3, PolicyFields DEF TypeInv
<1>5. tx.to_process \in 0 .. MaxInvestors
  BY <1>1, PageIndex
<1>6. PageLocked \in Nat
  BY <1>2, <1>5 DEF PageLocked
<1>7. /\ out \in Nat /\ zero \in Nat /\ zero = 0 /\ pc \in {"pay"}
  BY <1>2, <1>6, ProRataNat
<1>8. fee \in Nat
  BY <1>2, <1>3, InvestorFeeNat DEF TypeInv
<1> HIDE DEF total, carry, fee, out, zero, pc
<1>9. mem' \in Accounts /\ mem'.day_completed = mem.day_completed
  BY <1>1, <1>2, <1>7 DEF Accounts
<1>10. tx' \in Transactions
  BY <1>1, <1>2, <1>7, <1>8 DEF Transactions
<1>11. /\ tx'.pc = "pay" /\ tx'.page_start = tx.page_start
       /\ tx'.page_size = tx.page_size /\ tx'.starting = tx.starting
       /\ tx'.to_process = tx.to_process /\ tx'.idx = 0 /\ tx'.sums = tx.sums
  BY <1>1, <1>2, <1>7 DEF Transactions
<1>12. TypeOK' /\ PolicyOK' /\ CursorOK'
  BY <1>1, <1>9, <1>10 DEF TypeInv, TypeOK, PolicyOK, CursorOK
<1>13. ControlOK'
  BY <1>1, <1>2, <1>11 DEF TypeInv, ControlOK
<1>14. SumsOK'
  BY <1>1, <1>11 DEF TypeInv, SumsOK
<1>15. MemOK'
  BY <1>1, <1>9, <1>11 DEF TypeInv, MemOK
<1> QED
  BY <1>12, <1>13, <1>14, <1>15 DEF TypeInv

\* A step inside a transaction, after the scan, keeps the control invariant
\* as long as it keeps the page and stays within it.
LEMMA ControlFrame ==
    ASSUME ControlOK, tx.pc # "idle",
           UNCHANGED <<policy, db>>,
           tx'.pc \in {"read", "pay", "carry", "close", "commit"},
           tx'.page_start = tx.page_start, tx'.page_size = tx.page_size,
           tx'.starting = tx.starting, tx'.to_process = tx.to_process,
           tx'.pc \in {"read", "pay", "carry"} => tx'.idx <= tx'.to_process
    PROVE  ControlOK'
  BY DEF ControlOK

\* A step that writes only the working copy and the locals keeps the rest.
LEMMA RestFrame ==
    ASSUME TypeInv, UNCHANGED <<policy, db, locked, clock, drops>>,
           mem' \in Accounts, tx' \in Transactions
    PROVE  TypeOK' /\ PolicyOK' /\ CursorOK'
  BY DEF TypeInv, TypeOK, PolicyOK, CursorOK

\* What the loop over the page pays is a natural number.
LEMMA AllowedNat ==
    ASSUME TypeInv, tx.pc = "pay", tx.idx < tx.to_process
    PROVE  Payout \in Nat /\ AllowedPayout \in Nat
<1>1. /\ tx.fee \in Nat /\ mem.current_day_total_locked_all \in Nat
      /\ mem.current_day_distributed \in Nat
  BY TransactionFields, AccountFields DEF TypeInv, TypeOK
<1>2. Payout \in Nat
  BY <1>1, IndividualNat, ProRataNat DEF Payout
<1>3. policy # NoPolicy
  BY DEF TypeInv, ControlOK
<1>4. policy.daily_cap \in SUBSET Nat
  BY <1>3, PolicyFields DEF TypeInv
<1>5. AboveThreshold(Payout, policy.min_payout_lamports) \in Nat
  BY <1>2 DEF AboveThreshold
<1> QED
  BY <1>1, <1>2, <1>4, <1>5, CapNat DEF AllowedPayout

LEMMA PayInvestorStep ==
    ASSUME TypeInv, PayInvestor
    PROVE  TypeInv'
<1> DEFINE investor == tx.page_start + tx.idx
           paid == PaidOut(mem, AllowedPayout)
           bitmap == IF AllowedPayout > 0
                     THEN paid.paid_investor_bitmap \cup {investor}
                     ELSE paid.paid_investor_bitmap
           visits == [paid.visits EXCEPT ![investor] = @ + 1]
           next == tx.idx + 1
           sum == tx.page_distributed + AllowedPayout
           dust == tx.page_dust + Monus(Payout, AllowedPayout)
<1>1. /\ tx.pc = "pay" /\ tx.idx < tx.to_process /\ ~PayFails
      /\ mem' = [paid EXCEPT !.paid_investor_bitmap = bitmap, !.visits = visits]
      /\ tx' = [tx EXCEPT !.idx = next, !.page_distributed = sum,
                          !.page_dust = dust]
      /\ UNCHANGED <<policy, db, locked, clock, drops>>
  BY DEF PayInvestor
<1>2. /\ tx \in Transactions /\ mem \in Accounts
      /\ tx.idx \in Nat /\ tx.to_process \in Nat /\ tx.page_start \in Nat
      /\ tx.page_distributed \in Nat /\ tx.page_dust \in Nat
      /\ mem.treasury \in Nat
  BY TransactionFields, AccountFields DEF TypeInv, TypeOK
<1>3. Payout \in Nat /\ AllowedPayout \in Nat
  BY <1>1, AllowedNat
<1>4. AllowedPayout <= mem.treasury
  BY <1>1, <1>2, <1>3 DEF PayFails
<1>5. paid \in Accounts
  BY <1>2, <1>3, <1>4, PaidOutType
<1>6. paid.paid_investor_bitmap \in SUBSET Nat /\ paid.visits \in [Investors -> Nat]
  BY <1>5, AccountFields
<1>7. investor \in Investors /\ investor \in Nat
  BY <1>1, <1>2, PageIndex
<1>8. bitmap \in SUBSET Nat /\ visits \in [Investors -> Nat]
  BY <1>6, <1>7
<1>9. Monus(Payout, AllowedPayout) \in Nat
  BY <1>3, MonusNat
<1>10. /\ next \in Nat /\ next <= tx.to_process
       /\ sum \in Nat /\ dust \in Nat
  BY <1>1, <1>2, <1>3, <1>9
<1>11. paid.day_completed = mem.day_completed
  BY <1>2 DEF PaidOut, Accounts
<1> HIDE DEF paid, bitmap, visits, next, sum, dust
<1>12. mem' \in Accounts /\ mem'.day_completed = mem.day_completed
  BY <1>1, <1>5, <1>8, <1>11 DEF Accounts
<1>13. tx' \in Transactions
  BY <1>1, <1>2, <1>10 DEF Transactions
<1>14. /\ tx'.pc = "pay" /\ tx'.page_start = tx.page_start
       /\ tx'.page_size = tx.page_size /\ tx'.starting = tx.starting
       /\ tx'.to_process = tx.to_process /\ tx'.idx = next /\ tx'.sums = tx.sums
  BY <1>1, <1>2 DEF Transactions
<1>15. TypeOK' /\ PolicyOK' /\ CursorOK'
  BY <1>1, <1>12, <1>13, RestFrame
<1>16. ControlOK'
  <2>1. tx'.idx <= tx'.to_process
    BY <1>10, <1>14
  <2> QED
    BY <2>1, <1>1, <1>14, ControlFrame DEF TypeInv
<1>17. SumsOK' /\ MemOK'
  BY <1>1, <1>12, <1>14 DEF TypeInv, SumsOK, MemOK
<1> QED
  BY <1>15, <1>16, <1>17 DEF TypeInv

LEMMA PayLoopDoneStep ==
    ASSUME TypeInv, PayLoopDone
    PROVE  TypeInv'
<1> DEFINE pc == "carry"
           idx == IF tx.carry_distributed > 0 /\ PageLocked > 0 THEN 0 ELSE tx.idx
<1>1. tx \in Transactions /\ tx.idx \in Nat /\ tx.to_process \in Nat
  BY TransactionFields DEF TypeInv, TypeOK
<1>2. /\ tx.pc = "pay" /\ tx.idx = tx.to_process
      /\ tx' = [tx EXCEPT !.pc = pc, !.idx = idx]
      /\ UNCHANGED <<policy, db, mem, locked, clock, drops>>
  <2>1. CASE tx.carry_distributed > 0 /\ PageLocked > 0
    BY <2>1 DEF PayLoopDone
  <2>2. CASE ~(tx.carry_distributed > 0 /\ PageLocked > 0)
    <3>1. [tx EXCEPT !.pc = pc] = [tx EXCEPT !.pc = pc, !.idx = tx.idx]
      BY <1>1 DEF Transactions
    <3> QED
      BY <2>2, <3>1 DEF PayLoopDone
  <2> QED
    BY <2>1, <2>2
<1>3. idx \in Nat /\ idx <= tx.to_process /\ pc \in {"carry"}
  BY <1>1, <1>2
<1> HIDE DEF pc, idx
<1>4. tx' \in Transactions
  BY <1>1, <1>2, <1>3 DEF Transactions
<1>5. /\ tx'.pc = "carry" /\ tx'.page_start = tx.page_start
      /\ tx'.page_size = tx.page_size /\ tx'.starting = tx.starting
      /\ tx'.to_process = tx.to_process /\ tx'.idx = idx /\ tx'.sums = tx.sums
  BY <1>1, <1>2, <1>3 DEF Transactions
<1>6. TypeOK' /\ PolicyOK' /\ CursorOK'
  BY <1>2, <1>4, RestFrame DEF TypeInv, TypeOK
<1>7. ControlOK'
  <2>1. tx'.idx <= tx'.to_process
    BY <1>3, <1>5
  <2> QED
    BY <2>1, <1>2, <1>5, ControlFrame DEF TypeInv
<1>8. SumsOK' /\ MemOK'
  BY <1>2, <1>5 DEF TypeInv, SumsOK, MemOK
<1> QED
  BY <1>6, <1>7, <1>8 DEF TypeInv

LEMMA DistributeCarryStep ==
    ASSUME TypeInv, DistributeCarry
    PROVE  TypeInv'
<1> DEFINE next == tx.idx + 1
           sum == tx.page_distributed + CarryShare
<1>1. /\ tx.pc = "carry" /\ tx.idx < tx.to_process /\ ~CarryFails
      /\ mem' = PaidOut(mem, CarryShare)
      /\ tx' = [tx EXCEPT !.idx = next, !.page_distributed = sum]
      /\ UNCHANGED <<policy, db, locked, clock, drops>>
  BY DEF DistributeCarry
<1>2. /\ tx \in Transactions /\ mem \in Accounts
      /\ tx.idx \in Nat /\ tx.to_process \in Nat
      /\ tx.page_distributed \in Nat /\ tx.carry_distributed \in Nat
      /\ mem.treasury \in Nat
  BY TransactionFields, AccountFields DEF TypeInv, TypeOK
<1>3. CarryShare \in Nat
  BY <1>1, <1>2, IndividualNat, ProRataNat DEF CarryShare
<1>4. CarryShare <= mem.treasury
  BY <1>1, <1>2, <1>3 DEF CarryFails
<1>5. next \in Nat /\ next <= tx.to_process /\ sum \in Nat
  BY <1>1, <1>2, <1>3
<1>6. mem' \in Accounts
  BY <1>1, <1>2, <1>3, <1>4, PaidOutType
<1>7. mem'.day_completed = mem.day_completed
  BY <1>1, <1>2 DEF PaidOut, Accounts
<1> HIDE DEF next, sum
<1>8. tx' \in Transactions
  BY <1>1, <1>2, <1>5 DEF Transactions
<1>9. /\ tx'.pc = "carry" /\ tx'.page_start = tx.page_start
      /\ tx'.page_size = tx.page_size /\ tx'.starting = tx.starting
      /\ tx'.to_process = tx.to_process /\ tx'.idx = next /\ tx'.sums = tx.sums
  BY <1>1, <1>2 DEF Transactions
<1>10. TypeOK' /\ PolicyOK' /\ CursorOK'
  BY <1>1, <1>6, <1>8, RestFrame
<1>11. ControlOK'
  <2>1. tx'.idx <= tx'.to_process
    BY <1>5, <1>9
  <2> QED
    BY <2>1, <1>1, <1>9, ControlFrame DEF TypeInv
<1>12. SumsOK' /\ MemOK'
  BY <1>1, <1>7, <1>9 DEF TypeInv, SumsOK, MemOK
<1> QED
  BY <1>10, <1>11, <1>12 DEF TypeInv

LEMMA SettlePageStep ==
    ASSUME TypeInv, SettlePage
    PROVE  TypeInv'
<1> DEFINE kept == tx.page_dust + CarryLeft
           cursor == tx.page_start + tx.page_size
           sum == mem.total_investor_distributed + tx.page_distributed
           pc == IF IsFinalPage THEN "close" ELSE "commit"
<1>1. /\ tx.pc = "carry"
      /\ mem' = [mem EXCEPT !.current_day_carry_over = kept,
                            !.pagination_cursor = cursor,
                            !.total_investor_distributed = sum]
      /\ tx' = [tx EXCEPT !.pc = pc]
      /\ UNCHANGED <<policy, db, locked, clock, drops>>
  BY DEF SettlePage
<1>2. /\ tx \in Transactions /\ mem \in Accounts
      /\ tx.carry \in Nat /\ tx.carry_distributed \in Nat /\ tx.page_dust \in Nat
      /\ tx.page_start \in Nat /\ tx.page_size \in Nat /\ tx.to_process \in Nat
      /\ tx.page_distributed \in Nat /\ mem.total_investor_distributed \in Nat
  BY TransactionFields, AccountFields DEF TypeInv, TypeOK
<1>3. CarryLeft \in Nat
  BY <1>2, MonusNat DEF CarryLeft
<1>4. kept \in Nat /\ cursor \in Nat /\ sum \in Nat /\ pc \in {"close", "commit"}
  BY <1>2, <1>3
<1>5. /\ policy # NoPolicy /\ tx.page_size > 0
      /\ tx.to_process = Least(tx.page_size, policy.total_investors - tx.page_start)
      /\ ~mem.day_completed
  BY <1>1 DEF TypeInv, ControlOK, MemOK
<1>6. policy.total_investors \in Nat
  BY <1>5, PolicyFields DEF TypeInv
<1>7. pc = "commit" => cursor > 0 /\ cursor < policy.total_investors
  <2>1. SUFFICES ASSUME ~IsFinalPage
                 PROVE  cursor > 0 /\ cursor < policy.total_investors
    OBVIOUS
  <2>2. /\ tx.to_process >= tx.page_size
        /\ tx.page_start + tx.to_process < policy.total_investors
    BY <2>1, <1>2, <1>6 DEF IsFinalPage
  <2>3. tx.to_process <= tx.page_size
    BY <1>2, <1>5, <1>6 DEF Least
  <2> QED
    BY <2>2, <2>3, <1>2, <1>5, <1>6
<1> HIDE DEF kept, cursor, sum, pc
<1>8. mem' \in Accounts /\ mem'.day_completed = mem.day_completed
      /\ mem'.pagination_cursor = cursor
  BY <1>1, <1>2, <1>4 DEF Accounts
<1>9. tx' \in Transactions
  BY <1>1, <1>2, <1>4 DEF Transactions
<1>10. /\ tx'.pc = pc /\ tx'.page_start = tx.page_start
       /\ tx'.page_size = tx.page_size /\ tx'.starting = tx.starting
       /\ tx'.to_process = tx.to_process
  BY <1>1, <1>2 DEF Transactions
<1>11. TypeOK' /\ PolicyOK' /\ CursorOK'
  BY <1>1, <1>8, <1>9, RestFrame
<1>12. ControlOK'
  BY <1>1, <1>4, <1>10, ControlFrame DEF TypeInv
<1>13. SumsOK'
  BY <1>4, <1>10 DEF SumsOK
<1>14. MemOK'
  BY <1>1, <1>4, <1>5, <1>7, <1>8, <1>10 DEF MemOK
<1> QED
  BY <1>11, <1>12, <1>13, <1>14 DEF TypeInv

\* What the creator is paid is a natural number.
LEMMA RemainderNat ==
    ASSUME TypeInv
    PROVE  Remainder \in Nat
<1>1. /\ tx.claimed_quote \in Nat /\ mem.current_day_distributed \in Nat
      /\ mem.current_day_carry_over \in Nat
  BY TransactionFields, AccountFields DEF TypeInv, TypeOK
<1>2. Monus(tx.claimed_quote, mem.current_day_distributed) \in Nat
  BY <1>1, MonusNat
<1> QED
  BY <1>1, <1>2, MonusNat DEF Remainder, CreatorRemainder

LEMMA CloseDayStep ==
    ASSUME TypeInv, CloseDay
    PROVE  TypeInv'
<1> DEFINE day == CompleteDay(mem, Remainder)
           left == day.treasury - Remainder
           got == day.creator_ata + Remainder
           pc == "commit"
<1>1. /\ tx.pc = "close" /\ ~CloseFails
      /\ mem' = [day EXCEPT !.treasury = left, !.creator_ata = got]
      /\ tx' = [tx EXCEPT !.pc = pc]
      /\ UNCHANGED <<policy, db, locked, clock, drops>>
  BY DEF CloseDay
<1>2. tx \in Transactions /\ mem \in Accounts /\ mem.treasury \in Nat
  BY AccountFields DEF TypeInv, TypeOK
<1>3. Remainder \in Nat
  BY RemainderNat
<1>4. Remainder <= mem.treasury
  BY <1>1, <1>2, <1>3 DEF CloseFails
<1>5. day \in Accounts
  BY <1>2, <1>3, CompleteDayType
<1>6. /\ day.treasury = mem.treasury /\ day.day_completed
      /\ day.pagination_cursor = 0
  BY <1>2 DEF CompleteDay, Accounts
<1>7. day.creator_ata \in Nat
  BY <1>5, AccountFields
<1>8. left \in Nat /\ got \in Nat /\ pc \in {"commit"}
  BY <1>2, <1>3, <1>4, <1>6, <1>7
<1> HIDE DEF day, left, got, pc
<1>9. /\ mem' \in Accounts /\ mem'.day_completed = day.day_completed
      /\ mem'.pagination_cursor = day.pagination_cursor
  BY <1>1, <1>5, <1>8 DEF Accounts
<1>10. tx' \in Transactions
  BY <1>1, <1>2, <1>8 DEF Transactions
<1>11. /\ tx'.pc = "commit" /\ tx'.page_start = tx.page_start
       /\ tx'.page_size = tx.page_size /\ tx'.starting = tx.starting
       /\ tx'.to_process = tx.to_process
  BY <1>1, <1>2, <1>8 DEF Transactions
<1>12. TypeOK' /\ PolicyOK' /\ CursorOK'
  BY <1>1, <1>9, <1>10, RestFrame
<1>13. ControlOK'
  BY <1>1, <1>11, ControlFrame DEF TypeInv
<1>14. SumsOK' /\ MemOK'
  BY <1>6, <1>9, <1>11 DEF SumsOK, MemOK
<1> QED
  BY <1>12, <1>13, <1>14 DEF TypeInv

\* Between transactions: no local variable says anything.
LEMMA IdleFrame ==
    ASSUME tx'.pc = "idle", mem' = db'
    PROVE  ControlOK' /\ SumsOK' /\ MemOK'
  BY DEF ControlOK, SumsOK, MemOK

LEMMA CommitStep ==
    ASSUME TypeInv, Commit
    PROVE  TypeInv'
<1>1. /\ tx.pc = "commit" /\ db' = mem /\ tx' = Idle
      /\ UNCHANGED <<policy, mem, locked, clock, drops>>
  BY DEF Commit
<1>2. policy # NoPolicy
  BY <1>1 DEF TypeInv, ControlOK
<1>3. TypeOK' /\ PolicyOK'
  BY <1>1, IdleType DEF TypeInv, TypeOK, PolicyOK
<1>4. CursorOK'
  BY <1>1, <1>2 DEF TypeInv, MemOK, CursorOK
<1>5. tx'.pc = "idle" /\ mem' = db'
  BY <1>1 DEF Idle
<1> QED
  BY <1>3, <1>4, <1>5, IdleFrame DEF TypeInv

\* An error or a dropped transaction: the accounts are as before.
LEMMA RevertStep ==
    ASSUME TypeInv, Revert, UNCHANGED <<policy, db, locked, clock>>, drops' \in Nat
    PROVE  TypeInv'
<1>1. TypeOK' /\ PolicyOK' /\ CursorOK'
  BY IdleType DEF TypeInv, TypeOK, PolicyOK, CursorOK, Revert
<1>2. tx'.pc = "idle" /\ mem' = db'
  BY DEF Revert, Idle
<1> QED
  BY <1>1, <1>2, IdleFrame DEF TypeInv

LEMMA AccrueStep ==
    ASSUME TypeInv, NEW amount \in FeeSteps, Accrue(amount)
    PROVE  TypeInv'
<1> DEFINE sum == db.unclaimed + amount
<1>1. /\ tx.pc = "idle" /\ db' = [db EXCEPT !.unclaimed = sum] /\ mem' = db'
      /\ UNCHANGED <<policy, tx, locked, clock, drops>>
  BY DEF Accrue
<1>2. db \in Accounts /\ db.unclaimed \in Nat /\ amount \in Nat
  BY AccountFields, CrankAssumption DEF TypeInv, TypeOK
<1>3. sum \in Nat
  BY <1>2
<1> HIDE DEF sum
<1>4. db' \in Accounts
  BY <1>1, <1>2, <1>3 DEF Accounts
<1>5. db'.day_completed = db.day_completed /\ db'.pagination_cursor = db.pagination_cursor
  BY <1>1, <1>2 DEF Accounts
<1>6. TypeOK' /\ PolicyOK' /\ CursorOK'
  BY <1>1, <1>4, <1>5 DEF TypeInv, TypeOK, PolicyOK, CursorOK
<1> QED
  BY <1>1, <1>6, IdleFrame DEF TypeInv

\* Streams and time change nothing of the program's.
LEMMA EnvironmentStep ==
    ASSUME TypeInv, tx.pc = "idle", UNCHANGED <<policy, db, mem, tx, drops>>,
           locked' \in [Investors -> Nat], clock' \in Nat
    PROVE  TypeInv'
  BY DEF TypeInv, TypeOK, PolicyOK, CursorOK, ControlOK, SumsOK, MemOK

\* A stream that vests or is topped up still holds a natural amount.
LEMMA StreamStep ==
    ASSUME TypeInv, NEW i \in Investors, Vest(i) \/ TopUp(i)
    PROVE  TypeInv'
<1>1. locked \in [Investors -> Nat] /\ clock \in Nat
  BY DEF TypeInv, TypeOK
<1>2. CASE Vest(i)
  <2>1. PICK amount \in 0 .. locked[i] - 1 : locked' = [locked EXCEPT ![i] = amount]
    BY <1>2 DEF Vest
  <2>2. amount \in Nat
    BY <1>1, <2>1
  <2>3. locked' \in [Investors -> Nat]
    BY <1>1, <2>1, <2>2
  <2> QED
    BY <1>1, <1>2, <2>3, EnvironmentStep DEF Vest
<1>3. CASE TopUp(i)
  <2>1. PICK l \in InitialLocked : locked' = [locked EXCEPT ![i] = l[i]]
    BY <1>3 DEF TopUp
  <2>2. l[i] \in Nat
    BY <2>1, CrankAssumption
  <2>3. locked' \in [Investors -> Nat]
    BY <1>1, <2>1, <2>2
  <2> QED
    BY <1>1, <1>3, <2>3, EnvironmentStep DEF TopUp
<1> QED
  BY <1>2, <1>3

LEMMA TypeStep == TypeInv /\ [Next]_vars => TypeInv'
<1> SUFFICES ASSUME TypeInv, [Next]_vars PROVE TypeInv'
  OBVIOUS
<1>1. ASSUME NEW p \in Policies, SetupPolicy(p) PROVE TypeInv'
  BY <1>1, SetupPolicyStep
<1>2. ASSUME NEW start \in PageStarts, NEW size \in PageSizes, Begin(start, size)
      PROVE  TypeInv'
  BY <1>2, BeginStep
<1>3. CASE UNCHANGED vars
  BY <1>3 DEF vars, TypeInv, TypeOK, PolicyOK, CursorOK, ControlOK, SumsOK,
              MemOK, IsFinalPage
<1>4. ASSUME NEW start \in PageStarts, NEW size \in PageSizes,
             RetryPreviousPage(start, size)
      PROVE  TypeInv'
  BY <1>3, <1>4 DEF RetryPreviousPage
<1>5. CASE TxStep
  <2>1. CASE Fail
    BY <2>1, RevertStep DEF Fail, TypeInv, TypeOK
  <2> QED
    BY <1>5, <2>1, ScanStreamStep, ClaimAndStartDayStep, ReadStreamStep,
       ComputeSharesStep, PayInvestorStep, PayLoopDoneStep,
       DistributeCarryStep, SettlePageStep, CloseDayStep, CommitStep DEF TxStep
<1>6. CASE Drop
  <2>1. drops' \in Nat
    BY <1>6 DEF Drop, TypeInv, TypeOK
  <2> QED
    BY <1>6, <2>1, RevertStep DEF Drop
<1>7. ASSUME NEW amount \in FeeSteps, Accrue(amount) PROVE TypeInv'
  BY <1>7, AccrueStep
<1>8. ASSUME NEW i \in Investors, Vest(i) \/ TopUp(i) PROVE TypeInv'
  BY <1>8, StreamStep
<1>9. CASE Tick
  <2>1. clock' \in Nat /\ locked' \in [Investors -> Nat]
    BY <1>9 DEF Tick, TypeInv, TypeOK
  <2> QED
    BY <1>9, <2>1, EnvironmentStep DEF Tick
<1> QED
  BY <1>1, <1>2, <1>3, <1>4, <1>5, <1>6, <1>7, <1>8, <1>9 DEF Next

LEMMA TypeInvariant == Spec => []TypeInv
  BY TypeInit, TypeStep, PTL DEF Spec

\* In every behaviour the accounts, the working copy and the locals keep
\* their types: no amount of the crank ever becomes negative, and no loop
\* leaves the roster, for any number of investors, page sizes and policies.
THEOREM TypeCorrect == Spec => []TypeOK
<1>1. TypeInv => TypeOK
  BY DEF TypeInv
<1> QED
  BY <1>1, TypeInvariant, PTL

-----------------------------------------------------------------------------
(* Conservation.  Within a transaction the investors' lifetime total lags  *)
(* behind the transfers by what the page has distributed so far.           *)

Ledger(a) ==
    /\ a.total_fees_claimed = a.investor_atas + a.creator_ata + a.treasury
    /\ a.total_creator_distributed = a.creator_ata

MemLedger ==
    /\ Ledger(mem)
    /\ tx.pc \in {"scan", "read"} => tx.page_distributed = 0
    /\ mem.investor_atas = mem.total_investor_distributed +
         IF tx.pc \in {"pay", "carry"} THEN tx.page_distributed ELSE 0

LedgerInv == Conservation /\ MemLedger

LEMMA LedgerInit == Init => LedgerInv
  BY DEF Init, LedgerInv, Conservation, MemLedger, Ledger, FreshAccounts, Idle

\* The amounts of the ledger are natural numbers.
LEMMA LedgerFields ==
    ASSUME TypeInv
    PROVE  /\ mem.total_fees_claimed \in Nat /\ mem.investor_atas \in Nat
           /\ mem.creator_ata \in Nat /\ mem.treasury \in Nat
           /\ mem.total_creator_distributed \in Nat
           /\ mem.total_investor_distributed \in Nat
           /\ mem.unclaimed \in Nat
           /\ tx.page_distributed \in Nat
  BY AccountFields, TransactionFields DEF TypeInv, TypeOK

\* The total that a day's first page scans is a natural number.
LEMMA TotalLockedNat ==
    ASSUME TypeInv, tx.pc = "scan"
    PROVE  TotalLocked \in Nat
<1>1. mem.scanned \in [0 .. MaxInvestors -> Nat]
  BY AccountFields DEF TypeInv, TypeOK
<1>2. policy # NoPolicy
  BY DEF TypeInv, ControlOK
<1>3. /\ policy.total_investors \in Nat
      /\ policy.total_investors <= MaxInvestors
  BY <1>2, PolicyFields DEF TypeInv
<1> QED
  BY <1>1, <1>3, CrankAssumption DEF TotalLocked

\* A transfer from the treasury to an investor, seen by the ledger.
LEMMA PaidOutLedger ==
    ASSUME TypeInv, MemLedger, tx.pc \in {"pay", "carry"}, NEW amount \in Nat,
           mem'.total_fees_claimed = mem.total_fees_claimed,
           mem'.creator_ata = mem.creator_ata,
           mem'.total_creator_distributed = mem.total_creator_distributed,
           mem'.total_investor_distributed = mem.total_investor_distributed,
           mem'.treasury = mem.treasury - amount,
           mem'.investor_atas = mem.investor_atas + amount,
           tx'.pc = tx.pc, tx'.page_distributed = tx.page_distributed + amount
    PROVE  MemLedger'
  BY LedgerFields DEF MemLedger, Ledger

\* Each step of a transaction keeps the ledger of the working copy.
LEMMA LedgerTxStep ==
    ASSUME TypeInv, LedgerInv, TxStep
    PROVE  LedgerInv'
<1>1. mem \in Accounts /\ tx \in Transactions
  BY DEF TypeInv, TypeOK
<1>2. ASSUME ScanStream PROVE LedgerInv'
  <2>1. /\ tx.pc = "scan" /\ tx'.pc = tx.pc /\ tx'.page_distributed = tx.page_distributed
        /\ mem'.total_fees_claimed = mem.total_fees_claimed
        /\ mem'.creator_ata = mem.creator_ata
        /\ mem'.treasury = mem.treasury
        /\ mem'.investor_atas = mem.investor_atas
        /\ mem'.total_creator_distributed = mem.total_creator_distributed
        /\ mem'.total_investor_distributed = mem.total_investor_distributed
        /\ db' = db
    BY <1>1, <1>2 DEF ScanStream, Accounts, Transactions
  <2> QED
    BY <2>1 DEF LedgerInv, Conservation, MemLedger, Ledger
<1>3. ASSUME ClaimAndStartDay PROVE LedgerInv'
  <2> DEFINE claimed == mem.unclaimed
             day == StartNewDay(mem, clock, claimed, TotalLocked)
             funds == day.treasury + claimed
             sum == day.total_fees_claimed + claimed
  <2>1. /\ tx.pc = "scan" /\ db' = db
        /\ mem' = [day EXCEPT !.treasury = funds, !.unclaimed = 0,
                              !.total_fees_claimed = sum]
        /\ tx' = [tx EXCEPT !.pc = "read", !.idx = 0, !.claimed_quote = claimed]
    BY <1>3 DEF ClaimAndStartDay
  <2>2. claimed \in Nat /\ clock \in Nat /\ TotalLocked \in Nat
    BY <1>1, <1>3, <2>1, AccountFields, TotalLockedNat DEF TypeInv, TypeOK
  <2>3. day \in Accounts
    BY <1>1, <2>2, StartNewDayType
  <2>4. /\ day.treasury = mem.treasury
        /\ day.total_fees_claimed = mem.total_fees_claimed
        /\ day.creator_ata = mem.creator_ata
        /\ day.investor_atas = mem.investor_atas
        /\ day.total_creator_distributed = mem.total_creator_distributed
        /\ day.total_investor_distributed = mem.total_investor_distributed
    BY <1>1 DEF StartNewDay, Accounts
  <2> HIDE DEF day, claimed
  <2>5. /\ mem'.treasury = funds
        /\ mem'.total_fees_claimed = sum
        /\ mem'.creator_ata = day.creator_ata
        /\ mem'.investor_atas = day.investor_atas
        /\ mem'.total_creator_distributed = day.total_creator_distributed
        /\ mem'.total_investor_distributed = day.total_investor_distributed
        /\ tx'.pc = "read" /\ tx'.page_distributed = tx.page_distributed
    <3> HIDE DEF funds, sum
    <3> QED
      BY <1>1, <2>1, <2>3 DEF Accounts, Transactions
  <2>6. MemLedger'
    BY <2>1, <2>2, <2>4, <2>5, LedgerFields DEF LedgerInv, MemLedger, Ledger
  <2> QED
    BY <2>1, <2>6 DEF LedgerInv, Conservation
<1>4. ASSUME ReadStream PROVE LedgerInv'
  <2>1. /\ mem' = mem /\ db' = db /\ tx'.pc = tx.pc
        /\ tx'.page_distributed = tx.page_distributed
    BY <1>1, <1>4 DEF ReadStream, Transactions
  <2> QED
    BY <2>1 DEF LedgerInv, Conservation, MemLedger, Ledger
<1>5. ASSUME ComputeShares PROVE LedgerInv'
  <2>1. /\ tx.pc = "read" /\ tx'.pc = "pay" /\ db' = db
        /\ tx'.page_distributed = tx.page_distributed
        /\ mem'.total_fees_claimed = mem.total_fees_claimed
        /\ mem'.creator_ata = mem.creator_ata
        /\ mem'.treasury = mem.treasury
        /\ mem'.investor_atas = mem.investor_atas
        /\ mem'.total_creator_distributed = mem.total_creator_distributed
        /\ mem'.total_investor_distributed = mem.total_investor_distributed
    BY <1>1, <1>5 DEF ComputeShares, Accounts, Transactions
  <2> QED
    BY <2>1, LedgerFields DEF LedgerInv, Conservation, MemLedger, Ledger
<1>6. ASSUME PayInvestor PROVE LedgerInv'
  <2> DEFINE sum == tx.page_distributed + AllowedPayout
  <2>1. tx.pc = "pay" /\ tx.idx < tx.to_process /\ db' = db
    BY <1>6 DEF PayInvestor
  <2>2. AllowedPayout \in Nat
    BY <2>1, AllowedNat
  <2>3. /\ tx'.pc = tx.pc /\ tx'.page_distributed = sum
    <3> HIDE DEF sum
    <3> QED
      BY <1>1, <1>6 DEF PayInvestor, Transactions, sum
  <2>4. /\ mem'.total_fees_claimed = mem.total_fees_claimed
        /\ mem'.creator_ata = mem.creator_ata
        /\ mem'.treasury = mem.treasury - AllowedPayout
        /\ mem'.investor_atas = mem.investor_atas + AllowedPayout
        /\ mem'.total_creator_distributed = mem.total_creator_distributed
        /\ mem'.total_investor_distributed = mem.total_investor_distributed
    BY <1>1, <1>6 DEF PayInvestor, PaidOut, Accounts
  <2>5. MemLedger'
    BY <2>1, <2>2, <2>3, <2>4, PaidOutLedger DEF LedgerInv
  <2> QED
    BY <2>1, <2>5 DEF LedgerInv, Conservation
<1>7. ASSUME PayLoopDone PROVE LedgerInv'
  <2>1. /\ tx.pc = "pay" /\ tx'.pc = "carry" /\ db' = db /\ mem' = mem
        /\ tx'.page_distributed = tx.page_distributed
    BY <1>1, <1>7 DEF PayLoopDone, Transactions
  <2> QED
    BY <2>1 DEF LedgerInv, Conservation, MemLedger, Ledger
<1>8. ASSUME DistributeCarry PROVE LedgerInv'
  <2> DEFINE sum == tx.page_distributed + CarryShare
  <2>1. tx.pc = "carry" /\ tx.idx < tx.to_process /\ db' = db
    BY <1>8 DEF DistributeCarry
  <2>2. CarryShare \in Nat
    BY <1>1, <2>1, IndividualNat, ProRataNat, TransactionFields DEF CarryShare
  <2>3. tx'.pc = tx.pc /\ tx'.page_distributed = sum
    BY <1>1, <1>8 DEF DistributeCarry, Transactions
  <2>4. /\ mem'.total_fees_claimed = mem.total_fees_claimed
        /\ mem'.creator_ata = mem.creator_ata
        /\ mem'.treasury = mem.treasury - CarryShare
        /\ mem'.investor_atas = mem.investor_atas + CarryShare
        /\ mem'.total_creator_distributed = mem.total_creator_distributed
        /\ mem'.total_investor_distributed = mem.total_investor_distributed
    BY <1>1, <1>8 DEF DistributeCarry, PaidOut, Accounts
  <2>5. MemLedger'
    BY <2>1, <2>2, <2>3, <2>4, PaidOutLedger DEF LedgerInv
  <2> QED
    BY <2>1, <2>5 DEF LedgerInv, Conservation
<1>9. ASSUME SettlePage PROVE LedgerInv'
  <2> DEFINE sum == mem.total_investor_distributed + tx.page_distributed
  <2>1. tx.pc = "carry" /\ tx'.pc \in {"close", "commit"} /\ db' = db
    BY <1>1, <1>9 DEF SettlePage, Transactions
  <2>2. /\ mem'.total_fees_claimed = mem.total_fees_claimed
        /\ mem'.creator_ata = mem.creator_ata
        /\ mem'.treasury = mem.treasury
        /\ mem'.investor_atas = mem.investor_atas
        /\ mem'.total_creator_distributed = mem.total_creator_distributed
        /\ mem'.total_investor_distributed = sum
    BY <1>1, <1>9 DEF SettlePage, Accounts
  <2>3. MemLedger'
    BY <2>1, <2>2, LedgerFields DEF LedgerInv, MemLedger, Ledger
  <2> QED
    BY <2>1, <2>3 DEF LedgerInv, Conservation
<1>10. ASSUME CloseDay PROVE LedgerInv'
  <2>1. tx.pc = "close" /\ tx'.pc = "commit" /\ db' = db
    BY <1>1, <1>10 DEF CloseDay, Transactions
  <2>2. Remainder \in Nat
    BY RemainderNat
  <2>3. /\ mem'.total_fees_claimed = mem.total_fees_claimed
        /\ mem'.creator_ata = mem.creator_ata + Remainder
        /\ mem'.treasury = mem.treasury - Remainder
        /\ mem'.investor_atas = mem.investor_atas
        /\ mem'.total_creator_distributed = mem.total_creator_distributed + Remainder
        /\ mem'.total_investor_distributed = mem.total_investor_distributed
    BY <1>1, <1>10 DEF CloseDay, CompleteDay, Accounts
  <2>4. MemLedger'
    BY <2>1, <2>2, <2>3, LedgerFields DEF LedgerInv, MemLedger, Ledger
  <2> QED
    BY <2>1, <2>4 DEF LedgerInv, Conservation
<1>11. ASSUME Commit PROVE LedgerInv'
  <2>1. tx.pc = "commit" /\ tx'.pc = "idle" /\ mem' = mem /\ db' = mem
    BY <1>11 DEF Commit, Idle
  <2>2. mem.investor_atas = mem.total_investor_distributed
    BY <2>1, LedgerFields DEF LedgerInv, MemLedger
  <2> QED
    BY <2>1, <2>2, LedgerFields DEF LedgerInv, Conservation, MemLedger, Ledger
<1>12. ASSUME Fail PROVE LedgerInv'
  <2>1. tx'.pc = "idle" /\ mem' = db /\ db' = db
    BY <1>12 DEF Fail, Revert, Idle
  <2>2. db.total_investor_distributed \in Nat
    BY AccountFields DEF TypeInv, TypeOK
  <2> QED
    BY <2>1, <2>2 DEF LedgerInv, Conservation, MemLedger, Ledger
<1> QED
  BY <1>2, <1>3, <1>4, <1>5, <1>6, <1>7, <1>8, <1>9, <1>10, <1>11, <1>12 DEF TxStep

LEMMA LedgerStep == TypeInv /\ LedgerInv /\ [Next]_vars => LedgerInv'
<1> SUFFICES ASSUME TypeInv, LedgerInv, [Next]_vars PROVE LedgerInv'
  OBVIOUS
<1>1. db.total_investor_distributed \in Nat
  BY AccountFields DEF TypeInv, TypeOK
<1>2. ASSUME UNCHANGED <<db, mem, tx>> PROVE LedgerInv'
  BY <1>2 DEF LedgerInv, Conservation, MemLedger, Ledger
<1>3. ASSUME NEW p \in Policies, SetupPolicy(p) PROVE LedgerInv'
  BY <1>2, <1>3 DEF SetupPolicy
<1>4. ASSUME NEW start \in PageStarts, NEW size \in PageSizes, Begin(start, size)
      PROVE  LedgerInv'
  <2>1. /\ tx.pc = "idle" /\ UNCHANGED <<db, mem>>
        /\ tx'.pc \in {"scan", "read"} /\ tx'.page_distributed = 0
    BY <1>4 DEF Begin, CallAccepted, Idle
  <2> QED
    BY <2>1 DEF LedgerInv, Conservation, MemLedger, Ledger
<1>5. ASSUME NEW start \in PageStarts, NEW size \in PageSizes,
             RetryPreviousPage(start, size)
      PROVE  LedgerInv'
  BY <1>2, <1>5 DEF RetryPreviousPage, vars
<1>6. CASE TxStep
  BY <1>6, LedgerTxStep
<1>7. CASE Drop
  <2>1. tx'.pc = "idle" /\ mem' = db /\ db' = db
    BY <1>7 DEF Drop, Revert, Idle
  <2> QED
    BY <2>1, <1>1 DEF LedgerInv, Conservation, MemLedger, Ledger
<1>8. ASSUME NEW amount \in FeeSteps, Accrue(amount) PROVE LedgerInv'
  <2>1. /\ tx.pc = "idle" /\ tx' = tx /\ mem' = db'
        /\ db'.total_fees_claimed = db.total_fees_claimed
        /\ db'.investor_atas = db.investor_atas
        /\ db'.creator_ata = db.creator_ata
        /\ db'.treasury = db.treasury
        /\ db'.total_investor_distributed = db.total_investor_distributed
        /\ db'.total_creator_distributed = db.total_creator_distributed
    BY <1>8 DEF Accrue, TypeInv, TypeOK, Accounts
  <2> QED
    BY <2>1, <1>1 DEF LedgerInv, Conservation, MemLedger, Ledger
<1>9. ASSUME NEW i \in Investors, Vest(i) \/ TopUp(i) PROVE LedgerInv'
  BY <1>2, <1>9 DEF Vest, TopUp
<1>10. CASE Tick
  BY <1>2, <1>10 DEF Tick
<1>11. CASE UNCHANGED vars
  BY <1>2, <1>11 DEF vars
<1> QED
  BY <1>3, <1>4, <1>5, <1>6, <1>7, <1>8, <1>9, <1>10, <1>11 DEF Next

\* In every reachable state every token ever claimed for the vault is with
\* the investors, with the creator or in the treasury, and the lifetime
\* totals of the progress account are what was really transferred.
THEOREM TokensConserved == Spec => []Conservation
<1>1. Spec => []LedgerInv
  BY LedgerInit, LedgerStep, TypeInvariant, PTL DEF Spec
<1>2. LedgerInv => Conservation
  BY DEF LedgerInv
<1> QED
  BY <1>1, <1>2, PTL

-----------------------------------------------------------------------------
(* Claims.  FeeRouterCrank claims from its position as FeeSource allows:   *)
(* what the position has earned is recorded all at once and once, by the   *)
(* commit of the transaction that claimed it.                              *)

\* What the working copy says of the claim.
ClaimInv == tx.pc # "idle" =>
    IF tx.starting /\ tx.pc # "scan"
    THEN /\ mem.unclaimed = 0
         /\ mem.total_fees_claimed = db.total_fees_claimed + db.unclaimed
    ELSE /\ mem.unclaimed = db.unclaimed
         /\ mem.total_fees_claimed = db.total_fees_claimed

LEMMA ClaimInit == Init => ClaimInv
  BY DEF Init, ClaimInv, Idle

LEMMA ClaimFields ==
    ASSUME TypeInv
    PROVE  /\ db.unclaimed \in Nat /\ db.total_fees_claimed \in Nat
           /\ mem.unclaimed \in Nat /\ mem.total_fees_claimed \in Nat
           /\ tx.starting \in BOOLEAN
  BY AccountFields, TransactionFields DEF TypeInv, TypeOK

\* After the claim the rest of the page leaves both fields alone.
LEMMA ClaimFrame ==
    ASSUME TypeInv, ClaimInv,
           ScanStream \/ ReadStream \/ ComputeShares \/ PayInvestor \/ PayLoopDone
             \/ DistributeCarry \/ SettlePage \/ CloseDay
    PROVE  ClaimInv' /\ db' = db
<1>1. mem \in Accounts /\ tx \in Transactions
  BY DEF TypeInv, TypeOK
<1>2. SUFFICES /\ db' = db /\ tx'.starting = tx.starting
               /\ tx.pc # "idle" /\ (tx'.pc = "scan" <=> tx.pc = "scan")
               /\ mem'.unclaimed = mem.unclaimed
               /\ mem'.total_fees_claimed = mem.total_fees_claimed
  BY DEF ClaimInv
<1>3. CASE ScanStream
  BY <1>1, <1>3 DEF ScanStream, Accounts, Transactions
<1>4. CASE ReadStream
  BY <1>1, <1>4 DEF ReadStream, Transactions
<1>5. CASE ComputeShares
  BY <1>1, <1>5 DEF ComputeShares, Accounts, Transactions
<1>6. CASE PayInvestor
  <2>1. PaidOut(mem, AllowedPayout).unclaimed = mem.unclaimed
    BY <1>1 DEF PaidOut, Accounts
  <2>2. PaidOut(mem, AllowedPayout).total_fees_claimed = mem.total_fees_claimed
    BY <1>1 DEF PaidOut, Accounts
  <2>3. /\ mem'.unclaimed = PaidOut(mem, AllowedPayout).unclaimed
        /\ mem'.total_fees_claimed = PaidOut(mem, AllowedPayout).total_fees_claimed
    BY <1>1, <1>6 DEF PayInvestor, PaidOut, Accounts
  <2>4. db' = db /\ tx'.starting = tx.starting /\ tx.pc = "pay" /\ tx'.pc = "pay"
    BY <1>1, <1>6 DEF PayInvestor, Transactions
  <2> QED
    BY <2>1, <2>2, <2>3, <2>4
<1>7. CASE PayLoopDone
  BY <1>1, <1>7 DEF PayLoopDone, Transactions
<1>8. CASE DistributeCarry
  BY <1>1, <1>8 DEF DistributeCarry, PaidOut, Accounts, Transactions
<1>9. CASE SettlePage
  BY <1>1, <1>9 DEF SettlePage, Accounts, Transactions
<1>10. CASE CloseDay
  BY <1>1, <1>10 DEF CloseDay, CompleteDay, Accounts, Transactions
<1> QED
  BY <1>3, <1>4, <1>5, <1>6, <1>7, <1>8, <1>9, <1>10

LEMMA ClaimHappens ==
    ASSUME TypeInv, ClaimInv, ClaimAndStartDay
    PROVE  ClaimInv' /\ db' = db
<1> DEFINE claimed == mem.unclaimed
           day == StartNewDay(mem, clock, claimed, TotalLocked)
           funds == day.treasury + claimed
           sum == day.total_fees_claimed + claimed
<1>1. mem \in Accounts /\ tx \in Transactions
  BY DEF TypeInv, TypeOK
<1>2. /\ tx.pc = "scan" /\ tx.starting /\ db' = db
      /\ mem' = [day EXCEPT !.treasury = funds, !.unclaimed = 0,
                            !.total_fees_claimed = sum]
      /\ tx'.pc = "read" /\ tx'.starting = tx.starting
  BY <1>1 DEF ClaimAndStartDay, TypeInv, ControlOK, Transactions
<1>3. DOMAIN day = DOMAIN mem /\ day.total_fees_claimed = mem.total_fees_claimed
  BY <1>1 DEF StartNewDay, Accounts
<1> HIDE DEF day, claimed, funds
<1>4. mem'.unclaimed = 0 /\ mem'.total_fees_claimed = sum
  BY <1>1, <1>2, <1>3 DEF Accounts
<1>5. sum = db.total_fees_claimed + db.unclaimed
  BY <1>2, <1>3 DEF ClaimInv, claimed
<1> QED
  BY <1>2, <1>4, <1>5 DEF ClaimInv

\* No step but these three changes what the source knows.
LEMMA ClaimStep ==
    TypeInv /\ ClaimInv /\ [Next]_vars => ClaimInv' /\ [Source!Next]_(Source!vars)
<1> SUFFICES ASSUME TypeInv, ClaimInv, [Next]_vars
             PROVE  ClaimInv' /\ [Source!Next]_(Source!vars)
  OBVIOUS
<1>1. ASSUME db' = db PROVE UNCHANGED Source!vars
  BY <1>1 DEF Source!vars
<1>2. ASSUME UNCHANGED <<db, mem, tx>> PROVE ClaimInv' /\ UNCHANGED Source!vars
  BY <1>1, <1>2 DEF ClaimInv
<1>3. ASSUME NEW p \in Policies, SetupPolicy(p)
      PROVE  ClaimInv' /\ UNCHANGED Source!vars
  BY <1>2, <1>3 DEF SetupPolicy
<1>4. ASSUME NEW start \in PageStarts, NEW size \in PageSizes, Begin(start, size)
      PROVE  ClaimInv' /\ UNCHANGED Source!vars
  <2>1. /\ tx.pc = "idle" /\ UNCHANGED <<db, mem>>
        /\ tx'.pc = IF tx'.starting THEN "scan" ELSE "read"
    BY <1>4 DEF Begin, CallAccepted, Idle
  <2>2. mem = db
    BY <2>1 DEF TypeInv, ControlOK
  <2> QED
    BY <1>1, <2>1, <2>2 DEF ClaimInv
<1>5. ASSUME NEW start \in PageStarts, NEW size \in PageSizes,
             RetryPreviousPage(start, size)
      PROVE  ClaimInv' /\ UNCHANGED Source!vars
  BY <1>2, <1>5 DEF RetryPreviousPage, vars
<1>6. ASSUME TxStep, ~Commit, ~Fail PROVE ClaimInv' /\ UNCHANGED Source!vars
  BY <1>1, <1>6, ClaimFrame, ClaimHappens DEF TxStep
<1>7. ASSUME Drop \/ Fail PROVE ClaimInv' /\ UNCHANGED Source!vars
  BY <1>1, <1>7 DEF Drop, Fail, Revert, Idle, ClaimInv
<1>8. ASSUME Commit PROVE ClaimInv' /\ [Source!Next]_(Source!vars)
  <2>1. tx.pc = "commit" /\ db' = mem /\ tx'.pc = "idle"
    BY <1>8 DEF Commit, Idle
  <2>2. CASE tx.starting
    <3>1. db'.unclaimed = 0
      BY <2>1, <2>2 DEF ClaimInv
    <3>2. db'.total_fees_claimed = db.total_fees_claimed + db.unclaimed
      BY <2>1, <2>2 DEF ClaimInv
    <3> QED
      BY <2>1, <3>1, <3>2 DEF ClaimInv, Source!Next, Source!Claim
  <2>3. CASE ~tx.starting
    BY <2>1, <2>3 DEF ClaimInv, Source!vars
  <2> QED
    BY <2>2, <2>3
<1>9. ASSUME NEW amount \in FeeSteps, Accrue(amount)
      PROVE  ClaimInv' /\ [Source!Next]_(Source!vars)
  <2> DEFINE more == db.unclaimed + amount
  <2>1. more \in Nat /\ more >= db.unclaimed
    BY ClaimFields, CrankAssumption
  <2>2. tx.pc = "idle" /\ tx' = tx /\ db' = [db EXCEPT !.unclaimed = more]
    BY <1>9 DEF Accrue
  <2>3. db \in Accounts
    BY DEF TypeInv, TypeOK
  <2> HIDE DEF more
  <2>4. db'.unclaimed = more /\ db'.total_fees_claimed = db.total_fees_claimed
    BY <2>2, <2>3 DEF Accounts
  <2>5. CASE more = db.unclaimed
    BY <2>2, <2>4, <2>5 DEF ClaimInv, Source!vars
  <2>6. CASE more # db.unclaimed
    <3>1. db'.unclaimed \in Nat /\ db'.unclaimed > db.unclaimed
      BY <2>1, <2>4, <2>6, ClaimFields
    <3> QED
      BY <2>2, <2>4, <3>1 DEF ClaimInv, Source!Next, Source!Accrue
  <2> QED
    BY <2>5, <2>6
<1>10. ASSUME NEW i \in Investors, Vest(i) \/ TopUp(i)
       PROVE  ClaimInv' /\ UNCHANGED Source!vars
  BY <1>2, <1>10 DEF Vest, TopUp
<1>11. ASSUME Tick \/ UNCHANGED vars PROVE ClaimInv' /\ UNCHANGED Source!vars
  BY <1>2, <1>11 DEF Tick, vars
<1> QED
  BY <1>3, <1>4, <1>5, <1>6, <1>7, <1>8, <1>9, <1>10, <1>11 DEF Next

LEMMA ClaimStart == Init => Source!Init
  BY DEF Init, FreshAccounts, Source!Init

\* Whatever fails, is dropped or is repeated, for every policy and roster:
\* the fees of the position are recorded as claimed once and in full.
THEOREM ImplementsSource == Spec => ClaimsFees
<1>1. Spec => []ClaimInv
  BY ClaimInit, ClaimStep, TypeInvariant, PTL DEF Spec
<1> QED
  BY <1>1, ClaimStart, ClaimStep, TypeInvariant, PTL DEF Spec, ClaimsFees, Source!Spec

-----------------------------------------------------------------------------
(* The days: the pages of a day treat every investor once                  *)

\* Exactly the investors below k have been treated, once each.
Visited(a, k) == \A i \in Investors : a.visits[i] = IF i < k THEN 1 ELSE 0

\* How far the day recorded in these accounts has come.
Reached(a) ==
    IF ~a.day_completed THEN a.pagination_cursor
    ELSE IF a.total_distributions > 0 THEN policy.total_investors ELSE 0

\* How far the transaction in progress has come.
PageEnd == tx.page_start + tx.to_process

PageVisited ==
    /\ tx.pc = "read"  => Visited(mem, tx.page_start)
    /\ tx.pc = "pay"   => Visited(mem, tx.page_start + tx.idx)
    /\ tx.pc \in {"carry", "close", "commit"} => Visited(mem, PageEnd)
    /\ tx.pc = "close" => PageEnd = policy.total_investors
    /\ tx.pc = "commit" =>
         IF mem.day_completed
         THEN PageEnd = policy.total_investors /\ mem.total_distributions > 0
         ELSE PageEnd < policy.total_investors /\ mem.pagination_cursor = PageEnd

\* Before there is a policy nothing has happened.
Unused ==
    policy = NoPolicy =>
        /\ db.day_completed
        /\ db.total_distributions = 0
        /\ Visited(db, 0)

\* The page that starts a day does so a day after the last one; the day it
\* writes is today's.
PageDated ==
    /\ tx.pc # "idle" /\ tx.starting =>
         clock >= db.last_distribution_ts + SECONDS_PER_DAY
    /\ tx.pc \in {"read", "pay", "carry", "close", "commit"} =>
         mem.last_distribution_ts = IF tx.starting THEN clock
                                                   ELSE db.last_distribution_ts

DayInv ==
    /\ Unused
    /\ policy # NoPolicy => Visited(db, Reached(db))
    /\ PageVisited
    /\ PageDated

LEMMA DayInit == Init => DayInv
<1> SUFFICES ASSUME Init PROVE DayInv
  OBVIOUS
<1>1. policy = NoPolicy /\ tx.pc = "idle"
  BY DEF Init, Idle
<1>2. db.day_completed /\ db.total_distributions = 0 /\ db.visits = Zeros
  BY DEF Init, FreshAccounts
<1>3. Visited(db, 0)
  BY <1>2, CrankAssumption DEF Visited, Zeros, Investors
<1>4. Unused
  BY <1>2, <1>3 DEF Unused
<1> QED
  BY <1>1, <1>4 DEF DayInv, PageVisited, PageDated

\* A page that is not the last one of its day ends before the roster does,
\* and has as many investors as the caller asked for.
LEMMA PageEndBounds ==
    ASSUME TypeInv, tx.pc \in {"read", "pay", "carry", "close", "commit"}
    PROVE  /\ tx.page_start \in Nat /\ tx.page_size \in Nat /\ tx.to_process \in Nat
           /\ tx.idx \in Nat
           /\ policy # NoPolicy
           /\ policy.total_investors \in Nat
           /\ tx.to_process > 0
           /\ PageEnd <= policy.total_investors
           /\ IsFinalPage <=> PageEnd = policy.total_investors
           /\ ~IsFinalPage => PageEnd = tx.page_start + tx.page_size
<1>1. /\ tx.page_start \in Nat /\ tx.page_size \in Nat /\ tx.to_process \in Nat
      /\ tx.idx \in Nat
  BY TransactionFields DEF TypeInv, TypeOK
<1>2. /\ policy # NoPolicy /\ tx.page_size > 0
      /\ tx.page_start < policy.total_investors
      /\ tx.to_process = Least(tx.page_size, policy.total_investors - tx.page_start)
  BY DEF TypeInv, ControlOK
<1>3. policy.total_investors \in Nat
  BY <1>2, PolicyFields DEF TypeInv
<1>4. /\ tx.to_process > 0
      /\ tx.to_process <= tx.page_size
      /\ tx.to_process <= policy.total_investors - tx.page_start
      /\ \/ tx.to_process = tx.page_size
         \/ tx.to_process = policy.total_investors - tx.page_start
  BY <1>1, <1>2, <1>3 DEF Least
<1> QED
  BY <1>1, <1>2, <1>3, <1>4 DEF PageEnd, IsFinalPage

\* A step inside a page that keeps the page and the day's date has only to
\* say who has been treated.
LEMMA PageFrame ==
    ASSUME DayInv, tx.pc \in {"read", "pay", "carry", "close"},
           UNCHANGED <<policy, db, clock>>,
           tx'.pc # "idle",
           tx'.starting = tx.starting,
           mem'.last_distribution_ts = mem.last_distribution_ts,
           PageVisited'
    PROVE  DayInv'
<1>1. PageDated'
  BY DEF DayInv, PageDated
<1>2. Unused' /\ (policy # NoPolicy => Visited(db, Reached(db)))'
  BY DEF DayInv, Unused, Visited, Reached
<1> QED
  BY <1>1, <1>2 DEF DayInv

\* A transaction that is cut short leaves the day where it was.
LEMMA RevertDays ==
    ASSUME DayInv, Revert, UNCHANGED <<policy, db, clock>>
    PROVE  DayInv'
<1>1. tx'.pc = "idle"
  BY DEF Revert, Idle
<1>2. Unused' /\ (policy # NoPolicy => Visited(db, Reached(db)))'
  BY DEF DayInv, Unused, Visited, Reached
<1> QED
  BY <1>1, <1>2 DEF DayInv, PageVisited, PageDated

LEMMA DayTxStep ==
    ASSUME TypeInv, DayInv, TxStep
    PROVE  DayInv'
<1>1. mem \in Accounts /\ tx \in Transactions
  BY DEF TypeInv, TypeOK
<1>2. ASSUME ScanStream PROVE DayInv'
  <2>1. /\ tx.pc = "scan" /\ tx'.pc = "scan" /\ tx'.starting = tx.starting
        /\ UNCHANGED <<policy, db, clock>>
    BY <1>1, <1>2 DEF ScanStream, Transactions
  <2>2. PageVisited' /\ PageDated'
    BY <2>1 DEF PageVisited, DayInv, PageDated
  <2>3. Unused' /\ (policy # NoPolicy => Visited(db, Reached(db)))'
    BY <2>1 DEF DayInv, Unused, Visited, Reached
  <2> QED
    BY <2>2, <2>3 DEF DayInv
<1>3. ASSUME ClaimAndStartDay PROVE DayInv'
  <2> DEFINE day == StartNewDay(mem, clock, mem.unclaimed, TotalLocked)
             funds == day.treasury + mem.unclaimed
             sum == day.total_fees_claimed + mem.unclaimed
             claimed == mem.unclaimed
  <2>1. /\ tx.pc = "scan" /\ UNCHANGED <<policy, db, clock>>
        /\ mem' = [day EXCEPT !.treasury = funds, !.unclaimed = 0,
                              !.total_fees_claimed = sum]
        /\ tx' = [tx EXCEPT !.pc = "read", !.idx = 0, !.claimed_quote = claimed]
    BY <1>3 DEF ClaimAndStartDay
  <2>2. tx.starting /\ tx.page_start = 0
    BY <2>1 DEF TypeInv, ControlOK, CursorOK
  <2>3. day.visits = Zeros /\ day.last_distribution_ts = clock
    BY <1>1 DEF StartNewDay, Accounts
  <2>4. mem'.visits = day.visits /\ mem'.last_distribution_ts = day.last_distribution_ts
    <3> HIDE DEF funds, sum
    <3> QED
      BY <1>1, <2>1 DEF StartNewDay, Accounts
  <2> HIDE DEF day, funds, sum, claimed
  <2>5. tx'.pc = "read" /\ tx'.page_start = tx.page_start /\ tx'.starting = tx.starting
    BY <1>1, <2>1 DEF Transactions
  <2>6. PageVisited'
    BY <2>2, <2>3, <2>4, <2>5, CrankAssumption DEF PageVisited, Visited, Zeros, Investors
  <2>7. PageDated'
    BY <2>1, <2>2, <2>3, <2>4, <2>5 DEF DayInv, PageDated
  <2>8. Unused' /\ (policy # NoPolicy => Visited(db, Reached(db)))'
    BY <2>1 DEF DayInv, Unused, Visited, Reached
  <2> QED
    BY <2>6, <2>7, <2>8 DEF DayInv
<1>4. ASSUME ReadStream PROVE DayInv'
  <2>1. /\ tx.pc = "read" /\ tx'.pc = "read" /\ tx'.starting = tx.starting
        /\ tx'.page_start = tx.page_start /\ mem' = mem
        /\ UNCHANGED <<policy, db, clock>>
    BY <1>1, <1>4 DEF ReadStream, Transactions
  <2>2. PageVisited'
    BY <2>1 DEF DayInv, PageVisited, Visited
  <2> QED
    BY <2>1, <2>2, PageFrame
<1>5. ASSUME ComputeShares PROVE DayInv'
  <2>1. /\ tx.pc = "read" /\ tx'.pc = "pay" /\ tx'.starting = tx.starting
        /\ tx'.page_start = tx.page_start /\ tx'.idx = 0
        /\ mem'.visits = mem.visits
        /\ mem'.last_distribution_ts = mem.last_distribution_ts
        /\ UNCHANGED <<policy, db, clock>>
    BY <1>1, <1>5 DEF ComputeShares, Accounts, Transactions
  <2>2. tx.page_start \in Nat
    BY <1>1, TransactionFields
  <2>3. tx'.page_start + tx'.idx = tx.page_start
    BY <2>1, <2>2
  <2>4. PageVisited'
    BY <2>1, <2>3 DEF DayInv, PageVisited, Visited
  <2> QED
    BY <2>1, <2>4, PageFrame
<1>6. ASSUME PayInvestor PROVE DayInv'
  <2> DEFINE investor == tx.page_start + tx.idx
  <2>1. /\ tx.pc = "pay" /\ tx.idx < tx.to_process
        /\ UNCHANGED <<policy, db, clock>>
    BY <1>6 DEF PayInvestor
  <2>2. /\ mem'.visits = [mem.visits EXCEPT ![investor] = @ + 1]
        /\ mem'.last_distribution_ts = mem.last_distribution_ts
    BY <1>1, <1>6 DEF PayInvestor, PaidOut, Accounts
  <2>3. /\ tx'.pc = tx.pc /\ tx'.starting = tx.starting
        /\ tx'.page_start = tx.page_start /\ tx'.idx = tx.idx + 1
    BY <1>1, <1>6 DEF PayInvestor, Transactions
  <2>4. /\ tx.page_start \in Nat /\ tx.idx \in Nat
        /\ mem.visits \in [Investors -> Nat]
    BY <1>1, TransactionFields, AccountFields
  <2>5. investor \in Investors
    BY <2>1, PageIndex
  <2>6. Visited(mem, investor)
    BY <2>1 DEF DayInv, PageVisited
  <2>7. tx'.page_start + tx'.idx = investor + 1
    BY <2>3, <2>4
  <2>8. ASSUME NEW i \in Investors
        PROVE  mem'.visits[i] = IF i < investor + 1 THEN 1 ELSE 0
    <3>1. i \in Nat /\ investor \in Nat
      BY <2>4, CrankAssumption DEF Investors
    <3>2. mem.visits[i] = IF i < investor THEN 1 ELSE 0
      BY <2>6 DEF Visited
    <3> HIDE DEF investor
    <3>3. CASE i = investor
      BY <2>2, <2>4, <2>5, <3>1, <3>2, <3>3
    <3>4. CASE i # investor
      BY <2>2, <2>4, <3>1, <3>2, <3>4
    <3> QED
      BY <3>3, <3>4
  <2>9. PageVisited'
    BY <2>1, <2>3, <2>7, <2>8 DEF PageVisited, Visited
  <2> QED
    BY <2>1, <2>2, <2>3, <2>9, PageFrame
<1>7. ASSUME PayLoopDone PROVE DayInv'
  <2>1. /\ tx.pc = "pay" /\ tx.idx = tx.to_process /\ mem' = mem
        /\ UNCHANGED <<policy, db, clock>>
    BY <1>7 DEF PayLoopDone
  <2>2. /\ tx'.pc = "carry" /\ tx'.starting = tx.starting
        /\ tx'.page_start = tx.page_start /\ tx'.to_process = tx.to_process
    BY <1>1, <1>7 DEF PayLoopDone, Transactions
  <2>3. PageVisited'
    BY <2>1, <2>2 DEF DayInv, PageVisited, Visited, PageEnd
  <2> QED
    BY <2>1, <2>2, <2>3, PageFrame
<1>8. ASSUME DistributeCarry PROVE DayInv'
  <2>1. tx.pc = "carry" /\ UNCHANGED <<policy, db, clock>>
    BY <1>8 DEF DistributeCarry
  <2>2. /\ mem'.visits = mem.visits
        /\ mem'.last_distribution_ts = mem.last_distribution_ts
    BY <1>1, <1>8 DEF DistributeCarry, PaidOut, Accounts
  <2>3. /\ tx'.pc = tx.pc /\ tx'.starting = tx.starting
        /\ tx'.page_start = tx.page_start /\ tx'.to_process = tx.to_process
    BY <1>1, <1>8 DEF DistributeCarry, Transactions
  <2>4. PageVisited'
    BY <2>1, <2>2, <2>3 DEF DayInv, PageVisited, Visited, PageEnd
  <2> QED
    BY <2>1, <2>2, <2>3, <2>4, PageFrame
<1>9. ASSUME SettlePage PROVE DayInv'
  <2>1. tx.pc = "carry" /\ UNCHANGED <<policy, db, clock>>
    BY <1>9 DEF SettlePage
  <2>2. /\ mem'.visits = mem.visits
        /\ mem'.last_distribution_ts = mem.last_distribution_ts
        /\ mem'.day_completed = mem.day_completed
        /\ mem'.pagination_cursor = tx.page_start + tx.page_size
    BY <1>1, <1>9 DEF SettlePage, Accounts
  <2>3. /\ tx'.pc = IF IsFinalPage THEN "close" ELSE "commit"
        /\ tx'.starting = tx.starting
        /\ tx'.page_start = tx.page_start /\ tx'.to_process = tx.to_process
    BY <1>1, <1>9 DEF SettlePage, Transactions
  <2>4. Visited(mem, PageEnd) /\ ~mem.day_completed
    BY <2>1 DEF DayInv, PageVisited, TypeInv, MemOK
  <2>5. PageEnd' = PageEnd /\ Visited(mem, PageEnd)'
    BY <2>2, <2>3, <2>4 DEF PageEnd, Visited
  <2>6. PageEnd \in Nat /\ policy.total_investors \in Nat
    BY <2>1, PageEndBounds DEF PageEnd
  <2>7. ASSUME IsFinalPage PROVE PageVisited'
    <3>1. tx'.pc = "close"
      BY <2>3, <2>7
    <3>2. PageEnd = policy.total_investors
      BY <2>1, <2>7, PageEndBounds
    <3>3. (PageEnd = policy.total_investors)'
      BY <2>1, <2>5, <3>2
    <3> QED
      BY <2>5, <3>1, <3>3 DEF PageVisited, Visited
  <2>8. ASSUME ~IsFinalPage PROVE PageVisited'
    <3>1. PageEnd < policy.total_investors /\ PageEnd = tx.page_start + tx.page_size
      BY <2>1, <2>6, <2>8, PageEndBounds
    <3>2. tx'.pc = "commit"
      BY <2>3, <2>8
    <3>3. mem'.pagination_cursor = PageEnd'
      BY <2>2, <2>5, <3>1
    <3>4. ~mem'.day_completed
      BY <2>2, <2>4
    <3>5. (PageEnd < policy.total_investors)'
      BY <2>1, <2>5, <3>1
    <3> QED
      BY <2>5, <3>2, <3>3, <3>4, <3>5 DEF PageVisited, Visited
  <2>9. PageVisited'
    BY <2>7, <2>8
  <2>10. tx'.pc # "idle"
    BY <2>3
  <2> QED
    BY <2>1, <2>2, <2>3, <2>9, <2>10, PageFrame
<1>10. ASSUME CloseDay PROVE DayInv'
  <2> DEFINE day == CompleteDay(mem, Remainder)
             left == day.treasury - Remainder
             got == day.creator_ata + Remainder
  <2>1. /\ tx.pc = "close" /\ UNCHANGED <<policy, db, clock>>
        /\ mem' = [day EXCEPT !.treasury = left, !.creator_ata = got]
        /\ tx' = [tx EXCEPT !.pc = "commit"]
    BY <1>10 DEF CloseDay
  <2>2. /\ day.visits = mem.visits
        /\ day.last_distribution_ts = mem.last_distribution_ts
        /\ day.day_completed
        /\ day.total_distributions = mem.total_distributions + 1
    BY <1>1 DEF CompleteDay, Accounts
  <2>3. /\ mem'.visits = day.visits
        /\ mem'.last_distribution_ts = day.last_distribution_ts
        /\ mem'.day_completed = day.day_completed
        /\ mem'.total_distributions = day.total_distributions
    <3> HIDE DEF left, got
    <3> QED
      BY <1>1, <2>1 DEF CompleteDay, Accounts
  <2> HIDE DEF day, left, got
  <2>4. /\ tx'.pc = "commit" /\ tx'.starting = tx.starting
        /\ tx'.page_start = tx.page_start /\ tx'.to_process = tx.to_process
    BY <1>1, <2>1 DEF Transactions
  <2>5. mem.total_distributions \in Nat
    BY <1>1, AccountFields
  <2>6. mem'.total_distributions > 0
    BY <2>2, <2>3, <2>5
  <2>7. /\ Visited(mem, PageEnd) /\ PageEnd = policy.total_investors
    BY <2>1 DEF DayInv, PageVisited
  <2>8. PageVisited'
    BY <2>1, <2>2, <2>3, <2>4, <2>6, <2>7 DEF PageVisited, PageEnd, Visited
  <2> QED
    BY <2>1, <2>2, <2>3, <2>4, <2>8, PageFrame
<1>11. ASSUME Commit PROVE DayInv'
  <2>1. /\ tx.pc = "commit" /\ db' = mem /\ tx' = Idle
        /\ UNCHANGED <<policy, mem, clock>>
    BY <1>11 DEF Commit
  <2>2. policy # NoPolicy
    BY <2>1 DEF TypeInv, ControlOK
  <2>3. Visited(mem, Reached(mem))
    BY <2>1 DEF DayInv, PageVisited, Reached
  <2>4. Visited(db, Reached(db))' /\ Unused'
    BY <2>1, <2>2, <2>3 DEF Visited, Reached, Unused
  <2>5. tx'.pc = "idle"
    BY <2>1 DEF Idle
  <2> QED
    BY <2>4, <2>5 DEF DayInv, PageVisited, PageDated
<1>12. ASSUME Fail PROVE DayInv'
  BY <1>12, RevertDays DEF Fail
<1> QED
  BY <1>2, <1>3, <1>4, <1>5, <1>6, <1>7, <1>8, <1>9, <1>10, <1>11, <1>12 DEF TxStep

LEMMA DayBegin ==
    ASSUME TypeInv, DayInv, NEW start \in PageStarts, NEW size \in PageSizes,
           Begin(start, size)
    PROVE  DayInv'
<1>1. /\ tx.pc = "idle" /\ policy # NoPolicy /\ CanDistribute(db, clock)
      /\ UNCHANGED <<policy, db, mem, clock>>
  BY DEF Begin, CallAccepted
<1>2. mem = db
  BY <1>1 DEF TypeInv, ControlOK
<1>3. tx'.pc = IF tx'.starting THEN "scan" ELSE "read"
  BY DEF Begin, Idle
<1>4. /\ tx'.page_start = db.pagination_cursor
      /\ tx'.starting = db.day_completed
  <2>1. TypeInv'
    BY BeginStep
  <2> QED
    BY <1>1, <1>3, <2>1 DEF TypeInv, ControlOK
<1>5. tx'.starting => clock >= db.last_distribution_ts + SECONDS_PER_DAY
  BY <1>1, <1>4 DEF CanDistribute
<1>6. PageDated'
  BY <1>1, <1>2, <1>3, <1>5 DEF PageDated
<1>7. tx'.pc = "read" => Visited(mem, db.pagination_cursor)
  BY <1>1, <1>2, <1>3, <1>4 DEF DayInv, Reached
<1>8. PageVisited'
  BY <1>1, <1>3, <1>4, <1>7 DEF PageVisited, Visited
<1>9. Unused' /\ (policy # NoPolicy => Visited(db, Reached(db)))'
  BY <1>1 DEF DayInv, Unused, Visited, Reached
<1> QED
  BY <1>6, <1>8, <1>9 DEF DayInv

LEMMA DayStep == TypeInv /\ DayInv /\ [Next]_vars => DayInv'
<1> SUFFICES ASSUME TypeInv, DayInv, [Next]_vars PROVE DayInv'
  OBVIOUS
<1>1. ASSUME NEW p \in Policies, SetupPolicy(p) PROVE DayInv'
  <2>1. /\ tx.pc = "idle" /\ policy = NoPolicy
        /\ UNCHANGED <<db, mem, tx, clock>>
    BY <1>1 DEF SetupPolicy
  <2>2. policy' # NoPolicy
    BY <1>1, CrankAssumption DEF SetupPolicy
  <2>3. db.day_completed /\ db.total_distributions = 0 /\ Visited(db, 0)
    BY <2>1 DEF DayInv, Unused
  <2>4. Reached(db)' = 0
    BY <2>1, <2>3 DEF Reached
  <2>5. Visited(db, Reached(db))' /\ Unused'
    BY <2>1, <2>2, <2>3, <2>4 DEF Visited, Unused
  <2> QED
    BY <2>1, <2>5 DEF DayInv, PageVisited, PageDated
<1>2. ASSUME NEW start \in PageStarts, NEW size \in PageSizes, Begin(start, size)
      PROVE  DayInv'
  BY <1>2, DayBegin
<1>3. CASE UNCHANGED vars
  BY <1>3 DEF vars, DayInv, Unused, PageVisited, PageDated, Visited, Reached, PageEnd
<1>4. ASSUME NEW start \in PageStarts, NEW size \in PageSizes,
             RetryPreviousPage(start, size)
      PROVE  DayInv'
  BY <1>3, <1>4 DEF RetryPreviousPage
<1>5. CASE TxStep
  BY <1>5, DayTxStep
<1>6. CASE Drop
  BY <1>6, RevertDays DEF Drop
<1>7. ASSUME NEW amount \in FeeSteps, Accrue(amount) PROVE DayInv'
  <2>1. tx.pc = "idle" /\ UNCHANGED <<policy, tx, clock>>
    BY <1>7 DEF Accrue
  <2>2. /\ db'.visits = db.visits /\ db'.day_completed = db.day_completed
        /\ db'.pagination_cursor = db.pagination_cursor
        /\ db'.total_distributions = db.total_distributions
    BY <1>7 DEF Accrue, TypeInv, TypeOK, Accounts
  <2>3. Unused' /\ (policy # NoPolicy => Visited(db, Reached(db)))'
    BY <2>1, <2>2 DEF DayInv, Unused, Visited, Reached
  <2> QED
    BY <2>1, <2>3 DEF DayInv, PageVisited, PageDated
<1>8. ASSUME tx.pc = "idle", UNCHANGED <<policy, db, tx>> PROVE DayInv'
  BY <1>8 DEF DayInv, Unused, PageVisited, PageDated, Visited, Reached
<1>9. ASSUME NEW i \in Investors, Vest(i) \/ TopUp(i) PROVE DayInv'
  BY <1>8, <1>9 DEF Vest, TopUp
<1>10. CASE Tick
  BY <1>8, <1>10 DEF Tick
<1> QED
  BY <1>1, <1>2, <1>3, <1>4, <1>5, <1>6, <1>7, <1>9, <1>10 DEF Next

LEMMA DayInvariant == Spec => [](TypeInv /\ DayInv)
<1>1. Init => TypeInv /\ DayInv
  BY TypeInit, DayInit
<1>2. (TypeInv /\ DayInv) /\ [Next]_vars => (TypeInv /\ DayInv)'
  BY TypeStep, DayStep
<1> QED
  BY <1>1, <1>2, PTL DEF Spec

\* Whatever page sizes the crankers mix, whichever transactions are dropped
\* or repeated, and for any number of investors: in the middle of a day the
\* investors below the cursor have been treated, once, and at its end all.
THEOREM EverybodyServedOnce == Spec => []ServedOnce
<1>1. TypeInv /\ DayInv => ServedOnce
  <2> SUFFICES ASSUME TypeInv, DayInv, policy # NoPolicy, NEW i \in Investors
               PROVE  db.visits[i] =
                        IF i < policy.total_investors
                           /\ IF db.day_completed THEN db.total_distributions > 0
                                                  ELSE i < db.pagination_cursor
                        THEN 1 ELSE 0
    BY DEF ServedOnce
  <2>1. db.visits[i] = IF i < Reached(db) THEN 1 ELSE 0
    BY DEF DayInv, Visited
  <2>2. i \in Nat /\ policy.total_investors \in Nat /\ db.pagination_cursor \in Nat
    BY PolicyFields, AccountFields, CrankAssumption DEF TypeInv, TypeOK, Investors
  <2>3. CASE ~db.day_completed
    <3>1. db.pagination_cursor < policy.total_investors
      BY <2>3 DEF TypeInv, CursorOK
    <3> QED
      BY <2>1, <2>2, <2>3, <3>1 DEF Reached
  <2>4. CASE db.day_completed /\ db.total_distributions > 0
    BY <2>1, <2>4 DEF Reached
  <2>5. CASE db.day_completed /\ ~(db.total_distributions > 0)
    BY <2>1, <2>2, <2>5 DEF Reached
  <2> QED
    BY <2>3, <2>4, <2>5
<1> QED
  BY <1>1, DayInvariant, PTL

-----------------------------------------------------------------------------
(* The program implements DistributionDay: the commit of a page serves the  *)
(* page's investors, setup_policy enrolls the roster, time passes, and      *)
(* everything else changes nothing that the days can see.                   *)

Roster == IF policy = NoPolicy THEN {} ELSE 0 .. policy.total_investors - 1
Served == {i \in Investors : db.visits[i] > 0}

\* Once somebody has been treated, the served are those below the point the
\* day has reached.
LEMMA ServedBelow ==
    ASSUME NEW k \in Nat, Visited(db, k)
    PROVE  Served = {i \in Investors : i < k}
  BY CrankAssumption DEF Served, Visited, Investors

LEMMA DaysInit == Init => Days!Init
<1> SUFFICES ASSUME Init PROVE Days!Init
  OBVIOUS
<1>1. policy = NoPolicy /\ clock \in Nat
  BY CrankAssumption DEF Init
<1>2. /\ db.day_completed = TRUE /\ db.last_distribution_ts = 0
      /\ db.visits = Zeros
  BY DEF Init, FreshAccounts
<1>3. {i \in Investors : db.visits[i] > 0} = {}
  BY <1>2 DEF Zeros
<1> QED
  BY <1>1, <1>2, <1>3 DEF Days!Init

\* The abstract day does not see what leaves these alone.
LEMMA DaysStutter ==
    ASSUME UNCHANGED <<policy, clock>>, db'.day_completed = db.day_completed,
           db'.visits = db.visits,
           db'.last_distribution_ts = db.last_distribution_ts
    PROVE  UNCHANGED Days!dayVars
  BY DEF Days!dayVars

LEMMA SetupPolicyEnrolls ==
    ASSUME TypeInv, NEW p \in Policies, SetupPolicy(p)
    PROVE  Days!Enroll
<1>1. /\ policy = NoPolicy /\ policy' = p /\ p # NoPolicy
      /\ p.total_investors > 0
      /\ UNCHANGED <<db, clock>>
  BY CrankAssumption DEF SetupPolicy
<1>2. p.total_investors \in 0 .. MaxInvestors
  BY PolicyAssumption
<1>3. 0 .. p.total_investors - 1 \in (SUBSET Investors) \ {{}}
  <2>1. 0 \in 0 .. p.total_investors - 1
    BY <1>1, <1>2, CrankAssumption
  <2>2. 0 .. p.total_investors - 1 \subseteq Investors
    BY <1>2, CrankAssumption DEF Investors
  <2> QED
    BY <2>1, <2>2
<1>4. Roster = {} /\ Roster' = 0 .. p.total_investors - 1
  BY <1>1 DEF Roster
<1> QED
  BY <1>1, <1>3, <1>4 DEF Days!Enroll, Roster

LEMMA CommitServes ==
    ASSUME TypeInv, DayInv, Commit
    PROVE  \E group \in SUBSET Investors : Days!Serve(group)
<1> DEFINE group == {i \in Investors : tx.page_start <= i /\ i < PageEnd}
           total == policy.total_investors
<1>1. /\ tx.pc = "commit" /\ db' = mem /\ UNCHANGED <<policy, clock>>
  BY DEF Commit
<1>2. /\ policy # NoPolicy /\ tx.page_start \in Nat /\ PageEnd \in Nat
      /\ total \in Nat /\ total <= MaxInvestors
      /\ tx.page_start < PageEnd /\ PageEnd <= total
  BY <1>1, PageEndBounds, PolicyFields DEF TypeInv, PageEnd
<1>3. /\ tx.page_start = db.pagination_cursor
      /\ tx.starting = db.day_completed
  BY <1>1 DEF TypeInv, ControlOK
<1>4. Roster = 0 .. total - 1 /\ Roster' = Roster
  BY <1>1, <1>2 DEF Roster
<1>5. Served' = {i \in Investors : i < PageEnd}
  <2>1. Visited(mem, PageEnd)
    BY <1>1 DEF DayInv, PageVisited
  <2>2. \A i \in Investors : db'.visits[i] > 0 <=> i < PageEnd
    BY <1>1, <1>2, <2>1, CrankAssumption DEF Visited, Investors
  <2> QED
    BY <2>2 DEF Served
<1>6. group # {} /\ group \subseteq Roster
  <2>1. tx.page_start \in group
    BY <1>2, CrankAssumption DEF Investors
  <2>2. group \subseteq Roster
    BY <1>2, <1>4, CrankAssumption DEF Investors
  <2> QED
    BY <2>1, <2>2
<1>7. (~db.day_completed)' = (Served' # Roster)
  <2>1. mem.day_completed \in BOOLEAN
    BY AccountFields DEF TypeInv, TypeOK
  <2>2. CASE mem.day_completed
    <3>1. PageEnd = total
      BY <1>1, <2>2 DEF DayInv, PageVisited
    <3>2. Served' = Roster
      BY <1>2, <1>4, <1>5, <3>1, CrankAssumption DEF Investors
    <3> QED
      BY <1>1, <2>2, <3>2
  <2>3. CASE ~mem.day_completed
    <3>1. PageEnd < total
      BY <1>1, <2>3 DEF DayInv, PageVisited
    <3>2. PageEnd \in Roster /\ PageEnd \notin Served'
      BY <1>2, <1>4, <1>5, <3>1
    <3> QED
      BY <1>1, <2>3, <3>2
  <2> QED
    BY <2>1, <2>2, <2>3
<1>8. group \in SUBSET Investors
  OBVIOUS
<1>9. CASE db.day_completed
  <2>1. tx.starting /\ tx.page_start = 0
    BY <1>3, <1>9 DEF TypeInv, CursorOK
  <2>2. clock >= db.last_distribution_ts + SECONDS_PER_DAY
    BY <1>1, <2>1 DEF DayInv, PageDated
  <2>3. db'.last_distribution_ts = clock
    BY <1>1, <2>1 DEF DayInv, PageDated
  <2>4. Served' = group
    BY <1>2, <1>5, <2>1, CrankAssumption DEF Investors
  <2>5. Days!Serve(group)
    BY <1>1, <1>4, <1>6, <1>7, <1>9, <2>2, <2>3, <2>4 DEF Days!Serve, Roster, Served
  <2> HIDE DEF group
  <2> QED
    BY <1>8, <2>5 DEF Days!Serve
<1>10. CASE ~db.day_completed
  <2>1. db'.last_distribution_ts = db.last_distribution_ts
    BY <1>1, <1>3, <1>10 DEF DayInv, PageDated
  <2>2. Visited(db, tx.page_start)
    BY <1>2, <1>3, <1>10 DEF DayInv, Reached
  <2>3. Served = {i \in Investors : i < tx.page_start}
    BY <1>2, <2>2, ServedBelow
  <2>4. Served' = Served \cup group /\ group \cap Served = {}
    BY <1>2, <1>5, <2>3, CrankAssumption DEF Investors
  <2>5. Days!Serve(group)
    BY <1>1, <1>4, <1>6, <1>7, <1>10, <2>1, <2>4 DEF Days!Serve, Roster, Served
  <2> HIDE DEF group
  <2> QED
    BY <1>8, <2>5 DEF Days!Serve
<1> QED
  BY <1>9, <1>10

LEMMA DaysStep == TypeInv /\ DayInv /\ [Next]_vars => [Days!Next]_(Days!dayVars)
<1> SUFFICES ASSUME TypeInv, DayInv, [Next]_vars
             PROVE  [Days!Next]_(Days!dayVars)
  OBVIOUS
<1>1. ASSUME NEW p \in Policies, SetupPolicy(p) PROVE Days!Next
  BY <1>1, SetupPolicyEnrolls DEF Days!Next
<1>2. ASSUME UNCHANGED <<policy, db, clock>> PROVE UNCHANGED Days!dayVars
  BY <1>2, DaysStutter
<1>3. ASSUME NEW start \in PageStarts, NEW size \in PageSizes,
             Begin(start, size) \/ RetryPreviousPage(start, size)
      PROVE  UNCHANGED <<policy, db, clock>>
  BY <1>3 DEF Begin, RetryPreviousPage, vars
<1>4. ASSUME TxStep, ~Commit PROVE UNCHANGED <<policy, db, clock>>
  BY <1>4 DEF TxStep, ScanStream, ClaimAndStartDay, ReadStream, ComputeShares,
     PayInvestor, PayLoopDone, DistributeCarry, SettlePage, CloseDay, Fail
<1>5. CASE Commit
  BY <1>5, CommitServes DEF Days!Next
<1>6. ASSUME NEW amount \in FeeSteps, Accrue(amount) PROVE UNCHANGED Days!dayVars
  <2>1. /\ db'.visits = db.visits /\ db'.day_completed = db.day_completed
        /\ db'.last_distribution_ts = db.last_distribution_ts
        /\ UNCHANGED <<policy, clock>>
    BY <1>6 DEF Accrue, TypeInv, TypeOK, Accounts
  <2> QED
    BY <2>1, DaysStutter
<1>7. ASSUME Tick PROVE Days!Next
  <2>1. clock' \in Nat /\ clock' > clock /\ UNCHANGED <<policy, db>>
    BY <1>7 DEF Tick, TypeInv, TypeOK
  <2> QED
    BY <2>1 DEF Days!Next, Days!Tick
<1>8. ASSUME NEW i \in Investors, Vest(i) \/ TopUp(i)
      PROVE  UNCHANGED <<policy, db, clock>>
  BY <1>8 DEF Vest, TopUp
<1>9. CASE UNCHANGED vars
  BY <1>2, <1>9 DEF vars
<1>10. CASE Drop
  BY <1>2, <1>10 DEF Drop
<1> QED
  BY <1>1, <1>2, <1>3, <1>4, <1>5, <1>6, <1>7, <1>8, <1>9, <1>10 DEF Next

\* The fee router keeps the promise of DistributionDay for every roster,
\* page size and policy: days at least a day apart, everybody served once
\* in each, the day closed by the page that serves the last investor.
THEOREM ImplementsDays == Spec => DayProtocol
<1> QED
  BY DaysInit, DaysStep, DayInvariant, PTL DEF Spec, DayProtocol, Days!Spec

-----------------------------------------------------------------------------
(* Shares of an amount                                                     *)

\* x is at most the part s of t of the amount f; of an empty whole, nothing.
Within(x, f, s, t) == t * x <= f * s /\ (t = 0 => x = 0)

LEMMA ProductOrder ==
    ASSUME NEW a \in Nat, NEW b \in Nat, NEW c \in Nat, b <= c
    PROVE  a * b <= a * c
<1>1. PICK d \in Nat : c = b + d
  <2>1. c - b \in Nat /\ c = b + (c - b)
    OBVIOUS
  <2> QED
    BY <2>1
<1>2. a * c = a * b + a * d
  BY <1>1
<1>3. a * b \in Nat /\ a * d \in Nat
  OBVIOUS
<1> QED
  BY <1>2, <1>3

\* A quotient's multiple does not exceed what was divided.
LEMMA QuotientBelow ==
    ASSUME NEW a \in Nat, NEW t \in Nat, t > 0
    PROVE  t * (a \div t) <= a
  OBVIOUS

\* A share s of the whole t of an amount is at most the amount.
LEMMA WithinWhole ==
    ASSUME NEW x \in Nat, NEW f \in Nat, NEW s \in Nat, NEW t \in Nat,
           s <= t, Within(x, f, s, t)
    PROVE  x <= f
<1>1. CASE t = 0
  BY <1>1 DEF Within
<1>2. CASE t > 0
  <2>1. SUFFICES ASSUME x > f PROVE FALSE
    OBVIOUS
  <2>2. f * s <= f * t
    BY ProductOrder
  <2>3. t * x >= t * (f + 1)
    BY <2>1, ProductOrder
  <2>4. t * (f + 1) = f * t + t
    OBVIOUS
  <2>5. t * x \in Nat /\ f * s \in Nat /\ f * t \in Nat
    OBVIOUS
  <2>6. t * x <= f * s
    BY DEF Within
  <2> QED
    BY <1>2, <2>2, <2>3, <2>4, <2>5, <2>6
<1> QED
  BY <1>1, <1>2

\* A larger part, a larger amount and a smaller payment stay within.
LEMMA WithinMore ==
    ASSUME NEW x \in Nat, NEW f \in Nat, NEW s \in Nat, NEW t \in Nat,
           NEW x2 \in Nat, NEW f2 \in Nat, NEW s2 \in Nat,
           Within(x, f, s, t), x2 <= x, f <= f2, s <= s2
    PROVE  Within(x2, f2, s2, t)
<1>1. t * x2 <= t * x
  BY ProductOrder
<1>2. f * s <= f * s2
  BY ProductOrder
<1>3. s2 * f <= s2 * f2
  BY ProductOrder
<1>4. s2 * f = f * s2 /\ s2 * f2 = f2 * s2
  OBVIOUS
<1>5. /\ t * x2 \in Nat /\ t * x \in Nat /\ f * s \in Nat /\ f * s2 \in Nat
      /\ f2 * s2 \in Nat
  OBVIOUS
<1>6. t * x <= f * s
  BY DEF Within
<1>7. t * x2 <= f2 * s2
  BY <1>1, <1>2, <1>3, <1>4, <1>5, <1>6
<1> QED
  BY <1>7 DEF Within

LEMMA WithinWider ==
    ASSUME NEW x \in Nat, NEW f \in Nat, NEW s \in Nat, NEW t \in Nat, NEW s2 \in Nat,
           Within(x, f, s, t), s <= s2
    PROVE  Within(x, f, s2, t)
<1>1. x <= x /\ f <= f
  OBVIOUS
<1> QED
  BY <1>1, WithinMore

\* Rounding down each of two neighbouring shares stays within both.
LEMMA WithinNext ==
    ASSUME NEW x \in Nat, NEW f \in Nat, NEW s \in Nat, NEW p \in Nat, NEW t \in Nat,
           Within(x, f, s, t)
    PROVE  Within(x + ProRata(f, p, t), f, s + p, t)
<1> DEFINE share == ProRata(f, p, t)
<1>1. share \in Nat
  BY ProRataNat
<1>2. f * p \in Nat
  OBVIOUS
<1>3. t * share <= f * p
  <2>1. CASE t = 0
    BY <2>1, <1>1, <1>2
  <2>2. CASE t > 0
    BY <2>2, <1>2, QuotientBelow DEF ProRata
  <2> QED
    BY <2>1, <2>2
<1>4. t = 0 => share = 0
  BY DEF ProRata
<1> HIDE DEF share
<1>5. t * (x + share) = t * x + t * share
  BY <1>1
<1>6. f * (s + p) = f * s + f * p
  OBVIOUS
<1>7. /\ t * x \in Nat /\ t * share \in Nat /\ f * s \in Nat
  BY <1>1
<1>8. t * x <= f * s
  BY DEF Within
<1>9. t * (x + share) <= f * (s + p)
  BY <1>2, <1>3, <1>5, <1>6, <1>7, <1>8
<1>10. Within(x + share, f, s + p, t)
  BY <1>1, <1>4, <1>9 DEF Within
<1> QED
  BY <1>10 DEF share

\* A part of the whole gets at most the whole amount.
LEMMA ProRataBelow ==
    ASSUME NEW f \in Nat, NEW p \in Nat, NEW t \in Nat, p <= t
    PROVE  ProRata(f, p, t) \in Nat /\ ProRata(f, p, t) <= f
<1>1. Within(0, f, 0, t)
  BY DEF Within
<1>2. ProRata(f, p, t) \in Nat
  BY ProRataNat
<1>3. Within(0 + ProRata(f, p, t), f, 0 + p, t)
  BY <1>1, WithinNext
<1>4. Within(ProRata(f, p, t), f, p, t)
  BY <1>2, <1>3
<1> QED
  BY <1>2, <1>4, WithinWhole

\* The investors' fee grows with the claim and never exceeds it.
LEMMA FeeBounds ==
    ASSUME TypeOK, PolicyOK, policy # NoPolicy,
           NEW claimed \in Nat, NEW more \in Nat, NEW total \in Nat, claimed <= more
    PROVE  LET bps == EligibleShare(policy, total)
           IN /\ InvestorFee(claimed, bps) \in Nat
              /\ InvestorFee(more, bps) \in Nat
              /\ InvestorFee(claimed, bps) <= claimed
              /\ InvestorFee(claimed, bps) <= InvestorFee(more, bps)
<1> DEFINE bps == EligibleShare(policy, total)
           B == BASIS_POINTS_DIVISOR
           fee == InvestorFee(claimed, bps)
           wide == InvestorFee(more, bps)
<1>1. fee \in Nat /\ wide \in Nat
  BY InvestorFeeNat
<1>2. B \in Nat /\ B > 0
  BY CrankAssumption
<1>3. bps \in Nat /\ bps <= B
  <2>1. total * BASIS_POINTS_DIVISOR \in Nat
    BY ProductNat, CrankAssumption
  <2>2. (total * BASIS_POINTS_DIVISOR) \div policy.y0_total_allocation \in Nat
    BY <2>1, QuotientNat, PolicyFields
  <2> QED
    BY <2>2, PolicyFields, CrankAssumption DEF EligibleShare, Least
<1>4. fee = (claimed * bps) \div B /\ wide = (more * bps) \div B
  BY DEF InvestorFee
<1> HIDE DEF bps, B, fee, wide
<1>5. claimed * bps \in Nat /\ more * bps \in Nat
  BY <1>3
<1>6. B * fee <= claimed * bps
  BY <1>2, <1>4, <1>5, QuotientBelow
<1>7. fee <= claimed
  <2>1. Within(fee, claimed, bps, B)
    BY <1>2, <1>6 DEF Within
  <2> QED
    BY <1>1, <1>2, <1>3, <2>1, WithinWhole
<1>8. claimed * bps <= more * bps
  <2>1. bps * claimed <= bps * more
    BY <1>3, ProductOrder
  <2> QED
    BY <1>3, <2>1
<1>9. fee <= wide
  BY <1>2, <1>4, <1>5, <1>8
<1> QED
  BY <1>1, <1>7, <1>9 DEF bps, fee, wide
\* Nothing is within any share.
LEMMA WithinNone ==
    ASSUME NEW f \in Nat, NEW s \in Nat, NEW t \in Nat
    PROVE  Within(0, f, s, t)
<1>1. f * s \in Nat
  OBVIOUS
<1> QED
  BY <1>1 DEF Within

-----------------------------------------------------------------------------
(* The invariant.  The day's running sums of locked tokens, taken when it   *)
(* started, bound what its pages read; so payouts, dust and the carry-over  *)
(* of the pages below the cursor stay within the share of the investors     *)
(* below the cursor.                                                        *)

\* The running sums of these accounts cover the streams below k.
Scanned(a, k) ==
    /\ a.scanned[0] = 0
    /\ \A i \in 0 .. k : a.scanned[i] <= a.scanned[k]
    /\ \A i \in Investors : i < k => a.scanned[i] + locked[i] <= a.scanned[i + 1]

\* What an open day knows of its streams, and what the treasury holds for it.
OpenDay(a) ==
    /\ Scanned(a, policy.total_investors)
    /\ a.current_day_total_locked_all = a.scanned[policy.total_investors]
    /\ a.treasury + a.current_day_distributed >= a.current_day_total_claimed

\* Nobody from k on has been paid today.
PaidBelow(a, k) == \A i \in a.paid_investor_bitmap : i < k

\* Payouts and carried dust stay within the share, in the fee f, of the
\* investors below k.
Shared(a, f, k) ==
    Within(a.current_day_distributed + a.current_day_carry_over, f,
           a.scanned[k], a.current_day_total_locked_all)

DayShares(a) ==
    IF a.day_completed
    THEN a.treasury >= a.persistent_carry_over
    ELSE /\ OpenDay(a)
         /\ PaidBelow(a, a.pagination_cursor)
         /\ Shared(a, InvestorPool(a), a.pagination_cursor)

\* No stream of the page has been read, and no dust has fallen.
NothingRead == tx.sums[0] = 0 /\ tx.page_dust = 0

ScanShares ==
    /\ mem.treasury >= mem.persistent_carry_over
    /\ Scanned(mem, tx.idx)
    /\ NothingRead

\* The fee the page will compute, or has computed.
PageFee == InvestorFee(tx.claimed_quote,
                       EligibleShare(policy, mem.current_day_total_locked_all))

\* The first k running sums of the page grow, within those of the day.
PageSums(k) ==
    \A j \in 0 .. k :
        /\ mem.scanned[tx.page_start] + tx.sums[j] <= mem.scanned[tx.page_start + j]
        /\ tx.sums[j] <= tx.sums[k]

ReadShares ==
    /\ PaidBelow(mem, tx.page_start)
    /\ Shared(mem, PageFee, tx.page_start)
    /\ NothingRead
    /\ PageSums(tx.idx)

\* Once the shares are computed, the carry-over is the transaction's.
PageShares ==
    /\ tx.fee = PageFee
    /\ mem.current_day_carry_over = 0
    /\ tx.carry_distributed <= tx.carry
    /\ tx.sums[0] = 0
    /\ PageSums(tx.to_process)

PayShares ==
    /\ PageShares
    /\ PaidBelow(mem, tx.page_start + tx.idx)
    /\ Within(mem.current_day_distributed + tx.page_dust + tx.carry, tx.fee,
              mem.scanned[tx.page_start] + tx.sums[tx.idx],
              mem.current_day_total_locked_all)

\* Of the carry-over `paid' has been handed out.
CarryShares ==
    /\ PageShares
    /\ PaidBelow(mem, PageEnd)
    /\ \E paid \in 0 .. mem.current_day_distributed :
         /\ Within(paid, tx.carry_distributed, tx.sums[tx.idx], PageLocked)
         /\ Within(mem.current_day_distributed - paid + tx.page_dust + tx.carry,
                   tx.fee, mem.scanned[PageEnd], mem.current_day_total_locked_all)

CloseShares ==
    /\ tx.fee = PageFee
    /\ PaidBelow(mem, PageEnd)
    /\ Shared(mem, tx.fee, PageEnd)

ShareInv ==
    /\ DayShares(db)
    /\ db.scanned[0] = 0 /\ mem.scanned[0] = 0
    /\ tx.pc = "scan" => ScanShares
    /\ tx.pc \in {"read", "pay", "carry", "close"} =>
         OpenDay(mem) /\ tx.claimed_quote <= mem.current_day_total_claimed
    /\ tx.pc = "read" => ReadShares
    /\ tx.pc = "pay" => PayShares
    /\ tx.pc = "carry" => CarryShares
    /\ tx.pc = "close" => CloseShares
    /\ tx.pc = "commit" => DayShares(mem)

LEMMA ShareInit == Init => ShareInv
<1> SUFFICES ASSUME Init PROVE ShareInv
  OBVIOUS
<1>1. tx.pc = "idle" /\ db = FreshAccounts /\ mem = FreshAccounts
  BY DEF Init, Idle
<1>2. /\ FreshAccounts.day_completed /\ FreshAccounts.treasury = 0
      /\ FreshAccounts.persistent_carry_over = 0 /\ FreshAccounts.scanned[0] = 0
  BY CrankAssumption DEF FreshAccounts, NoSums
<1> QED
  BY <1>1, <1>2 DEF ShareInv, DayShares

\* The numbers the invariant speaks of.
LEMMA ShareFields ==
    ASSUME TypeInv
    PROVE  /\ mem.treasury \in Nat /\ mem.current_day_distributed \in Nat
           /\ mem.current_day_carry_over \in Nat
           /\ mem.current_day_total_claimed \in Nat
           /\ mem.current_day_total_locked_all \in Nat
           /\ mem.persistent_carry_over \in Nat
           /\ mem.scanned \in [0 .. MaxInvestors -> Nat]
           /\ tx.claimed_quote \in Nat /\ tx.fee \in Nat /\ tx.carry \in Nat
           /\ tx.carry_distributed \in Nat /\ tx.page_dust \in Nat
           /\ tx.sums \in [0 .. MaxInvestors -> Nat]
           /\ tx.page_start \in Nat /\ tx.to_process \in Nat /\ tx.idx \in Nat
           /\ locked \in [Investors -> Nat]
  BY AccountFields, TransactionFields DEF TypeInv, TypeOK

\* Steps inside a transaction leave the committed day alone.
LEMMA DayFrame ==
    ASSUME DayShares(db), UNCHANGED <<policy, db, locked>>
    PROVE  DayShares(db)'
  BY DEF DayShares, OpenDay, Scanned, PaidBelow, Shared, Within, InvestorPool

\* Any abandoned transaction leaves the committed day.
LEMMA RevertShares ==
    ASSUME ShareInv, Revert, UNCHANGED <<policy, db, locked>>
    PROVE  ShareInv'
<1>1. tx'.pc = "idle" /\ mem' = db'
  BY DEF Revert, Idle
<1>2. DayShares(db)'
  BY DayFrame DEF ShareInv
<1> QED
  BY <1>1, <1>2 DEF ShareInv

LEMMA ScanShare ==
    ASSUME TypeInv, ShareInv, ScanStream
    PROVE  ShareInv'
<1>a. /\ mem.scanned \in [0 .. MaxInvestors -> Nat] /\ locked \in [Investors -> Nat]
      /\ tx.idx \in Nat
  BY ShareFields
<1>1. /\ tx.pc = "scan" /\ tx'.pc = "scan" /\ tx.idx < policy.total_investors
      /\ UNCHANGED <<policy, db, locked>>
      /\ tx'.sums = tx.sums /\ tx'.page_dust = tx.page_dust
      /\ tx'.idx = tx.idx + 1
  BY TransactionFields DEF ScanStream, TypeInv, TypeOK
<1>2. policy # NoPolicy
  BY <1>1 DEF TypeInv, ControlOK
<1>3. policy.total_investors \in Nat /\ policy.total_investors <= MaxInvestors
  BY <1>2, PolicyFields DEF TypeInv
<1> DEFINE k == tx.idx
           sum == mem.scanned[k] + locked[k]
<1>4. /\ k \in 0 .. MaxInvestors /\ k + 1 \in 0 .. MaxInvestors /\ k \in Investors
      /\ k \in Nat
  <2>1. MaxInvestors \in Nat
    BY CrankAssumption
  <2>2. k \in Nat /\ k < MaxInvestors
    BY <1>1, <1>3, <1>a, <2>1
  <2> HIDE DEF k
  <2> QED
    BY <2>1, <2>2 DEF Investors
<1>5. /\ mem'.scanned = [mem.scanned EXCEPT ![k + 1] = sum]
      /\ mem'.treasury = mem.treasury
      /\ mem'.persistent_carry_over = mem.persistent_carry_over
  BY DEF ScanStream, TypeInv, TypeOK, Accounts
<1>b. mem.scanned[k] \in Nat
  BY <1>4, <1>a
<1>c. locked[k] \in Nat
  BY <1>4, <1>a
<1>6. mem.scanned[k] \in Nat /\ locked[k] \in Nat /\ sum \in Nat
  BY <1>b, <1>c
<1> HIDE DEF sum
<1>7. ScanShares
  BY <1>1 DEF ShareInv
<1>8. ScanShares'
  <2>1. Scanned(mem, tx.idx)'
    <3>1. mem'.scanned[0] = 0
      BY <1>4, <1>5, <1>7, <1>a DEF ScanShares, Scanned
    <3>2. mem'.scanned[k + 1] = sum
      BY <1>4, <1>5, <1>a
    <3>3. ASSUME NEW i \in 0 .. k
          PROVE  mem'.scanned[i] = mem.scanned[i]
      BY <1>4, <1>5, <1>a, <3>3
    <3>4. mem.scanned[k] <= sum
      BY <1>6 DEF sum
    <3>5. ASSUME NEW i \in 0 .. k + 1
          PROVE  mem'.scanned[i] <= mem'.scanned[k + 1]
      <4>1. CASE i = k + 1
        BY <4>1, <3>2, <1>6
      <4>2. CASE i \in 0 .. k
        <5>1. mem.scanned[i] <= mem.scanned[k] /\ mem.scanned[i] \in Nat
          BY <4>2, <1>4, <1>7, <1>a, CrankAssumption DEF ScanShares, Scanned
        <5> QED
          BY <5>1, <3>2, <3>3, <3>4, <4>2, <1>6
      <4> QED
        BY <3>5, <4>1, <4>2, <1>4
    <3>6. ASSUME NEW i \in Investors, i < k + 1
          PROVE  mem'.scanned[i] + locked[i] <= mem'.scanned[i + 1]
      <4>1. CASE i = k
        BY <4>1, <3>2, <3>3, <1>4, <1>6 DEF sum
      <4>2. CASE i < k
        <5>1. i \in 0 .. k /\ i + 1 \in 0 .. k
          BY <4>2, <1>4, CrankAssumption DEF Investors
        <5> QED
          BY <5>1, <3>3, <4>2, <1>7 DEF ScanShares, Scanned
      <4> QED
        BY <3>6, <4>1, <4>2, <1>4, CrankAssumption DEF Investors
    <3> QED
      BY <3>1, <3>5, <3>6, <1>1 DEF Scanned
  <2> QED
    BY <2>1, <1>1, <1>5, <1>7 DEF ScanShares, NothingRead
<1>9. DayShares(db)'
  BY <1>1, DayFrame DEF ShareInv
<1>10. mem'.scanned[0] = 0 /\ db'.scanned[0] = 0
  BY <1>8, <1>1 DEF ScanShares, Scanned, ShareInv
<1> QED
  BY <1>1, <1>8, <1>9, <1>10 DEF ShareInv
\* The fields a claim that starts a day writes.
LEMMA DayStarted ==
    ASSUME TypeInv, ClaimAndStartDay
    PROVE  /\ mem'.treasury = mem.treasury + tx'.claimed_quote
           /\ mem'.current_day_distributed = 0
           /\ mem'.current_day_carry_over = 0
           /\ mem'.current_day_total_claimed = tx'.claimed_quote + mem.persistent_carry_over
           /\ mem'.current_day_total_locked_all = mem.scanned[policy.total_investors]
           /\ mem'.scanned = mem.scanned
           /\ mem'.paid_investor_bitmap = {}
           /\ tx'.claimed_quote = mem.unclaimed
           /\ tx'.sums = tx.sums /\ tx'.page_dust = tx.page_dust
           /\ tx'.idx = 0 /\ tx'.page_start = tx.page_start
           /\ tx.idx = policy.total_investors
           /\ tx.pc = "scan" /\ tx'.pc = "read"
           /\ UNCHANGED <<policy, db, locked>>
<1>1. mem \in Accounts /\ tx \in Transactions
  BY DEF TypeInv, TypeOK
<1> DEFINE day == StartNewDay(mem, clock, mem.unclaimed, TotalLocked)
<1>2. /\ day.treasury = mem.treasury
      /\ day.current_day_distributed = 0
      /\ day.current_day_carry_over = 0
      /\ day.current_day_total_claimed = mem.unclaimed + mem.persistent_carry_over
      /\ day.current_day_total_locked_all = TotalLocked
      /\ day.scanned = mem.scanned
      /\ day.paid_investor_bitmap = {}
  BY <1>1 DEF StartNewDay, Accounts
<1>3. DOMAIN day = DOMAIN mem
  BY DEF StartNewDay
<1> HIDE DEF day
<1>4. mem' = [day EXCEPT !.treasury = @ + mem.unclaimed, !.unclaimed = 0,
                         !.total_fees_claimed = @ + mem.unclaimed]
  BY DEF ClaimAndStartDay, day
<1>5. /\ mem'.treasury = mem.treasury + mem.unclaimed
      /\ mem'.current_day_distributed = 0
      /\ mem'.current_day_carry_over = 0
      /\ mem'.current_day_total_claimed = mem.unclaimed + mem.persistent_carry_over
      /\ mem'.current_day_total_locked_all = TotalLocked
      /\ mem'.scanned = mem.scanned
      /\ mem'.paid_investor_bitmap = {}
  BY <1>1, <1>2, <1>3, <1>4 DEF Accounts
<1>6. /\ tx.pc = "scan" /\ tx.idx = policy.total_investors
      /\ tx' = [tx EXCEPT !.pc = "read", !.idx = 0, !.claimed_quote = mem.unclaimed]
      /\ UNCHANGED <<policy, db, locked>>
  BY DEF ClaimAndStartDay
<1>7. /\ tx'.claimed_quote = mem.unclaimed
      /\ tx'.sums = tx.sums /\ tx'.page_dust = tx.page_dust
      /\ tx'.idx = 0 /\ tx'.page_start = tx.page_start /\ tx'.pc = "read"
  BY <1>1, <1>6 DEF Transactions
<1> QED
  BY <1>5, <1>6, <1>7 DEF TotalLocked

LEMMA ClaimShare ==
    ASSUME TypeInv, ShareInv, ClaimAndStartDay
    PROVE  ShareInv'
<1>1. /\ mem'.treasury = mem.treasury + tx'.claimed_quote
      /\ mem'.current_day_distributed = 0
      /\ mem'.current_day_carry_over = 0
      /\ mem'.current_day_total_claimed = tx'.claimed_quote + mem.persistent_carry_over
      /\ mem'.current_day_total_locked_all = mem.scanned[policy.total_investors]
      /\ mem'.scanned = mem.scanned
      /\ mem'.paid_investor_bitmap = {}
      /\ tx'.claimed_quote = mem.unclaimed
      /\ tx'.sums = tx.sums /\ tx'.page_dust = tx.page_dust
      /\ tx'.idx = 0 /\ tx'.page_start = tx.page_start
      /\ tx.idx = policy.total_investors
      /\ tx.pc = "scan" /\ tx'.pc = "read"
      /\ UNCHANGED <<policy, db, locked>>
  BY DayStarted
<1>2. /\ ScanShares
      /\ db.scanned[0] = 0
      /\ mem.scanned[0] = 0
      /\ DayShares(db)
  BY <1>1 DEF ShareInv
<1>3. /\ mem.treasury \in Nat /\ mem.persistent_carry_over \in Nat
      /\ mem.unclaimed \in Nat /\ mem.scanned \in [0 .. MaxInvestors -> Nat]
  BY AccountFields DEF TypeInv, TypeOK
<1>4. policy # NoPolicy /\ tx.page_start = 0
  BY <1>1 DEF TypeInv, ControlOK, CursorOK
<1>5. /\ policy.total_investors \in 0 .. MaxInvestors
      /\ 0 \in 0 .. MaxInvestors
  BY <1>4, PolicyFields, CrankAssumption DEF TypeInv
<1>6. /\ Scanned(mem, policy.total_investors)
      /\ mem.treasury >= mem.persistent_carry_over
      /\ NothingRead
  BY <1>1, <1>2 DEF ScanShares
<1>7. OpenDay(mem)'
  <2>1. Scanned(mem, policy.total_investors)'
    BY <1>1, <1>6 DEF Scanned
  <2>2. mem'.treasury + mem'.current_day_distributed >= mem'.current_day_total_claimed
    BY <1>1, <1>3, <1>6
  <2> QED
    BY <1>1, <2>1, <2>2 DEF OpenDay
<1>8. tx'.claimed_quote <= mem'.current_day_total_claimed
  BY <1>1, <1>3
<1>9. ReadShares'
  <2>1. PaidBelow(mem, tx.page_start)'
    BY <1>1 DEF PaidBelow
  <2>2. PageFee' \in Nat
    <3> DEFINE total == mem'.current_day_total_locked_all
    <3>1. total \in Nat
      BY <1>1, <1>3, <1>5
    <3>2. TypeOK /\ PolicyOK
      BY DEF TypeInv
    <3> HIDE DEF total
    <3>3. InvestorFee(mem.unclaimed, EligibleShare(policy, total)) \in Nat
      BY <1>3, <1>4, <3>1, <3>2, InvestorFeeNat
    <3> QED
      BY <3>3, <1>1 DEF PageFee, total, InvestorFee, EligibleShare
  <2>3. Shared(mem, PageFee, tx.page_start)'
    <3>1. /\ mem'.scanned[tx'.page_start] \in Nat
          /\ mem'.current_day_total_locked_all \in Nat
      BY <1>1, <1>3, <1>4, <1>5
    <3>2. Within(0, PageFee', mem'.scanned[tx'.page_start],
                 mem'.current_day_total_locked_all)
      BY <2>2, <3>1, WithinNone
    <3>3. mem'.current_day_distributed + mem'.current_day_carry_over = 0
      BY <1>1
    <3> QED
      BY <3>2, <3>3 DEF Shared
  <2>4. NothingRead'
    BY <1>1, <1>6 DEF NothingRead
  <2>5. PageSums(tx.idx)'
    <3>1. tx'.idx = 0 /\ tx'.sums[0] = 0 /\ mem'.scanned[tx'.page_start] = 0
      BY <1>1, <1>2, <1>4, <2>4 DEF NothingRead
    <3>2. ASSUME NEW j \in 0 .. tx'.idx
          PROVE  /\ mem'.scanned[tx'.page_start] + tx'.sums[j] <= mem'.scanned[tx'.page_start + j]
                 /\ tx'.sums[j] <= tx'.sums[tx'.idx]
      <4>1. j = 0 /\ tx'.page_start + j = tx'.page_start
        BY <3>1, <1>1, <1>4
      <4> QED
        BY <3>1, <4>1
    <3> QED
      BY <3>2 DEF PageSums
  <2> QED
    BY <2>1, <2>3, <2>4, <2>5 DEF ReadShares
<1>10. DayShares(db)'
  BY <1>1, <1>2, DayFrame
<1> QED
  BY <1>1, <1>2, <1>7, <1>8, <1>9, <1>10 DEF ShareInv
\* A step inside a page that keeps the day's roster has only to say how far
\* the page has come.
LEMMA PageKept ==
    ASSUME TypeInv, ShareInv,
           tx.pc \in {"read", "pay", "carry"},
           tx'.pc \in {"read", "pay", "carry", "close"},
           UNCHANGED <<policy, db, locked>>,
           tx'.claimed_quote = tx.claimed_quote,
           mem'.scanned = mem.scanned,
           mem'.current_day_total_claimed = mem.current_day_total_claimed,
           mem'.current_day_total_locked_all = mem.current_day_total_locked_all,
           mem'.treasury + mem'.current_day_distributed
              = mem.treasury + mem.current_day_distributed,
           tx'.pc = "read" => ReadShares',
           tx'.pc = "pay" => PayShares',
           tx'.pc = "carry" => CarryShares',
           tx'.pc = "close" => CloseShares'
    PROVE  ShareInv'
<1>1. OpenDay(mem) /\ tx.claimed_quote <= mem.current_day_total_claimed
  BY DEF ShareInv
<1>2. Scanned(mem, policy.total_investors)'
  BY <1>1 DEF OpenDay, Scanned
<1>3. OpenDay(mem)'
  BY <1>1, <1>2 DEF OpenDay
<1>4. DayShares(db)'
  BY DayFrame DEF ShareInv
<1>5. db'.scanned[0] = 0 /\ mem'.scanned[0] = 0
  BY DEF ShareInv
<1> QED
  BY <1>1, <1>3, <1>4, <1>5 DEF ShareInv

LEMMA ReadShare ==
    ASSUME TypeInv, ShareInv, ReadStream
    PROVE  ShareInv'
<1> DEFINE k == tx.idx
           s == tx.page_start
           sum == tx.sums[k] + locked[s + k]
<1>1. /\ tx.pc = "read" /\ tx.idx < tx.to_process
      /\ tx' = [tx EXCEPT !.sums[tx.idx + 1] = sum, !.idx = @ + 1]
      /\ UNCHANGED <<policy, db, mem, locked>>
  BY DEF ReadStream
<1>2. /\ k \in 0 .. MaxInvestors - 1 /\ k \in 0 .. MaxInvestors
      /\ k + 1 \in 0 .. MaxInvestors
      /\ s + k \in Investors /\ s + k < policy.total_investors
  BY <1>1, PageIndex
<1>3. /\ tx.sums \in [0 .. MaxInvestors -> Nat] /\ locked \in [Investors -> Nat]
      /\ mem.scanned \in [0 .. MaxInvestors -> Nat]
      /\ s \in Nat /\ k \in Nat
  BY ShareFields
<1> HIDE DEF sum
<1>4. /\ tx'.sums = [tx.sums EXCEPT ![k + 1] = sum] /\ tx'.idx = k + 1
      /\ tx'.pc = "read" /\ tx'.page_start = s /\ tx'.page_dust = tx.page_dust
      /\ tx'.claimed_quote = tx.claimed_quote
  BY <1>1 DEF TypeInv, TypeOK, Transactions
<1>5. ReadShares /\ OpenDay(mem)
  BY <1>1 DEF ShareInv
<1>6. PageFee' = PageFee
  BY <1>1, <1>4 DEF PageFee, InvestorFee, EligibleShare
<1>7. NothingRead'
  <2>1. tx'.sums[0] = tx.sums[0]
    BY <1>2, <1>3, <1>4
  <2> QED
    BY <2>1, <1>4, <1>5 DEF ReadShares, NothingRead
<1>8. PageSums(tx.idx)'
  <2>1. \A j \in 0 .. k : /\ mem.scanned[s] + tx.sums[j] <= mem.scanned[s + j]
                           /\ tx.sums[j] <= tx.sums[k]
    BY <1>5 DEF ReadShares, PageSums
  <2>2. tx.sums[k] \in Nat
    BY <1>2, <1>3
  <2>3. locked[s + k] \in Nat
    BY <1>2, <1>3
  <2>3a. MaxInvestors \in Nat /\ s + k <= MaxInvestors - 1
    BY <1>2, <1>3, CrankAssumption DEF Investors
  <2>3b. s \in Nat /\ k \in Nat
    BY <1>3
  <2>4. s \in 0 .. MaxInvestors /\ s + k \in 0 .. MaxInvestors
        /\ s + k + 1 \in 0 .. MaxInvestors /\ s + (k + 1) = (s + k) + 1
    BY <2>3a, <2>3b
  <2>5. mem.scanned[s] \in Nat /\ mem.scanned[s + k] \in Nat
    BY <2>4, <1>3
  <2>5a. mem.scanned[s + (k + 1)] \in Nat
    BY <2>4, <1>3
  <2>6. mem.scanned[s + k] + locked[s + k] <= mem.scanned[s + (k + 1)]
    BY <1>2, <1>5, <2>4 DEF OpenDay, Scanned
  <2>7. mem.scanned[s] + tx.sums[k] <= mem.scanned[s + k]
    BY <2>1, <1>3
  <2>8. mem.scanned[s] + sum <= mem.scanned[s + (k + 1)]
    BY <2>2, <2>3, <2>5, <2>5a, <2>6, <2>7 DEF sum
  <2>9. tx'.sums[k + 1] = sum
    BY <1>2, <1>3, <1>4
  <2>10. ASSUME NEW j \in 0 .. k PROVE tx'.sums[j] = tx.sums[j]
    BY <1>2, <1>3, <1>4
  <2>11. ASSUME NEW j \in 0 .. k + 1
         PROVE  /\ mem.scanned[s] + tx'.sums[j] <= mem.scanned[s + j]
                /\ tx'.sums[j] <= tx'.sums[k + 1]
    <3>0. tx.sums[k] <= sum /\ sum \in Nat
      BY <2>2, <2>3 DEF sum
    <3>1. CASE j = k + 1
      BY <3>0, <3>1, <2>8, <2>9
    <3>2. CASE j \in 0 .. k
      <4>0. j \in 0 .. MaxInvestors
        BY <3>2, <1>2, <2>3a, <2>3b
      <4>a. tx.sums[j] \in Nat
        BY <4>0, <1>3
      <4>1. tx.sums[j] \in Nat /\ tx.sums[j] <= tx.sums[k] /\ tx'.sums[j] = tx.sums[j]
        BY <4>a, <3>2, <2>1, <2>10
      <4>2. tx'.sums[j] <= tx'.sums[k + 1]
        BY <4>1, <2>2, <2>9, <3>0
      <4> QED
        BY <3>2, <4>1, <4>2, <2>1
    <3> QED
      BY <2>11, <3>1, <3>2, <1>3
  <2> QED
    BY <2>11, <1>1, <1>4 DEF PageSums
<1>9. ReadShares'
  BY <1>1, <1>4, <1>5, <1>6, <1>7, <1>8 DEF ReadShares, PaidBelow, Shared
<1> QED
  BY <1>1, <1>4, <1>9, PageKept

\* What the page reads of its investors, the running sums of the day bound.
LEMMA PageBounds ==
    ASSUME TypeInv, OpenDay(mem), tx.pc \in {"read", "pay", "carry", "close"},
           NEW k \in 0 .. tx.to_process
    PROVE  /\ tx.page_start + k \in 0 .. MaxInvestors
           /\ tx.page_start \in 0 .. MaxInvestors
           /\ k \in 0 .. MaxInvestors
           /\ mem.scanned[tx.page_start] \in Nat
           /\ mem.scanned[tx.page_start + k] \in Nat
           /\ mem.scanned[tx.page_start + k] <= mem.current_day_total_locked_all
           /\ mem.scanned[tx.page_start] <= mem.current_day_total_locked_all
           /\ tx.sums[k] \in Nat
<1>1. /\ policy.total_investors \in Nat
      /\ policy.total_investors <= MaxInvestors
  BY PolicyFields DEF TypeInv, ControlOK
<1>2. /\ tx.page_start \in Nat /\ tx.to_process \in Nat
      /\ tx.sums \in [0 .. MaxInvestors -> Nat]
      /\ mem.scanned \in [0 .. MaxInvestors -> Nat]
  BY ShareFields
<1>3. tx.page_start + tx.to_process <= policy.total_investors
  BY PageEndBounds DEF PageEnd
<1>4. /\ tx.page_start + k \in 0 .. policy.total_investors
      /\ tx.page_start \in 0 .. policy.total_investors
      /\ k \in 0 .. MaxInvestors
  BY <1>1, <1>2, <1>3, CrankAssumption
<1>5. /\ tx.page_start + k \in 0 .. MaxInvestors
      /\ tx.page_start \in 0 .. MaxInvestors
  BY <1>1, <1>4, CrankAssumption
<1>6. /\ mem.scanned[tx.page_start] \in Nat
      /\ mem.scanned[tx.page_start + k] \in Nat
      /\ tx.sums[k] \in Nat
  BY <1>2, <1>4, <1>5
<1>7. /\ mem.scanned[tx.page_start + k] <= mem.scanned[policy.total_investors]
      /\ mem.scanned[tx.page_start] <= mem.scanned[policy.total_investors]
  BY <1>4 DEF OpenDay, Scanned
<1> QED
  BY <1>4, <1>5, <1>6, <1>7 DEF OpenDay
LEMMA ComputeShare ==
    ASSUME TypeInv, ShareInv, ComputeShares
    PROVE  ShareInv'
<1> DEFINE T == mem.current_day_total_locked_all
           carry == mem.current_day_carry_over
           cd == IF carry >= policy.min_payout_lamports
                 THEN ProRata(carry, PageLocked, T) ELSE 0
           D == mem.current_day_distributed
           s == tx.page_start
<1>1. /\ tx.pc = "read" /\ tx.idx = tx.to_process
      /\ UNCHANGED <<policy, db, locked>>
      /\ tx' = [tx EXCEPT !.pc = "pay", !.idx = 0, !.fee = PageFee,
                          !.carry = carry, !.carry_distributed = cd]
      /\ mem' = [mem EXCEPT !.current_day_carry_over = 0]
  BY DEF ComputeShares, PageFee
<1> HIDE DEF cd
<1>2. /\ tx'.pc = "pay" /\ tx'.idx = 0 /\ tx'.fee = PageFee /\ tx'.carry = carry
      /\ tx'.carry_distributed = cd /\ tx'.claimed_quote = tx.claimed_quote
      /\ tx'.sums = tx.sums /\ tx'.page_dust = tx.page_dust
      /\ tx'.page_start = s /\ tx'.to_process = tx.to_process
  BY <1>1 DEF TypeInv, TypeOK, Transactions
<1>3. /\ mem'.current_day_carry_over = 0 /\ mem'.scanned = mem.scanned
      /\ mem'.current_day_distributed = D /\ mem'.treasury = mem.treasury
      /\ mem'.current_day_total_claimed = mem.current_day_total_claimed
      /\ mem'.current_day_total_locked_all = T
      /\ mem'.paid_investor_bitmap = mem.paid_investor_bitmap
  BY <1>1 DEF TypeInv, TypeOK, Accounts
<1>4. ReadShares /\ OpenDay(mem)
  BY <1>1 DEF ShareInv
<1>5. /\ carry \in Nat /\ T \in Nat /\ D \in Nat /\ s \in Nat /\ tx.to_process \in Nat
  BY ShareFields
<1>6. PageFee' = PageFee
  BY <1>1, <1>2, <1>3 DEF PageFee, InvestorFee, EligibleShare
<1>7. PageSums(tx.to_process) /\ NothingRead
  BY <1>1, <1>4 DEF ReadShares
<1>8. cd <= carry
  <2>1. /\ tx.sums[tx.to_process] \in Nat
        /\ mem.scanned[s] \in Nat
        /\ mem.scanned[s + tx.to_process] \in Nat
        /\ mem.scanned[s + tx.to_process] <= T
    BY <1>1, <1>4, <1>5, PageBounds
  <2>2. mem.scanned[s] + tx.sums[tx.to_process] <= mem.scanned[s + tx.to_process]
    BY <1>5, <1>7 DEF PageSums
  <2>3. PageLocked \in Nat /\ PageLocked <= T
    BY <2>1, <2>2, <1>5 DEF PageLocked
  <2>4. ProRata(carry, PageLocked, T) <= carry
    BY <2>3, <1>5, ProRataBelow
  <2> QED
    BY <2>4, <1>5 DEF cd
<1>9. PageShares'
  <2>1. PageSums(tx.to_process)'
    BY <1>2, <1>3, <1>7 DEF PageSums
  <2> QED
    BY <2>1, <1>2, <1>3, <1>6, <1>7, <1>8 DEF PageShares, NothingRead
<1>10. Within(mem.current_day_distributed + tx.page_dust + tx.carry, tx.fee,
              mem.scanned[tx.page_start] + tx.sums[tx.idx],
              mem.current_day_total_locked_all)'
  <2>1. Within(D + carry, PageFee, mem.scanned[s], T)
    BY <1>4 DEF ReadShares, Shared
  <2>2. mem.scanned[s] \in Nat
    BY <1>1, <1>4, <1>5, PageBounds
  <2>3. tx'.page_dust = 0 /\ tx'.sums[tx'.idx] = 0
    BY <1>2, <1>7 DEF NothingRead
  <2>4. D + tx'.page_dust + tx'.carry = D + carry
    BY <2>3, <1>2, <1>5
  <2>5. mem.scanned[s] + tx'.sums[tx'.idx] = mem.scanned[s]
    BY <2>2, <2>3
  <2> QED
    BY <2>1, <2>4, <2>5, <1>2, <1>3
<1>11. PaidBelow(mem, tx.page_start + tx.idx)'
  <2>1. PaidBelow(mem, s)
    BY <1>4 DEF ReadShares
  <2>2. tx'.page_start + tx'.idx = s
    BY <1>2, <1>5
  <2> QED
    BY <2>1, <2>2, <1>3 DEF PaidBelow
<1>12. PayShares'
  BY <1>9, <1>10, <1>11 DEF PayShares
<1> QED
  BY <1>1, <1>2, <1>3, <1>12, PageKept

\* A transfer to an investor as the accounts see it.
LEMMA PaidOutFields ==
    ASSUME NEW a \in Accounts, NEW amount
    PROVE  LET b == PaidOut(a, amount)
           IN /\ b.treasury = a.treasury - amount
              /\ b.current_day_distributed = a.current_day_distributed + amount
              /\ b.current_day_carry_over = a.current_day_carry_over
              /\ b.current_day_total_claimed = a.current_day_total_claimed
              /\ b.current_day_total_locked_all = a.current_day_total_locked_all
              /\ b.scanned = a.scanned
              /\ b.paid_investor_bitmap = a.paid_investor_bitmap
              /\ b.visits = a.visits
              /\ DOMAIN b = DOMAIN a
  BY DEF PaidOut, Accounts

\* The cap lowers a payout, the threshold drops it.
LEMMA AllowedBelow ==
    ASSUME TypeInv, tx.pc = "pay", tx.idx < tx.to_process
    PROVE  /\ Payout \in Nat /\ AllowedPayout \in Nat /\ AllowedPayout <= Payout
           /\ IndividualLocked(tx.idx) \in Nat
<1>1. /\ tx.fee \in Nat /\ mem.current_day_total_locked_all \in Nat
      /\ mem.current_day_distributed \in Nat
  BY ShareFields
<1>2. IndividualLocked(tx.idx) \in Nat
  BY IndividualNat
<1>3. Payout \in Nat
  BY <1>1, <1>2, ProRataNat DEF Payout
<1>4. policy.min_payout_lamports \in Nat /\ policy.daily_cap \in SUBSET Nat
  BY PolicyFields DEF TypeInv, ControlOK
<1> DEFINE final == AboveThreshold(Payout, policy.min_payout_lamports)
<1>5. final \in Nat /\ final <= Payout
  BY <1>3, <1>4 DEF AboveThreshold
<1> HIDE DEF final
<1>6. /\ CheckDailyCap(mem.current_day_distributed, final, policy.daily_cap) \in Nat
      /\ CheckDailyCap(mem.current_day_distributed, final, policy.daily_cap) <= final
  <2> DEFINE d == mem.current_day_distributed
  <2>1. CASE \E c \in policy.daily_cap : d + final > c
    <3>1. PICK c \in policy.daily_cap : d + final > c
      BY <2>1
    <3>2. policy \in Policies
      BY DEF TypeInv, TypeOK, ControlOK
    <3>3. (CHOOSE x \in policy.daily_cap : TRUE) = c
      BY <3>1, <3>2, PolicyAssumption
    <3>4. CheckDailyCap(d, final, policy.daily_cap) = Monus(c, d)
      BY <2>1, <3>3 DEF CheckDailyCap
    <3> QED
      BY <3>1, <3>4, <1>1, <1>4, <1>5 DEF Monus
  <2>2. CASE ~ \E c \in policy.daily_cap : d + final > c
    BY <2>2, <1>5 DEF CheckDailyCap
  <2> QED
    BY <2>1, <2>2
<1> QED
  BY <1>2, <1>3, <1>5, <1>6 DEF AllowedPayout, final
\* The payout of one more investor, with its dust, stays within the share of
\* the investors up to it.
LEMMA PayWithin ==
    ASSUME TypeInv, ShareInv, tx.pc = "pay", tx.idx < tx.to_process
    PROVE  Within(mem.current_day_distributed + tx.page_dust + tx.carry + Payout,
                  tx.fee, mem.scanned[tx.page_start] + tx.sums[tx.idx + 1],
                  mem.current_day_total_locked_all)
<1> DEFINE T == mem.current_day_total_locked_all
           D == mem.current_day_distributed + tx.page_dust + tx.carry
           S == mem.scanned[tx.page_start] + tx.sums[tx.idx]
           p == IndividualLocked(tx.idx)
<1>1. OpenDay(mem) /\ PayShares
  BY DEF ShareInv
<1>2. /\ tx.idx \in Nat /\ tx.to_process \in Nat /\ tx.fee \in Nat /\ T \in Nat
      /\ mem.current_day_distributed \in Nat /\ tx.page_dust \in Nat /\ tx.carry \in Nat
  BY ShareFields
<1>3. /\ mem.scanned[tx.page_start] \in Nat /\ tx.sums[tx.idx] \in Nat
  BY <1>1, <1>2, PageBounds
<1>4. tx.sums[tx.idx + 1] \in Nat
  BY <1>1, <1>2, PageBounds
<1>5. p \in Nat
  BY IndividualNat
<1>6. S + p = mem.scanned[tx.page_start] + tx.sums[tx.idx + 1]
  BY <1>3, <1>4 DEF IndividualLocked
<1>7. D \in Nat /\ S \in Nat
  BY <1>2, <1>3
<1>8. Within(D, tx.fee, S, T)
  BY <1>1 DEF PayShares
<1>9. Payout = ProRata(tx.fee, p, T)
  BY DEF Payout
<1> HIDE DEF D, S, p, T
<1>10. Within(D + ProRata(tx.fee, p, T), tx.fee, S + p, T)
  BY <1>2, <1>5, <1>7, <1>8, WithinNext
<1> QED
  BY <1>6, <1>9, <1>10 DEF D, T

LEMMA PayShare ==
    ASSUME TypeInv, ShareInv, PayInvestor
    PROVE  ShareInv'
<1> DEFINE T == mem.current_day_total_locked_all
           A == AllowedPayout
           dust == tx.page_dust + Monus(Payout, A)
           k == tx.idx
           s == tx.page_start
           paid == PaidOut(mem, A)
<1>1. /\ tx.pc = "pay" /\ k < tx.to_process
      /\ UNCHANGED <<policy, db, locked>>
      /\ tx' = [tx EXCEPT !.idx = k + 1,
                          !.page_distributed = @ + A, !.page_dust = dust]
      /\ mem' = [paid EXCEPT
                   !.paid_investor_bitmap = IF A > 0 THEN @ \cup {s + k} ELSE @,
                   !.visits[s + k] = @ + 1]
  BY DEF PayInvestor
<1>2. /\ A \in Nat /\ A <= Payout /\ Payout \in Nat
  BY <1>1, AllowedBelow
<1> HIDE DEF dust, A, paid
<1>3. /\ tx'.pc = "pay" /\ tx'.idx = k + 1 /\ tx'.page_dust = dust
      /\ tx'.fee = tx.fee /\ tx'.carry = tx.carry
      /\ tx'.carry_distributed = tx.carry_distributed
      /\ tx'.claimed_quote = tx.claimed_quote /\ tx'.sums = tx.sums
      /\ tx'.page_start = s /\ tx'.to_process = tx.to_process
  BY <1>1 DEF TypeInv, TypeOK, Transactions
<1>4. mem \in Accounts
  BY DEF TypeInv, TypeOK
<1>5. /\ paid.treasury = mem.treasury - A
      /\ paid.current_day_distributed = mem.current_day_distributed + A
      /\ paid.current_day_carry_over = mem.current_day_carry_over
      /\ paid.current_day_total_claimed = mem.current_day_total_claimed
      /\ paid.current_day_total_locked_all = T
      /\ paid.scanned = mem.scanned
      /\ paid.paid_investor_bitmap = mem.paid_investor_bitmap
      /\ DOMAIN paid = DOMAIN mem
  BY <1>4, PaidOutFields DEF paid
<1>6. /\ mem'.treasury = mem.treasury - A
      /\ mem'.current_day_distributed = mem.current_day_distributed + A
      /\ mem'.current_day_carry_over = mem.current_day_carry_over
      /\ mem'.current_day_total_claimed = mem.current_day_total_claimed
      /\ mem'.current_day_total_locked_all = T
      /\ mem'.scanned = mem.scanned
      /\ mem'.paid_investor_bitmap \subseteq mem.paid_investor_bitmap \cup {s + k}
  BY <1>1, <1>4, <1>5 DEF Accounts
<1>7. PayShares
  BY <1>1 DEF ShareInv
<1>8. /\ mem.current_day_distributed \in Nat /\ tx.page_dust \in Nat /\ tx.carry \in Nat
      /\ k \in Nat /\ s \in Nat /\ mem.treasury \in Nat
  BY ShareFields
<1>9. PageShares'
  <2>1. PageFee' = PageFee
    BY <1>1, <1>3, <1>6 DEF PageFee, InvestorFee, EligibleShare
  <2>2. PageSums(tx.to_process)'
    BY <1>3, <1>6, <1>7 DEF PageSums, PayShares, PageShares
  <2> QED
    BY <2>1, <2>2, <1>3, <1>6, <1>7 DEF PayShares, PageShares
<1>10. PaidBelow(mem, tx.page_start + tx.idx)'
  <2>1. \A i \in mem.paid_investor_bitmap : i < s + k
    BY <1>7 DEF PayShares, PaidBelow
  <2>2. mem.paid_investor_bitmap \subseteq Nat
    BY <1>4, AccountFields
  <2>3. \A i \in mem'.paid_investor_bitmap : i < s + (k + 1)
    BY <2>1, <2>2, <1>6, <1>8
  <2> QED
    BY <2>3, <1>3 DEF PaidBelow
<1>11. mem'.current_day_distributed + tx'.page_dust + tx'.carry
         = mem.current_day_distributed + tx.page_dust + tx.carry + Payout
  <2>1. A + Monus(Payout, A) = Payout
    BY <1>2 DEF Monus
  <2>2. Monus(Payout, A) \in Nat
    BY <1>2, MonusNat
  <2> QED
    BY <2>1, <2>2, <1>2, <1>3, <1>6, <1>8 DEF dust
<1>12. Within(mem.current_day_distributed + tx.page_dust + tx.carry, tx.fee,
              mem.scanned[tx.page_start] + tx.sums[tx.idx],
              mem.current_day_total_locked_all)'
  BY <1>1, <1>3, <1>6, <1>11, PayWithin
<1>13. PayShares'
  BY <1>9, <1>10, <1>12 DEF PayShares
<1>14. mem'.treasury + mem'.current_day_distributed
         = mem.treasury + mem.current_day_distributed
  BY <1>2, <1>6, <1>8
<1> QED
  BY <1>1, <1>3, <1>6, <1>13, <1>14, PageKept

LEMMA PayDoneShare ==
    ASSUME TypeInv, ShareInv, PayLoopDone
    PROVE  ShareInv'
<1> DEFINE T == mem.current_day_total_locked_all
           D == mem.current_day_distributed
           spent == D + tx.page_dust + tx.carry
           s == tx.page_start
           n == tx.to_process
<1>1. /\ tx.pc = "pay" /\ tx.idx = n
      /\ UNCHANGED <<policy, db, mem, locked>>
      /\ tx' = [tx EXCEPT !.pc = "carry", !.idx = 0] \/ tx' = [tx EXCEPT !.pc = "carry"]
  BY DEF PayLoopDone
<1>2. /\ tx'.pc = "carry" /\ tx'.idx \in {0, n} /\ tx'.page_dust = tx.page_dust
      /\ tx'.fee = tx.fee /\ tx'.carry = tx.carry
      /\ tx'.carry_distributed = tx.carry_distributed
      /\ tx'.claimed_quote = tx.claimed_quote /\ tx'.sums = tx.sums
      /\ tx'.page_start = s /\ tx'.to_process = n
  BY <1>1 DEF TypeInv, TypeOK, Transactions
<1>3. PayShares /\ OpenDay(mem)
  BY <1>1 DEF ShareInv
<1>4. /\ D \in Nat /\ tx.page_dust \in Nat /\ tx.carry \in Nat /\ T \in Nat
      /\ s \in Nat /\ n \in Nat /\ tx.fee \in Nat /\ tx.carry_distributed \in Nat
  BY ShareFields
<1>5. PageShares'
  <2>1. PageFee' = PageFee
    BY <1>1, <1>2 DEF PageFee, InvestorFee, EligibleShare
  <2>2. PageSums(tx.to_process)'
    BY <1>1, <1>2, <1>3 DEF PageSums, PayShares, PageShares
  <2> QED
    BY <2>1, <2>2, <1>1, <1>2, <1>3 DEF PayShares, PageShares
<1>6. PaidBelow(mem, PageEnd)'
  BY <1>1, <1>2, <1>3 DEF PayShares, PaidBelow, PageEnd
<1>7. /\ mem.scanned[s] \in Nat /\ mem.scanned[s + n] \in Nat /\ tx.sums[n] \in Nat
  BY <1>1, <1>3, <1>4, PageBounds
<1>8. Within(spent, tx.fee, mem.scanned[s + n], T)
  <2>1. Within(spent, tx.fee, mem.scanned[s] + tx.sums[n], T)
    BY <1>1, <1>3 DEF PayShares
  <2>2. mem.scanned[s] + tx.sums[n] <= mem.scanned[s + n]
    BY <1>3, <1>4 DEF PayShares, PageShares, PageSums
  <2>3. spent \in Nat /\ mem.scanned[s] + tx.sums[n] \in Nat
    BY <1>4, <1>7
  <2> DEFINE below == mem.scanned[s] + tx.sums[n]
             all == mem.scanned[s + n]
  <2>4. /\ spent \in Nat /\ tx.fee \in Nat /\ below \in Nat /\ T \in Nat /\ all \in Nat
        /\ Within(spent, tx.fee, below, T) /\ below <= all
    BY <2>1, <2>2, <2>3, <1>4, <1>7
  <2>5. Within(spent, tx.fee, all, T)
    <3> HIDE DEF spent, T, below, all
    <3> QED
      BY <2>4, WithinWider
  <2> QED
    BY <2>5
<1>9. Within(0, tx.carry_distributed, tx.sums[tx'.idx], PageLocked)
  <2>1. tx.sums[tx'.idx] \in Nat
    BY <1>1, <1>2, <1>3, <1>4, PageBounds
  <2>2. PageLocked \in Nat
    BY <1>7 DEF PageLocked
  <2> QED
    BY <2>1, <2>2, <1>4, WithinNone
<1>10. PageLocked' = PageLocked
  BY <1>2 DEF PageLocked
<1>11. Within(0, tx.carry_distributed, tx.sums[tx.idx], PageLocked)'
  BY <1>2, <1>9, <1>10
<1>12. Within(mem.current_day_distributed - 0 + tx.page_dust + tx.carry, tx.fee,
              mem.scanned[PageEnd], mem.current_day_total_locked_all)'
  <2>1. D - 0 + tx.page_dust + tx.carry = spent
    BY <1>4
  <2> QED
    BY <2>1, <1>1, <1>2, <1>8 DEF PageEnd
<1>13. 0 \in 0 .. mem'.current_day_distributed
  BY <1>1, <1>4
<1>14. CarryShares'
  BY <1>5, <1>6, <1>11, <1>12, <1>13 DEF CarryShares
<1> QED
  BY <1>1, <1>2, <1>14, PageKept
LEMMA CarryShareStep ==
    ASSUME TypeInv, ShareInv, DistributeCarry
    PROVE  ShareInv'
<1> DEFINE T == mem.current_day_total_locked_all
           D == mem.current_day_distributed
           C == CarryShare
           p == IndividualLocked(tx.idx)
           cd == tx.carry_distributed
           k == tx.idx
           n == tx.to_process
<1>1. /\ tx.pc = "carry" /\ k < n
      /\ UNCHANGED <<policy, db, locked>>
      /\ tx' = [tx EXCEPT !.idx = k + 1, !.page_distributed = @ + C]
      /\ mem' = PaidOut(mem, C)
  BY DEF DistributeCarry
<1>2. p \in Nat /\ PageLocked \in Nat
  BY <1>1, IndividualNat
<1>3. /\ D \in Nat /\ tx.page_dust \in Nat /\ tx.carry \in Nat /\ T \in Nat
      /\ tx.page_start \in Nat /\ n \in Nat /\ k \in Nat /\ tx.fee \in Nat /\ cd \in Nat
      /\ mem.treasury \in Nat
  BY ShareFields
<1>4. C \in Nat /\ C = ProRata(cd, p, PageLocked)
  BY <1>2, <1>3, ProRataNat DEF CarryShare
<1> HIDE DEF C
<1>5. /\ tx'.pc = "carry" /\ tx'.idx = k + 1 /\ tx'.page_dust = tx.page_dust
      /\ tx'.fee = tx.fee /\ tx'.carry = tx.carry /\ tx'.carry_distributed = cd
      /\ tx'.claimed_quote = tx.claimed_quote /\ tx'.sums = tx.sums
      /\ tx'.page_start = tx.page_start /\ tx'.to_process = n
  BY <1>1 DEF TypeInv, TypeOK, Transactions
<1>6. /\ mem'.treasury = mem.treasury - C
      /\ mem'.current_day_distributed = D + C
      /\ mem'.current_day_carry_over = mem.current_day_carry_over
      /\ mem'.current_day_total_claimed = mem.current_day_total_claimed
      /\ mem'.current_day_total_locked_all = T
      /\ mem'.scanned = mem.scanned
      /\ mem'.paid_investor_bitmap = mem.paid_investor_bitmap
  <2>1. mem \in Accounts
    BY DEF TypeInv, TypeOK
  <2> QED
    BY <2>1, <1>1, PaidOutFields
<1>7. CarryShares /\ OpenDay(mem)
  BY <1>1 DEF ShareInv
<1>8. PageShares'
  <2>1. PageFee' = PageFee
    BY <1>1, <1>5, <1>6 DEF PageFee, InvestorFee, EligibleShare
  <2>2. PageSums(tx.to_process)'
    BY <1>5, <1>6, <1>7 DEF PageSums, CarryShares, PageShares
  <2> QED
    BY <2>1, <2>2, <1>5, <1>6, <1>7 DEF CarryShares, PageShares
<1>9. PageEnd' = PageEnd /\ PageLocked' = PageLocked
  BY <1>5 DEF PageEnd, PageLocked
<1>10. PaidBelow(mem, PageEnd)'
  BY <1>6, <1>7, <1>9 DEF CarryShares, PaidBelow
<1>11. PICK paid \in 0 .. D :
         /\ Within(paid, cd, tx.sums[k], PageLocked)
         /\ Within(D - paid + tx.page_dust + tx.carry, tx.fee, mem.scanned[PageEnd], T)
  BY <1>7 DEF CarryShares
<1>12. paid + C \in 0 .. D + C
  BY <1>3, <1>4
<1>13. Within(paid + C, cd, tx.sums[k + 1], PageLocked)
  <2>1. tx.sums[k] \in Nat
    BY <1>1, <1>3, <1>7, PageBounds
  <2>2. tx.sums[k + 1] \in Nat
    BY <1>1, <1>3, <1>7, PageBounds
  <2>3. tx.sums[k] + p = tx.sums[k + 1]
    BY <2>1, <2>2 DEF IndividualLocked
  <2>4. paid \in Nat
    BY <1>3
  <2>5. Within(paid, cd, tx.sums[k], PageLocked)
    BY <1>11
  <2> HIDE DEF cd, p
  <2>6. Within(paid + ProRata(cd, p, PageLocked), cd, tx.sums[k] + p, PageLocked)
    BY <2>1, <2>4, <2>5, <1>2, <1>3, WithinNext
  <2> QED
    BY <2>3, <2>6, <1>4
<1>14. (D + C) - (paid + C) + tx.page_dust + tx.carry
          = D - paid + tx.page_dust + tx.carry
  BY <1>3, <1>4
<1>15. \E q \in 0 .. mem'.current_day_distributed :
         /\ Within(q, tx'.carry_distributed, tx'.sums[tx'.idx], PageLocked')
         /\ Within(mem'.current_day_distributed - q + tx'.page_dust + tx'.carry,
                   tx'.fee, mem'.scanned[PageEnd'], mem'.current_day_total_locked_all)
  <2>1. paid + C \in 0 .. mem'.current_day_distributed
    BY <1>6, <1>12
  <2>2. Within(paid + C, tx'.carry_distributed, tx'.sums[tx'.idx], PageLocked')
    BY <1>5, <1>9, <1>13
  <2>3. Within(mem'.current_day_distributed - (paid + C) + tx'.page_dust + tx'.carry,
               tx'.fee, mem'.scanned[PageEnd'], mem'.current_day_total_locked_all)
    BY <1>5, <1>6, <1>9, <1>11, <1>14
  <2> QED
    BY <2>1, <2>2, <2>3
<1>16. CarryShares'
  BY <1>8, <1>10, <1>15 DEF CarryShares
<1>17. mem'.treasury + mem'.current_day_distributed = mem.treasury + D
  BY <1>3, <1>4, <1>6
<1> QED
  BY <1>1, <1>5, <1>6, <1>16, <1>17, PageKept
\* The page's fee lies within the share of the day's total.
LEMMA FeeOrder ==
    ASSUME TypeInv, tx.pc # "idle",
           tx.claimed_quote <= mem.current_day_total_claimed
    PROVE  /\ PageFee \in Nat /\ InvestorPool(mem) \in Nat
           /\ PageFee <= tx.claimed_quote
           /\ PageFee <= InvestorPool(mem)
<1>1. /\ tx.claimed_quote \in Nat /\ mem.current_day_total_claimed \in Nat
      /\ mem.current_day_total_locked_all \in Nat
  BY ShareFields
<1>2. TypeOK /\ PolicyOK /\ policy # NoPolicy
  BY DEF TypeInv, ControlOK
<1> QED
  BY <1>1, <1>2, FeeBounds DEF PageFee, InvestorPool

\* Once the carry-over is handed out, what a page has paid and carries on
\* stays within the share of the investors it has come to.
LEMMA SettledWithin ==
    ASSUME TypeInv, ShareInv, tx.pc = "carry", tx.idx = tx.to_process
    PROVE  /\ Within(mem.current_day_distributed + (tx.page_dust + CarryLeft), tx.fee,
                     mem.scanned[PageEnd], mem.current_day_total_locked_all)
           /\ CarryLeft \in Nat
<1> DEFINE T == mem.current_day_total_locked_all
           D == mem.current_day_distributed
           cd == tx.carry_distributed
           n == tx.to_process
           S == mem.scanned[PageEnd]
<1>1. CarryShares /\ OpenDay(mem)
  BY DEF ShareInv
<1>2. /\ D \in Nat /\ tx.page_dust \in Nat /\ tx.carry \in Nat /\ T \in Nat
      /\ tx.page_start \in Nat /\ n \in Nat /\ tx.fee \in Nat /\ cd \in Nat
  BY ShareFields
<1>3. PICK paid \in 0 .. D :
         /\ Within(paid, cd, tx.sums[n], PageLocked)
         /\ Within(D - paid + tx.page_dust + tx.carry, tx.fee, S, T)
  BY <1>1 DEF CarryShares
<1>4. PageLocked \in Nat /\ tx.sums[n] = PageLocked /\ S \in Nat
  BY <1>1, <1>2, PageBounds DEF PageLocked, PageEnd
<1>5. paid \in Nat /\ paid <= D
  BY <1>2
<1>6. paid <= cd
  <2>1. Within(paid, cd, PageLocked, PageLocked) /\ PageLocked <= PageLocked
    BY <1>3, <1>4
  <2> HIDE DEF cd
  <2> QED
    BY <2>1, <1>2, <1>4, <1>5, WithinWhole
<1>7. cd <= tx.carry
  BY <1>1 DEF CarryShares, PageShares
<1>8. CarryLeft = tx.carry - cd /\ CarryLeft \in Nat
  BY <1>2, <1>7 DEF CarryLeft, Monus
<1> DEFINE x == D - paid + tx.page_dust + tx.carry
           y == D + (tx.page_dust + CarryLeft)
<1>9. x \in Nat /\ y \in Nat /\ y <= x
  BY <1>2, <1>5, <1>6, <1>7, <1>8
<1>10. Within(x, tx.fee, S, T)
  BY <1>3
<1>11. tx.fee <= tx.fee /\ S <= S
  BY <1>2, <1>4
<1>12. Within(y, tx.fee, S, T)
  <2> HIDE DEF x, y, S, T
  <2> QED
    BY <1>2, <1>4, <1>9, <1>10, <1>11, WithinMore
<1> QED
  BY <1>8, <1>12

LEMMA SettleShare ==
    ASSUME TypeInv, ShareInv, SettlePage
    PROVE  ShareInv'
<1> DEFINE T == mem.current_day_total_locked_all
           D == mem.current_day_distributed
           left == tx.page_dust + CarryLeft
           cursor == tx.page_start + tx.page_size
           next == IF IsFinalPage THEN "close" ELSE "commit"
<1>1. /\ tx.pc = "carry" /\ tx.idx = tx.to_process
      /\ UNCHANGED <<policy, db, locked>>
      /\ tx' = [tx EXCEPT !.pc = next]
      /\ mem' = [mem EXCEPT !.current_day_carry_over = left,
                            !.pagination_cursor = cursor,
                            !.total_investor_distributed = @ + tx.page_distributed]
  BY DEF SettlePage
<1> HIDE DEF left, cursor, next
<1>2. /\ tx'.pc = next /\ tx'.fee = tx.fee /\ tx'.claimed_quote = tx.claimed_quote
      /\ tx'.page_start = tx.page_start /\ tx'.to_process = tx.to_process
  BY <1>1 DEF TypeInv, TypeOK, Transactions
<1>3. /\ mem'.treasury = mem.treasury
      /\ mem'.current_day_distributed = D
      /\ mem'.current_day_carry_over = left
      /\ mem'.current_day_total_claimed = mem.current_day_total_claimed
      /\ mem'.current_day_total_locked_all = T
      /\ mem'.scanned = mem.scanned
      /\ mem'.paid_investor_bitmap = mem.paid_investor_bitmap
      /\ mem'.pagination_cursor = cursor
      /\ mem'.day_completed = mem.day_completed
  BY <1>1 DEF TypeInv, TypeOK, Accounts
<1>4. CarryShares /\ OpenDay(mem) /\ tx.claimed_quote <= mem.current_day_total_claimed
  BY <1>1 DEF ShareInv
<1>5. PageFee' = PageFee /\ PageEnd' = PageEnd
  BY <1>1, <1>2, <1>3 DEF PageFee, InvestorFee, EligibleShare, PageEnd
<1>6. tx.fee = PageFee
  BY <1>4 DEF CarryShares, PageShares
<1>7. Within(D + left, tx.fee, mem.scanned[PageEnd], T)
  BY <1>1, SettledWithin DEF left
<1>8. PaidBelow(mem, PageEnd)'
  BY <1>3, <1>4, <1>5 DEF CarryShares, PaidBelow
<1>9. Shared(mem', tx.fee, PageEnd)
  BY <1>3, <1>7 DEF Shared
<1>10. CASE IsFinalPage
  <2>1. tx'.pc = "close"
    BY <1>2, <1>10 DEF next
  <2>2. Shared(mem', tx'.fee, PageEnd')
    BY <1>2, <1>5, <1>9
  <2>3. CloseShares'
    BY <2>2, <1>2, <1>5, <1>6, <1>8 DEF CloseShares
  <2> QED
    BY <2>1, <2>3, <1>1, <1>2, <1>3, PageKept
<1>11. CASE ~IsFinalPage
  <2>1. tx'.pc = "commit"
    BY <1>2, <1>11 DEF next
  <2>2. mem'.pagination_cursor = PageEnd
    BY <1>1, <1>3, <1>11, PageEndBounds DEF cursor
  <2>3. ~mem'.day_completed
    BY <1>1, <1>3 DEF TypeInv, MemOK
  <2>4. OpenDay(mem)'
    <3>1. Scanned(mem, policy.total_investors)'
      BY <1>1, <1>3, <1>4 DEF OpenDay, Scanned
    <3> QED
      BY <3>1, <1>1, <1>3, <1>4 DEF OpenDay
  <2>5. PaidBelow(mem, mem.pagination_cursor)'
    BY <2>2, <1>5, <1>8 DEF PaidBelow
  <2>6. Within(D + left, InvestorPool(mem), mem.scanned[PageEnd], T)
    <3> DEFINE x == D + left
               S == mem.scanned[PageEnd]
               F == InvestorPool(mem)
    <3>1. tx.fee \in Nat /\ F \in Nat /\ tx.fee <= F
      BY <1>1, <1>4, <1>6, FeeOrder
    <3>2. D \in Nat /\ tx.page_dust \in Nat /\ T \in Nat /\ tx.page_start \in Nat
          /\ tx.to_process \in Nat
      BY ShareFields
    <3>3. x \in Nat
      BY <3>2, <1>1, SettledWithin DEF left
    <3>4. S \in Nat
      BY <3>2, <1>1, <1>4, PageBounds DEF PageEnd
    <3>5. x <= x /\ S <= S
      BY <3>3, <3>4
    <3>6. Within(x, tx.fee, S, T)
      BY <1>7
    <3>7. Within(x, F, S, T)
      <4> HIDE DEF x, S, T, F
      <4> QED
        BY <3>1, <3>2, <3>3, <3>4, <3>5, <3>6, WithinMore
    <3> QED
      BY <3>7
  <2>7. InvestorPool(mem)' = InvestorPool(mem)
    BY <1>1, <1>3 DEF InvestorPool, InvestorFee, EligibleShare
  <2>8. Shared(mem, InvestorPool(mem), mem.pagination_cursor)'
    BY <2>2, <2>6, <2>7, <1>3 DEF Shared
  <2>9. DayShares(mem)'
    BY <2>3, <2>4, <2>5, <2>8 DEF DayShares
  <2>10. DayShares(db)'
    BY <1>1, DayFrame DEF ShareInv
  <2>11. db'.scanned[0] = 0 /\ mem'.scanned[0] = 0
    BY <1>1, <1>3 DEF ShareInv
  <2> QED
    BY <2>1, <2>9, <2>10, <2>11 DEF ShareInv
<1> QED
  BY <1>10, <1>11
\* When the roster is done, payouts and carried dust are within the claim,
\* and the treasury holds the creator's remainder and that dust.
LEMMA CloseBounds ==
    ASSUME TypeInv, ShareInv, tx.pc = "close"
    PROVE  /\ mem.current_day_distributed + mem.current_day_carry_over <= tx.fee
           /\ Remainder \in Nat
           /\ Remainder + mem.current_day_carry_over <= mem.treasury
<1> DEFINE T == mem.current_day_total_locked_all
           D == mem.current_day_distributed
           c == mem.current_day_carry_over
           S == mem.scanned[PageEnd]
           q == tx.claimed_quote
<1>1. CloseShares /\ OpenDay(mem) /\ q <= mem.current_day_total_claimed
  BY DEF ShareInv
<1>2. /\ D \in Nat /\ c \in Nat /\ T \in Nat /\ tx.fee \in Nat /\ q \in Nat
      /\ mem.treasury \in Nat /\ mem.current_day_total_claimed \in Nat
      /\ tx.page_start \in Nat /\ tx.to_process \in Nat
  BY ShareFields
<1>3. S \in Nat /\ S <= T
  BY <1>1, <1>2, PageBounds DEF PageEnd
<1>4. D + c <= tx.fee
  <2> DEFINE x == D + c
  <2>1. x \in Nat /\ Within(x, tx.fee, S, T)
    BY <1>1, <1>2 DEF CloseShares, Shared
  <2> HIDE DEF x, S, T
  <2>2. x <= tx.fee
    BY <2>1, <1>2, <1>3, WithinWhole
  <2> QED
    BY <2>2 DEF x
<1>5. tx.fee <= q
  BY <1>1, FeeOrder DEF CloseShares
<1>6. mem.treasury + D >= mem.current_day_total_claimed
  BY <1>1 DEF OpenDay
<1>7. Remainder = Monus(Monus(q, D), c)
  BY DEF Remainder, CreatorRemainder
<1>8. Remainder = (q - D) - c
  BY <1>2, <1>4, <1>5, <1>7 DEF Monus
<1> HIDE DEF D, c, q
<1> QED
  BY <1>1, <1>2, <1>4, <1>5, <1>6, <1>8 DEF D, c

LEMMA CloseShare ==
    ASSUME TypeInv, ShareInv, CloseDay
    PROVE  ShareInv'
<1> DEFINE day == CompleteDay(mem, Remainder)
<1>1. /\ tx.pc = "close"
      /\ UNCHANGED <<policy, db, locked>>
      /\ tx' = [tx EXCEPT !.pc = "commit"]
      /\ mem' = [day EXCEPT !.treasury = @ - Remainder,
                            !.creator_ata = @ + Remainder]
  BY DEF CloseDay
<1>2. mem \in Accounts /\ tx \in Transactions
  BY DEF TypeInv, TypeOK
<1>3. /\ day.day_completed /\ day.treasury = mem.treasury
      /\ day.persistent_carry_over = mem.current_day_carry_over
      /\ day.scanned = mem.scanned
      /\ DOMAIN day = DOMAIN mem
  BY <1>2 DEF CompleteDay, Accounts
<1> HIDE DEF day
<1>4. /\ mem'.day_completed /\ mem'.treasury = mem.treasury - Remainder
      /\ mem'.persistent_carry_over = mem.current_day_carry_over
      /\ mem'.scanned = mem.scanned
  BY <1>1, <1>2, <1>3 DEF Accounts
<1>5. tx'.pc = "commit"
  BY <1>1, <1>2 DEF Transactions
<1>6. mem'.treasury >= mem'.persistent_carry_over
  <2>1. /\ mem.treasury \in Nat /\ mem.current_day_carry_over \in Nat
    BY ShareFields
  <2>2. Remainder \in Nat /\ Remainder + mem.current_day_carry_over <= mem.treasury
    BY <1>1, CloseBounds
  <2> HIDE DEF Remainder
  <2> QED
    BY <2>1, <2>2, <1>4
<1>7. DayShares(mem)'
  BY <1>4, <1>6 DEF DayShares
<1>8. DayShares(db)'
  BY <1>1, DayFrame DEF ShareInv
<1>9. db'.scanned[0] = 0 /\ mem'.scanned[0] = 0
  BY <1>1, <1>4 DEF ShareInv
<1> QED
  BY <1>5, <1>7, <1>8, <1>9 DEF ShareInv

LEMMA CommitShare ==
    ASSUME TypeInv, ShareInv, Commit
    PROVE  ShareInv'
<1>1. /\ tx.pc = "commit" /\ db' = mem /\ mem' = mem /\ tx' = Idle
      /\ UNCHANGED <<policy, locked>>
  BY DEF Commit
<1>2. DayShares(mem) /\ mem.scanned[0] = 0
  BY <1>1 DEF ShareInv
<1>3. DayShares(db)'
  BY <1>1, <1>2 DEF DayShares, OpenDay, Scanned, PaidBelow, Shared, Within, InvestorPool
<1>4. tx'.pc = "idle"
  BY <1>1 DEF Idle
<1> QED
  BY <1>1, <1>2, <1>3, <1>4 DEF ShareInv

LEMMA BeginShare ==
    ASSUME TypeInv, ShareInv, NEW page_start \in PageStarts, NEW page_size \in PageSizes,
           Begin(page_start, page_size)
    PROVE  ShareInv'
<1>1. /\ tx.pc = "idle" /\ mem = db /\ policy # NoPolicy
      /\ UNCHANGED <<policy, db, mem, locked>>
  BY DEF Begin, CallAccepted, TypeInv, ControlOK
<1>2. CursorOK /\ TypeInv'
  BY BeginStep DEF TypeInv
<1>3. PICK t \in {"scan", "read"}, n \in {tx'.to_process}, y \in BOOLEAN :
        tx' = [Idle EXCEPT
                   !.pc = t,
                   !.page_start = page_start,
                   !.page_size = page_size,
                   !.starting = y,
                   !.to_process = n,
                   !.claimed_quote = IF y THEN 0 ELSE db.current_day_total_claimed]
        /\ t = (IF y THEN "scan" ELSE "read")
  BY DEF Begin, IsFirstPage, Idle
<1>4. /\ tx'.pc = t /\ tx'.page_start = page_start /\ tx'.starting = y /\ tx'.idx = 0
      /\ tx'.claimed_quote = (IF y THEN 0 ELSE db.current_day_total_claimed)
      /\ tx'.sums = NoSums /\ tx'.page_dust = 0
  BY <1>3 DEF Idle
<1>5. /\ tx'.page_start = db.pagination_cursor
      /\ y = db.day_completed
  <2>1. tx'.pc # "idle"
    BY <1>4
  <2> QED
    BY <2>1, <1>1, <1>2, <1>4 DEF TypeInv, ControlOK
<1>6. /\ db.treasury \in Nat /\ db.persistent_carry_over \in Nat
      /\ db.scanned \in [0 .. MaxInvestors -> Nat]
      /\ db.pagination_cursor \in Nat
      /\ db.current_day_total_claimed \in Nat
  BY AccountFields DEF TypeInv, TypeOK
<1>7. DayShares(db) /\ db.scanned[0] = 0
  BY DEF ShareInv
<1>8. DayShares(db)'
  BY <1>1, <1>7, DayFrame
<1>9. NothingRead'
  BY <1>4, CrankAssumption DEF NothingRead, NoSums
<1>10. 0 \in 0 .. MaxInvestors /\ db.scanned[0] \in Nat
  BY <1>6, CrankAssumption
<1>11. CASE y
  <2>1. tx'.pc = "scan"
    BY <1>3, <1>4, <1>11
  <2>2. Scanned(mem, tx.idx)'
    <3>1. \A i \in 0 .. 0 : db.scanned[i] <= db.scanned[0]
      BY <1>10
    <3>2. \A i \in Investors : ~(i < 0)
      BY DEF Investors
    <3> QED
      BY <3>1, <3>2, <1>1, <1>4, <1>7 DEF Scanned
  <2>3. mem'.treasury >= mem'.persistent_carry_over
    BY <1>1, <1>5, <1>7, <1>11 DEF DayShares
  <2>4. ScanShares'
    BY <2>2, <2>3, <1>9 DEF ScanShares
  <2> QED
    BY <2>1, <2>4, <1>1, <1>7, <1>8 DEF ShareInv
<1>12. CASE ~y
  <2>1. tx'.pc = "read"
    BY <1>3, <1>4, <1>12
  <2>2. /\ OpenDay(db) /\ PaidBelow(db, db.pagination_cursor)
        /\ Shared(db, InvestorPool(db), db.pagination_cursor)
    BY <1>5, <1>7, <1>12 DEF DayShares
  <2>3. OpenDay(mem)'
    BY <2>2, <1>1 DEF OpenDay, Scanned
  <2>4. tx'.claimed_quote = db.current_day_total_claimed
    BY <1>4, <1>12
  <2>5. tx'.claimed_quote <= mem'.current_day_total_claimed
    BY <2>4, <1>1, <1>6
  <2>6. PageFee' = InvestorPool(db)
    BY <2>4, <1>1 DEF PageFee, InvestorPool, InvestorFee, EligibleShare
  <2>7. Shared(mem, PageFee, tx.page_start)'
    BY <2>2, <2>6, <1>1, <1>5 DEF Shared
  <2>8. PaidBelow(mem, tx.page_start)'
    BY <2>2, <1>1, <1>5 DEF PaidBelow
  <2>9. PageSums(tx.idx)'
    <3>1. tx'.sums[0] = 0
      BY <1>9 DEF NothingRead
    <3>2. tx'.page_start \in 0 .. MaxInvestors
      <4>1. policy.total_investors <= MaxInvestors /\ policy.total_investors \in Nat
        BY <1>1, PolicyFields DEF TypeInv
      <4>2. db.pagination_cursor < policy.total_investors
        BY <1>2, <1>5, <1>12 DEF CursorOK
      <4> QED
        BY <4>1, <4>2, <1>5, <1>6, CrankAssumption
    <3>3. mem'.scanned[tx'.page_start] \in Nat
      BY <3>2, <1>1, <1>6
    <3>4. ASSUME NEW j \in 0 .. tx'.idx
          PROVE  /\ mem'.scanned[tx'.page_start] + tx'.sums[j] <= mem'.scanned[tx'.page_start + j]
                 /\ tx'.sums[j] <= tx'.sums[tx'.idx]
      <4>1. j = 0 /\ tx'.page_start + j = tx'.page_start
        BY <1>4, <1>5, <1>6
      <4> QED
        BY <3>1, <3>3, <4>1, <1>4
    <3> QED
      BY <3>4 DEF PageSums
  <2>10. ReadShares'
    BY <2>7, <2>8, <2>9, <1>9 DEF ReadShares
  <2> QED
    BY <2>1, <2>3, <2>5, <2>10, <1>1, <1>7, <1>8 DEF ShareInv
<1> QED
  BY <1>11, <1>12
\* Fees earned between transactions are no part of a day.
LEMMA AccrueShare ==
    ASSUME TypeInv, ShareInv, NEW amount \in FeeSteps, Accrue(amount)
    PROVE  ShareInv'
<1>1. /\ tx.pc = "idle" /\ mem' = db' /\ UNCHANGED <<policy, tx, locked>>
      /\ db' = [db EXCEPT !.unclaimed = @ + amount]
  BY DEF Accrue
<1>2. /\ db'.scanned = db.scanned /\ db'.treasury = db.treasury
      /\ db'.day_completed = db.day_completed
      /\ db'.persistent_carry_over = db.persistent_carry_over
      /\ db'.current_day_distributed = db.current_day_distributed
      /\ db'.current_day_carry_over = db.current_day_carry_over
      /\ db'.current_day_total_claimed = db.current_day_total_claimed
      /\ db'.current_day_total_locked_all = db.current_day_total_locked_all
      /\ db'.paid_investor_bitmap = db.paid_investor_bitmap
      /\ db'.pagination_cursor = db.pagination_cursor
  BY <1>1 DEF TypeInv, TypeOK, Accounts
<1>3. DayShares(db)'
  BY <1>1, <1>2 DEF ShareInv, DayShares, OpenDay, Scanned, PaidBelow, Shared, Within,
                    InvestorPool, InvestorFee, EligibleShare
<1> QED
  BY <1>1, <1>2, <1>3 DEF ShareInv

\* Streams that vest stay covered by the day's running sums.
LEMMA VestShare ==
    ASSUME TypeInv, ShareInv, NEW v \in Investors, Vest(v)
    PROVE  ShareInv'
<1>1. PICK amount \in 0 .. locked[v] - 1 : locked' = [locked EXCEPT ![v] = amount]
  BY DEF Vest
<1>2. /\ tx.pc = "idle" /\ UNCHANGED <<policy, db, mem, tx>>
  BY DEF Vest
<1>3. locked \in [Investors -> Nat]
  BY ShareFields
<1>4. ASSUME NEW i \in Investors
      PROVE  locked'[i] \in Nat /\ locked[i] \in Nat /\ locked'[i] <= locked[i]
  <2>1. locked[v] \in Nat /\ locked[i] \in Nat
    BY <1>3
  <2>2. amount \in Nat /\ amount <= locked[v]
    BY <2>1
  <2> QED
    BY <1>1, <1>3, <2>1, <2>2
<1>5. ASSUME OpenDay(db), policy # NoPolicy PROVE OpenDay(db)'
  <2>1. db.scanned \in [0 .. MaxInvestors -> Nat]
    BY AccountFields DEF TypeInv, TypeOK
  <2>2. /\ policy.total_investors \in Nat /\ policy.total_investors <= MaxInvestors
    BY <1>5, PolicyFields DEF TypeInv
  <2>3. ASSUME NEW i \in Investors, i < policy.total_investors
        PROVE  db.scanned[i] + locked'[i] <= db.scanned[i + 1]
    <3>1. db.scanned[i] + locked[i] <= db.scanned[i + 1]
      BY <1>5, <2>3 DEF OpenDay, Scanned
    <3>2. i \in 0 .. MaxInvestors /\ i + 1 \in 0 .. MaxInvestors
      BY CrankAssumption DEF Investors
    <3>3. db.scanned[i] \in Nat /\ db.scanned[i + 1] \in Nat
      BY <2>1, <3>2
    <3>4. locked'[i] \in Nat /\ locked[i] \in Nat /\ locked'[i] <= locked[i]
      BY <1>4
    <3> QED
      BY <3>1, <3>3, <3>4
  <2>4. Scanned(db, policy.total_investors)'
    BY <1>2, <1>5, <2>3 DEF OpenDay, Scanned
  <2> QED
    BY <1>2, <1>5, <2>4 DEF OpenDay
<1>6. DayShares(db)'
  <2>1. DayShares(db)
    BY DEF ShareInv
  <2>2. CASE db.day_completed
    BY <1>2, <2>1, <2>2 DEF DayShares
  <2>3. CASE ~db.day_completed
    <3>1. policy # NoPolicy
      BY <2>3 DEF TypeInv, CursorOK
    <3>2. OpenDay(db)'
      BY <1>5, <2>1, <2>3, <3>1 DEF DayShares
    <3>3. /\ PaidBelow(db, db.pagination_cursor)'
          /\ Shared(db, InvestorPool(db), db.pagination_cursor)'
      BY <1>2, <2>1, <2>3 DEF DayShares, PaidBelow, Shared, Within, InvestorPool
    <3> QED
      BY <1>2, <2>3, <3>2, <3>3 DEF DayShares
  <2> QED
    BY <2>2, <2>3
<1> QED
  BY <1>2, <1>6 DEF ShareInv

LEMMA ShareStep ==
    ASSUME ~StreamsMayGrow, TypeInv, ShareInv, [Next]_vars
    PROVE  ShareInv'
<1>1. ASSUME NEW p \in Policies, SetupPolicy(p) PROVE ShareInv'
  <2>1. tx.pc = "idle" /\ policy = NoPolicy /\ UNCHANGED <<db, mem, tx, locked>>
    BY <1>1 DEF SetupPolicy
  <2>2. db.day_completed
    BY <2>1 DEF TypeInv, CursorOK
  <2> QED
    BY <2>1, <2>2 DEF ShareInv, DayShares
<1>2. ASSUME NEW page_start \in PageStarts, NEW page_size \in PageSizes,
             Begin(page_start, page_size) \/ RetryPreviousPage(page_start, page_size)
      PROVE  ShareInv'
  <2>1. CASE Begin(page_start, page_size)
    BY <2>1, BeginShare
  <2>2. CASE RetryPreviousPage(page_start, page_size)
    <3>1. UNCHANGED <<policy, db, mem, tx, locked>> /\ tx.pc = "idle"
      BY <2>2 DEF RetryPreviousPage, vars, CallAccepted
    <3>2. DayShares(db)'
      BY <3>1, DayFrame DEF ShareInv
    <3> QED
      BY <3>1, <3>2 DEF ShareInv
  <2> QED
    BY <1>2, <2>1, <2>2
<1>3. ASSUME TxStep PROVE ShareInv'
  <2>1. CASE ScanStream
    BY <2>1, ScanShare
  <2>2. CASE ClaimAndStartDay
    BY <2>2, ClaimShare
  <2>3. CASE ReadStream
    BY <2>3, ReadShare
  <2>4. CASE ComputeShares
    BY <2>4, ComputeShare
  <2>5. CASE PayInvestor
    BY <2>5, PayShare
  <2>6. CASE PayLoopDone
    BY <2>6, PayDoneShare
  <2>7. CASE DistributeCarry
    BY <2>7, CarryShareStep
  <2>8. CASE SettlePage
    BY <2>8, SettleShare
  <2>9. CASE CloseDay
    BY <2>9, CloseShare
  <2>10. CASE Commit
    BY <2>10, CommitShare
  <2>11. CASE Fail
    BY <2>11, RevertShares DEF Fail
  <2> QED
    BY <1>3, <2>1, <2>2, <2>3, <2>4, <2>5, <2>6, <2>7, <2>8, <2>9, <2>10, <2>11 DEF TxStep
<1>4. ASSUME Drop PROVE ShareInv'
  BY <1>4, RevertShares DEF Drop
<1>5. ASSUME NEW amount \in FeeSteps, Accrue(amount) PROVE ShareInv'
  BY <1>5, AccrueShare
<1>6. ASSUME NEW i \in Investors, Vest(i) \/ TopUp(i) PROVE ShareInv'
  BY <1>6, VestShare DEF TopUp
<1>7. ASSUME Tick PROVE ShareInv'
  <2>1. UNCHANGED <<policy, db, mem, tx, locked>> /\ tx.pc = "idle"
    BY <1>7 DEF Tick
  <2>2. DayShares(db)'
    BY <2>1, DayFrame DEF ShareInv
  <2> QED
    BY <2>1, <2>2 DEF ShareInv
<1>8. ASSUME UNCHANGED vars PROVE ShareInv'
  <2>1. UNCHANGED <<policy, db, mem, tx, locked>>
    BY <1>8 DEF vars
  <2> QED
    BY <2>1 DEF ShareInv, DayShares, OpenDay, Scanned, PaidBelow, Shared, Within, InvestorPool,
                ScanShares, ReadShares, PayShares, CarryShares, CloseShares, PageShares,
                PageSums, NothingRead, PageFee, PageEnd, PageLocked
<1> QED
  BY <1>1, <1>2, <1>3, <1>4, <1>5, <1>6, <1>7, <1>8 DEF Next

LEMMA ShareInvariant ==
    ASSUME ~StreamsMayGrow
    PROVE  Spec => [](TypeInv /\ ShareInv)
<1>1. Init => TypeInv /\ ShareInv
  BY TypeInit, ShareInit
<1>2. TypeInv /\ ShareInv /\ [Next]_vars => (TypeInv /\ ShareInv)'
  BY TypeStep, ShareStep
<1> QED
  BY <1>1, <1>2, PTL DEF Spec
-----------------------------------------------------------------------------
(* What follows from it.                                                   *)

\* An open day's payouts and carried dust are within the investors' share.
LEMMA OpenDayWithin ==
    ASSUME TypeInv, ShareInv, ~db.day_completed
    PROVE  db.current_day_distributed + db.current_day_carry_over <= InvestorPool(db)
<1> DEFINE x == db.current_day_distributed + db.current_day_carry_over
           S == db.scanned[db.pagination_cursor]
           T == db.current_day_total_locked_all
           F == InvestorPool(db)
<1>1. OpenDay(db) /\ Shared(db, F, db.pagination_cursor)
  BY DEF ShareInv, DayShares
<1>2. policy # NoPolicy /\ db.pagination_cursor < policy.total_investors
  BY DEF TypeInv, CursorOK
<1>3. /\ policy.total_investors \in Nat /\ policy.total_investors <= MaxInvestors
      /\ MaxInvestors \in Nat
  BY <1>2, PolicyFields, CrankAssumption DEF TypeInv
<1>4. /\ x \in Nat /\ T \in Nat /\ db.pagination_cursor \in Nat
      /\ db.current_day_total_claimed \in Nat
      /\ db.scanned \in [0 .. MaxInvestors -> Nat]
  BY AccountFields DEF TypeInv, TypeOK
<1>5. db.pagination_cursor \in 0 .. MaxInvestors
      /\ db.pagination_cursor \in 0 .. policy.total_investors
  BY <1>2, <1>3, <1>4
<1>6. S \in Nat
  BY <1>4, <1>5
<1>7. S <= T
  BY <1>1, <1>5 DEF OpenDay, Scanned
<1>8. F \in Nat
  BY <1>2, <1>4, InvestorFeeNat DEF TypeInv, InvestorPool
<1>9. Within(x, F, S, T)
  BY <1>1 DEF Shared
<1> HIDE DEF x, S, T, F
<1>10. x <= F
  BY <1>4, <1>6, <1>7, <1>8, <1>9, WithinWhole
<1> QED
  BY <1>10 DEF x, F

\* While streams only vest, investors never get, nor are carried, more than
\* their share of the day's total: the pages read the streams anew, round
\* anew and recycle each other's dust (crank_distribution.rs).
THEOREM InvestorsWithinShare ==
    ASSUME ~StreamsMayGrow
    PROVE  Spec => []WithinShare
<1>1. TypeInv /\ ShareInv => WithinShare
  BY OpenDayWithin, CloseBounds DEF WithinShare
<1> QED
  BY <1>1, ShareInvariant, PTL

\* While streams only vest, the treasury covers what the progress account
\* promises, in the middle of a day and between days.
THEOREM TreasuryBacked ==
    ASSUME ~StreamsMayGrow
    PROVE  Spec => []Backed
<1>1. TypeInv /\ ShareInv => Backed
  <2> SUFFICES ASSUME TypeInv, ShareInv PROVE Backed
    OBVIOUS
  <2>1. DayShares(db)
    BY DEF ShareInv
  <2>2. /\ db.treasury \in Nat /\ db.current_day_total_claimed \in Nat
        /\ db.current_day_distributed \in Nat
    BY AccountFields DEF TypeInv, TypeOK
  <2>3. CASE db.day_completed
    BY <2>1, <2>3 DEF DayShares, Backed
  <2>4. CASE ~db.day_completed
    <3>1. db.treasury + db.current_day_distributed >= db.current_day_total_claimed
      BY <2>1, <2>4 DEF DayShares, OpenDay
    <3> QED
      BY <2>2, <2>4, <3>1 DEF Backed
  <2> QED
    BY <2>3, <2>4
<1> QED
  BY <1>1, ShareInvariant, PTL

\* An amount within the fee is covered: the treasury holds the day's claim
\* less what is already distributed.
LEMMA TreasuryCovers ==
    ASSUME TypeInv, ShareInv, tx.pc \in {"pay", "carry"}, tx.fee = PageFee,
           NEW amount \in Nat, mem.current_day_distributed + amount <= tx.fee
    PROVE  amount <= mem.treasury
<1>1. OpenDay(mem) /\ tx.claimed_quote <= mem.current_day_total_claimed
  BY DEF ShareInv
<1>2. /\ mem.treasury \in Nat /\ mem.current_day_distributed \in Nat
      /\ mem.current_day_total_claimed \in Nat /\ tx.claimed_quote \in Nat
      /\ tx.fee \in Nat
  BY ShareFields
<1>3. tx.fee <= tx.claimed_quote
  BY <1>1, FeeOrder
<1>4. mem.treasury + mem.current_day_distributed >= mem.current_day_total_claimed
  BY <1>1 DEF OpenDay
<1> QED
  BY <1>1, <1>2, <1>3, <1>4

LEMMA PaysAll ==
    ASSUME TypeInv, ShareInv, \A p \in Policies : p.total_investors <= BITMAP_BITS,
           tx.pc = "pay", tx.idx < tx.to_process
    PROVE  ~PayFails
<1> DEFINE i == tx.page_start + tx.idx
           T == mem.current_day_total_locked_all
           D == mem.current_day_distributed
           x == D + tx.page_dust + tx.carry + Payout
           S == mem.scanned[tx.page_start] + tx.sums[tx.idx + 1]
<1>1. PayShares /\ OpenDay(mem)
  BY DEF ShareInv
<1>2. i \notin mem.paid_investor_bitmap
  <2>1. i \in Nat
    BY ShareFields
  <2>2. \A j \in mem.paid_investor_bitmap : j < i
    BY <1>1 DEF PayShares, PaidBelow
  <2> QED
    BY <2>1, <2>2
<1>3. i < BITMAP_BITS
  <2>1. i < policy.total_investors /\ i \in Investors
    BY PageIndex
  <2>2. policy \in Policies
    BY DEF TypeInv, TypeOK, ControlOK
  <2>3. policy.total_investors \in Nat
    BY PolicyFields DEF TypeInv, ControlOK
  <2>4. policy.total_investors <= BITMAP_BITS
    BY <2>2
  <2> QED
    BY <2>1, <2>3, <2>4, CrankAssumption DEF Investors
<1>4. /\ T \in Nat /\ D \in Nat /\ tx.page_dust \in Nat /\ tx.carry \in Nat
      /\ tx.fee \in Nat /\ tx.idx \in Nat /\ tx.to_process \in Nat
  BY ShareFields
<1>5. AllowedPayout \in Nat /\ Payout \in Nat /\ AllowedPayout <= Payout
  BY AllowedBelow
<1>6. S \in Nat /\ S <= T
  <2>1. /\ tx.idx + 1 \in 0 .. tx.to_process
    BY <1>4
  <2>2. /\ mem.scanned[tx.page_start] \in Nat /\ tx.sums[tx.idx + 1] \in Nat
        /\ mem.scanned[tx.page_start + (tx.idx + 1)] \in Nat
        /\ mem.scanned[tx.page_start + (tx.idx + 1)] <= T
    BY <2>1, <1>1, PageBounds
  <2>3. S <= mem.scanned[tx.page_start + (tx.idx + 1)]
    BY <2>1, <1>1 DEF PayShares, PageShares, PageSums
  <2> QED
    BY <2>2, <2>3, <1>4
<1>7. Within(x, tx.fee, S, T)
  BY PayWithin
<1>8. x \in Nat
  BY <1>4, <1>5
<1>9. x <= tx.fee
  <2> HIDE DEF x, S, T
  <2> QED
    BY <1>4, <1>6, <1>7, <1>8, WithinWhole
<1>10. D + AllowedPayout <= tx.fee
  BY <1>4, <1>5, <1>9
<1>11. tx.fee = PageFee
  BY <1>1 DEF PayShares, PageShares
<1>12. AllowedPayout <= mem.treasury
  BY <1>5, <1>10, <1>11, TreasuryCovers
<1>13. mem.treasury \in Nat /\ i \in Nat /\ BITMAP_BITS \in Nat
  <2>1. mem.treasury \in Nat /\ tx.page_start \in Nat /\ tx.idx \in Nat
    BY ShareFields
  <2>2. BITMAP_BITS \in Nat
    BY CrankAssumption
  <2> QED
    BY <2>1, <2>2
<1> HIDE DEF i
<1>14. ~(AllowedPayout > mem.treasury) /\ ~(i >= BITMAP_BITS)
  BY <1>3, <1>5, <1>12, <1>13
<1> QED
  BY <1>2, <1>14 DEF PayFails, i

LEMMA CarriesAll ==
    ASSUME TypeInv, ShareInv, tx.pc = "carry", tx.idx < tx.to_process
    PROVE  ~CarryFails
<1> DEFINE T == mem.current_day_total_locked_all
           D == mem.current_day_distributed
           C == CarryShare
           p == IndividualLocked(tx.idx)
           cd == tx.carry_distributed
           k == tx.idx
           n == tx.to_process
           S == mem.scanned[PageEnd]
<1>1. CarryShares /\ OpenDay(mem)
  BY DEF ShareInv
<1>2. p \in Nat /\ PageLocked \in Nat
  BY IndividualNat
<1>3. /\ D \in Nat /\ tx.page_dust \in Nat /\ tx.carry \in Nat /\ T \in Nat
      /\ tx.page_start \in Nat /\ n \in Nat /\ k \in Nat /\ tx.fee \in Nat /\ cd \in Nat
      /\ mem.treasury \in Nat
  BY ShareFields
<1>4. C \in Nat /\ C = ProRata(cd, p, PageLocked)
  BY <1>2, <1>3, ProRataNat DEF CarryShare
<1>5. PICK paid \in 0 .. D :
         /\ Within(paid, cd, tx.sums[k], PageLocked)
         /\ Within(D - paid + tx.page_dust + tx.carry, tx.fee, S, T)
  BY <1>1 DEF CarryShares
<1>6. paid \in Nat /\ paid <= D
  BY <1>3
<1>7. paid + C <= cd
  <2>1. tx.sums[k] \in Nat
    BY <1>1, <1>3, PageBounds
  <2>2. tx.sums[k + 1] \in Nat
    BY <1>1, <1>3, PageBounds
  <2>3. tx.sums[k] + p = tx.sums[k + 1]
    BY <2>1, <2>2 DEF IndividualLocked
  <2>4. tx.sums[k] + p <= PageLocked
    <3>1. k + 1 \in 0 .. n
      BY <1>3
    <3>2. tx.sums[k + 1] <= tx.sums[n]
      BY <3>1, <1>1 DEF CarryShares, PageShares, PageSums
    <3> QED
      BY <3>2, <2>3 DEF PageLocked
  <2>5. Within(paid, cd, tx.sums[k], PageLocked)
    BY <1>5
  <2> HIDE DEF cd, p, C
  <2>6. Within(paid + ProRata(cd, p, PageLocked), cd, tx.sums[k] + p, PageLocked)
    BY <2>1, <2>5, <1>2, <1>3, <1>6, WithinNext
  <2>7. Within(paid + C, cd, tx.sums[k] + p, PageLocked)
    BY <2>6, <1>4
  <2>8. paid + C \in Nat /\ tx.sums[k] + p \in Nat
    BY <2>1, <1>2, <1>4, <1>6
  <2> QED
    BY <2>4, <2>7, <2>8, <1>2, <1>3, WithinWhole
<1>8. cd <= tx.carry /\ tx.fee = PageFee
  BY <1>1 DEF CarryShares, PageShares
<1> DEFINE x == D - paid + tx.page_dust + tx.carry
<1>9. x \in Nat
  BY <1>3, <1>6
<1>10. S \in Nat /\ S <= T
  BY <1>1, <1>3, PageBounds DEF PageEnd
<1>11. x <= tx.fee
  <2>1. Within(x, tx.fee, S, T)
    BY <1>5
  <2> HIDE DEF x, S, T
  <2> QED
    BY <2>1, <1>3, <1>9, <1>10, WithinWhole
<1>12. D + C <= tx.fee
  <2> HIDE DEF C
  <2> QED
    BY <1>3, <1>4, <1>6, <1>7, <1>8, <1>11
<1>13. C <= mem.treasury
  <2> HIDE DEF C
  <2> QED
    BY <1>4, <1>8, <1>12, TreasuryCovers
<1>14. ~(CarryShare > mem.treasury)
  BY <1>3, <1>4, <1>13
<1> QED
  BY <1>14 DEF CarryFails

LEMMA ClosesDay ==
    ASSUME TypeInv, ShareInv, tx.pc = "close"
    PROVE  ~CloseFails
<1>1. mem.treasury \in Nat /\ mem.current_day_carry_over \in Nat
  BY ShareFields
<1>2. Remainder \in Nat /\ Remainder + mem.current_day_carry_over <= mem.treasury
  BY CloseBounds
<1> HIDE DEF Remainder
<1> QED
  BY <1>1, <1>2 DEF CloseFails

\* While streams only vest and the bitmap has a bit for every investor, no
\* page runs into an error: nobody is InvestorAlreadyPaid and the treasury
\* covers every transfer, to the investors and to the creator.
THEOREM PagesNeverFail ==
    ASSUME ~StreamsMayGrow,
           \A p \in Policies : p.total_investors <= BITMAP_BITS
    PROVE  Spec => []NoPageFails
<1>1. TypeInv /\ ShareInv => NoPageFails
  BY PaysAll, CarriesAll, ClosesDay DEF NoPageFails, PageFails
<1> QED
  BY <1>1, ShareInvariant, PTL

-----------------------------------------------------------------------------
(* Dust.  The finding of run crank_dust is about days done in one page:    *)
(* there the first page, which divides only what it has just claimed, also *)
(* closes the day.  Days of two pages or more strand nothing.              *)

\* A completed day has left its dust and nothing else; an open day has its
\* total in the treasury, less what it has distributed.
Balanced(a) ==
    IF a.day_completed
    THEN a.treasury = a.persistent_carry_over
    ELSE a.treasury + a.current_day_distributed = a.current_day_total_claimed

\* A page that closes a day divides the whole of the day's total.
WholeTotal ==
    ~tx.starting => tx.claimed_quote = mem.current_day_total_claimed

DustInv ==
    /\ Balanced(db) /\ Balanced(mem)
    /\ tx.pc # "idle" => tx.page_size \in PageSizes
    /\ tx.pc = "scan" => mem.day_completed
    /\ tx.pc \in {"read", "pay", "carry", "close"} =>
         ~mem.day_completed /\ WholeTotal
    /\ tx.pc = "close" => ~tx.starting

LEMMA DustInit == Init => DustInv
<1> SUFFICES ASSUME Init PROVE DustInv
  OBVIOUS
<1>1. tx.pc = "idle" /\ db = FreshAccounts /\ mem = FreshAccounts
  BY DEF Init, Idle
<1>2. /\ FreshAccounts.day_completed /\ FreshAccounts.treasury = 0
      /\ FreshAccounts.persistent_carry_over = 0
  BY DEF FreshAccounts
<1> QED
  BY <1>1, <1>2 DEF DustInv, Balanced

\* The page that starts a day is not its last, if every roster is longer
\* than a page.
LEMMA FirstIsNotLast ==
    ASSUME TypeInv, DustInv, tx.pc # "idle", tx.starting,
           \A n \in PageSizes, p \in Policies : n < p.total_investors
    PROVE  ~IsFinalPage
<1>1. /\ db.day_completed /\ tx.page_start = db.pagination_cursor
      /\ tx.to_process = Least(tx.page_size, policy.total_investors - tx.page_start)
      /\ policy # NoPolicy /\ policy \in Policies
  BY DEF TypeInv, TypeOK, ControlOK
<1>2. tx.page_start = 0
  BY <1>1 DEF TypeInv, CursorOK
<1>3. tx.page_size \in PageSizes /\ tx.page_size \in Nat
  BY CrankAssumption DEF DustInv
<1>4. policy.total_investors \in Nat /\ tx.page_size < policy.total_investors
  BY <1>1, <1>3, PolicyFields DEF TypeInv
<1>5. tx.to_process = tx.page_size
  BY <1>1, <1>2, <1>3, <1>4 DEF Least
<1> QED
  BY <1>2, <1>3, <1>4, <1>5 DEF IsFinalPage

\* A transfer to an investor moves an amount from one side to the other.
LEMMA PaidBalanced ==
    ASSUME NEW a \in Accounts, NEW amount \in Nat, NEW b,
           Balanced(a), ~a.day_completed, ~b.day_completed,
           b.treasury = a.treasury - amount,
           b.current_day_distributed = a.current_day_distributed + amount,
           b.current_day_total_claimed = a.current_day_total_claimed
    PROVE  Balanced(b)
  BY AccountFields DEF Balanced

LEMMA DustTxStep ==
    ASSUME TypeInv, ShareInv, DustInv, TxStep,
           \A n \in PageSizes, p \in Policies : n < p.total_investors
    PROVE  DustInv'
<1>1. mem \in Accounts /\ tx \in Transactions
  BY DEF TypeInv, TypeOK
<1>2. ASSUME ScanStream PROVE DustInv'
  <2>1. /\ tx.pc = "scan" /\ tx'.pc = tx.pc /\ tx'.page_size = tx.page_size
        /\ mem'.treasury = mem.treasury /\ mem'.day_completed = mem.day_completed
        /\ mem'.persistent_carry_over = mem.persistent_carry_over
        /\ db' = db
    BY <1>1, <1>2 DEF ScanStream, Accounts, Transactions
  <2> QED
    BY <2>1 DEF DustInv, Balanced
<1>3. ASSUME ClaimAndStartDay PROVE DustInv'
  <2> DEFINE claimed == mem.unclaimed
             day == StartNewDay(mem, clock, claimed, TotalLocked)
             funds == day.treasury + claimed
             sum == day.total_fees_claimed + claimed
  <2>1. /\ tx.pc = "scan" /\ db' = db
        /\ mem' = [day EXCEPT !.treasury = funds, !.unclaimed = 0,
                              !.total_fees_claimed = sum]
        /\ tx' = [tx EXCEPT !.pc = "read", !.idx = 0, !.claimed_quote = claimed]
    BY <1>3 DEF ClaimAndStartDay
  <2>2. claimed \in Nat /\ clock \in Nat /\ TotalLocked \in Nat
    BY <1>1, <1>3, <2>1, AccountFields, TotalLockedNat DEF TypeInv, TypeOK
  <2>3. day \in Accounts
    BY <1>1, <2>2, StartNewDayType
  <2>4. /\ day.treasury = mem.treasury /\ ~day.day_completed
        /\ day.current_day_distributed = 0
        /\ day.current_day_total_claimed = claimed + mem.persistent_carry_over
    BY <1>1 DEF StartNewDay, Accounts
  <2> HIDE DEF day, claimed
  <2>5. /\ mem'.treasury = funds /\ ~mem'.day_completed
        /\ mem'.current_day_distributed = 0
        /\ mem'.current_day_total_claimed = day.current_day_total_claimed
        /\ tx'.pc = "read" /\ tx'.page_size = tx.page_size
        /\ tx'.starting = tx.starting
    <3> HIDE DEF funds, sum
    <3> QED
      BY <1>1, <2>1, <2>3, <2>4 DEF Accounts, Transactions
  <2>6. mem.day_completed /\ mem.treasury = mem.persistent_carry_over
    BY <2>1 DEF DustInv, Balanced
  <2>7. mem.treasury \in Nat
    BY ShareFields
  <2>8. Balanced(mem')
    BY <2>2, <2>4, <2>5, <2>6, <2>7 DEF Balanced
  <2>9. tx'.starting
    BY <2>1, <2>5 DEF TypeInv, ControlOK
  <2> QED
    BY <2>1, <2>5, <2>8, <2>9 DEF DustInv, WholeTotal, Balanced
<1>4. ASSUME ReadStream PROVE DustInv'
  <2>1. /\ mem' = mem /\ db' = db /\ tx.pc = "read" /\ tx'.pc = tx.pc
        /\ tx'.page_size = tx.page_size /\ tx'.starting = tx.starting
        /\ tx'.claimed_quote = tx.claimed_quote
    BY <1>1, <1>4 DEF ReadStream, Transactions
  <2> QED
    BY <2>1 DEF DustInv, WholeTotal, Balanced
<1>5. ASSUME ComputeShares PROVE DustInv'
  <2>1. /\ tx.pc = "read" /\ tx'.pc = "pay" /\ db' = db
        /\ tx'.page_size = tx.page_size /\ tx'.starting = tx.starting
        /\ tx'.claimed_quote = tx.claimed_quote
        /\ mem'.day_completed = mem.day_completed
        /\ mem'.treasury = mem.treasury
        /\ mem'.persistent_carry_over = mem.persistent_carry_over
        /\ mem'.current_day_distributed = mem.current_day_distributed
        /\ mem'.current_day_total_claimed = mem.current_day_total_claimed
    BY <1>1, <1>5 DEF ComputeShares, Accounts, Transactions
  <2> QED
    BY <2>1 DEF DustInv, WholeTotal, Balanced
<1>6. ASSUME PayInvestor PROVE DustInv'
  <2>1. tx.pc = "pay" /\ tx.idx < tx.to_process /\ db' = db
    BY <1>6 DEF PayInvestor
  <2>2. AllowedPayout \in Nat
    BY <2>1, AllowedNat
  <2>3. /\ tx'.pc = tx.pc /\ tx'.page_size = tx.page_size
        /\ tx'.starting = tx.starting /\ tx'.claimed_quote = tx.claimed_quote
    BY <1>1, <1>6 DEF PayInvestor, Transactions
  <2>4. /\ mem'.day_completed = mem.day_completed
        /\ mem'.treasury = mem.treasury - AllowedPayout
        /\ mem'.current_day_distributed = mem.current_day_distributed + AllowedPayout
        /\ mem'.current_day_total_claimed = mem.current_day_total_claimed
    BY <1>1, <1>6 DEF PayInvestor, PaidOut, Accounts
  <2>5. ~mem.day_completed /\ Balanced(mem)
    BY <2>1 DEF DustInv
  <2>6. Balanced(mem')
    BY <1>1, <2>2, <2>4, <2>5, PaidBalanced
  <2> QED
    BY <2>1, <2>3, <2>4, <2>5, <2>6 DEF DustInv, WholeTotal, Balanced
<1>7. ASSUME PayLoopDone PROVE DustInv'
  <2>1. /\ tx.pc = "pay" /\ tx'.pc = "carry" /\ db' = db /\ mem' = mem
        /\ tx'.page_size = tx.page_size /\ tx'.starting = tx.starting
        /\ tx'.claimed_quote = tx.claimed_quote
    BY <1>1, <1>7 DEF PayLoopDone, Transactions
  <2> QED
    BY <2>1 DEF DustInv, WholeTotal, Balanced
<1>8. ASSUME DistributeCarry PROVE DustInv'
  <2>1. tx.pc = "carry" /\ tx.idx < tx.to_process /\ db' = db
    BY <1>8 DEF DistributeCarry
  <2>2. CarryShare \in Nat
    BY <1>1, <2>1, IndividualNat, ProRataNat, TransactionFields DEF CarryShare
  <2>3. /\ tx'.pc = tx.pc /\ tx'.page_size = tx.page_size
        /\ tx'.starting = tx.starting /\ tx'.claimed_quote = tx.claimed_quote
    BY <1>1, <1>8 DEF DistributeCarry, Transactions
  <2>4. /\ mem'.day_completed = mem.day_completed
        /\ mem'.treasury = mem.treasury - CarryShare
        /\ mem'.current_day_distributed = mem.current_day_distributed + CarryShare
        /\ mem'.current_day_total_claimed = mem.current_day_total_claimed
    BY <1>1, <1>8 DEF DistributeCarry, PaidOut, Accounts
  <2>5. ~mem.day_completed /\ Balanced(mem)
    BY <2>1 DEF DustInv
  <2>6. Balanced(mem')
    BY <1>1, <2>2, <2>4, <2>5, PaidBalanced
  <2> QED
    BY <2>1, <2>3, <2>4, <2>5, <2>6 DEF DustInv, WholeTotal, Balanced
<1>9. ASSUME SettlePage PROVE DustInv'
  <2>1. /\ tx.pc = "carry" /\ tx'.pc \in {"close", "commit"} /\ db' = db
        /\ tx'.page_size = tx.page_size /\ tx'.starting = tx.starting
        /\ tx'.claimed_quote = tx.claimed_quote
        /\ tx'.pc = "close" => IsFinalPage
    BY <1>1, <1>9 DEF SettlePage, Transactions
  <2>2. /\ mem'.day_completed = mem.day_completed
        /\ mem'.treasury = mem.treasury
        /\ mem'.persistent_carry_over = mem.persistent_carry_over
        /\ mem'.current_day_distributed = mem.current_day_distributed
        /\ mem'.current_day_total_claimed = mem.current_day_total_claimed
    BY <1>1, <1>9 DEF SettlePage, Accounts
  <2>3. tx'.pc = "close" => ~tx'.starting
    BY <2>1, FirstIsNotLast
  <2> QED
    BY <2>1, <2>2, <2>3 DEF DustInv, WholeTotal, Balanced
<1>10. ASSUME CloseDay PROVE DustInv'
  <2> DEFINE D == mem.current_day_distributed
             c == mem.current_day_carry_over
             q == tx.claimed_quote
  <2>1. /\ tx.pc = "close" /\ tx'.pc = "commit" /\ db' = db
        /\ tx'.page_size = tx.page_size
    BY <1>1, <1>10 DEF CloseDay, Transactions
  <2>2. /\ mem'.day_completed = TRUE
        /\ mem'.treasury = mem.treasury - Remainder
        /\ mem'.persistent_carry_over = c
    BY <1>1, <1>10 DEF CloseDay, CompleteDay, Accounts
  <2>3. mem.treasury + D = q /\ q <= mem.current_day_total_claimed
    BY <2>1 DEF DustInv, WholeTotal, Balanced, ShareInv
  <2>4. tx.fee <= q /\ D + c <= tx.fee
    BY <2>1, <2>3, FeeOrder, CloseBounds DEF ShareInv, CloseShares
  <2>5. /\ D \in Nat /\ c \in Nat /\ q \in Nat /\ mem.treasury \in Nat
        /\ tx.fee \in Nat
    BY ShareFields
  <2>6. Remainder = Monus(Monus(q, D), c)
    BY DEF Remainder, CreatorRemainder
  <2> HIDE DEF D, c, q
  <2>7. Remainder = (q - D) - c
    BY <2>4, <2>5, <2>6 DEF Monus
  <2>8. mem'.treasury = c
    BY <2>2, <2>3, <2>5, <2>7
  <2>9. Balanced(mem')
    BY <2>2, <2>8 DEF Balanced
  <2> QED
    BY <2>1, <2>9 DEF DustInv, Balanced
<1>11. ASSUME Commit PROVE DustInv'
  <2>1. tx'.pc = "idle" /\ mem' = mem /\ db' = mem
    BY <1>11 DEF Commit, Idle
  <2> QED
    BY <2>1 DEF DustInv, Balanced
<1>12. ASSUME Fail PROVE DustInv'
  <2>1. tx'.pc = "idle" /\ mem' = db /\ db' = db
    BY <1>12 DEF Fail, Revert, Idle
  <2> QED
    BY <2>1 DEF DustInv, Balanced
<1> QED
  BY <1>2, <1>3, <1>4, <1>5, <1>6, <1>7, <1>8, <1>9, <1>10, <1>11, <1>12 DEF TxStep

LEMMA DustStep ==
    ASSUME \A n \in PageSizes, p \in Policies : n < p.total_investors
    PROVE  TypeInv /\ ShareInv /\ DustInv /\ [Next]_vars => DustInv'
<1> SUFFICES ASSUME TypeInv, ShareInv, DustInv, [Next]_vars PROVE DustInv'
  OBVIOUS
<1>1. ASSUME UNCHANGED <<db, mem, tx>> PROVE DustInv'
  BY <1>1 DEF DustInv, WholeTotal, Balanced
<1>2. ASSUME NEW p \in Policies, SetupPolicy(p) PROVE DustInv'
  BY <1>1, <1>2 DEF SetupPolicy
<1>3. ASSUME NEW start \in PageStarts, NEW size \in PageSizes, Begin(start, size)
      PROVE  DustInv'
  <2> DEFINE starting == IsFirstPage(db, start) /\ db.day_completed
             claimed == IF starting THEN 0 ELSE db.current_day_total_claimed
  <2>1. /\ tx.pc = "idle" /\ UNCHANGED <<db, mem>> /\ mem = db
    BY <1>3 DEF Begin, CallAccepted, TypeInv, ControlOK
  <2>2. /\ tx'.pc = (IF starting THEN "scan" ELSE "read")
        /\ tx'.page_size = size
        /\ tx'.starting = starting
        /\ tx'.claimed_quote = claimed
    <3> HIDE DEF starting, claimed
    <3> QED
      BY <1>3 DEF Begin, Idle, starting, claimed
  <2>3. ~starting => ~db.day_completed
    <3>1. CASE db.day_completed
      <4>1. db.pagination_cursor = 0
        BY <3>1 DEF TypeInv, CursorOK
      <4> QED
        BY <1>3, <3>1, <4>1 DEF Begin, IsFirstPage
    <3> QED
      BY <3>1
  <2>4. starting => db.day_completed
    OBVIOUS
  <2>5. ~starting => tx'.claimed_quote = db.current_day_total_claimed
    BY <2>2
  <2> HIDE DEF starting, claimed
  <2> QED
    BY <2>1, <2>2, <2>3, <2>4, <2>5 DEF DustInv, WholeTotal, Balanced
<1>4. ASSUME NEW start \in PageStarts, NEW size \in PageSizes,
             RetryPreviousPage(start, size)
      PROVE  DustInv'
  BY <1>1, <1>4 DEF RetryPreviousPage, vars
<1>5. CASE TxStep
  BY <1>5, DustTxStep
<1>6. CASE Drop
  <2>1. tx'.pc = "idle" /\ mem' = db /\ db' = db
    BY <1>6 DEF Drop, Revert, Idle
  <2> QED
    BY <2>1 DEF DustInv, Balanced
<1>7. ASSUME NEW amount \in FeeSteps, Accrue(amount) PROVE DustInv'
  <2>1. /\ tx.pc = "idle" /\ tx' = tx /\ mem' = db'
        /\ db'.day_completed = db.day_completed
        /\ db'.treasury = db.treasury
        /\ db'.persistent_carry_over = db.persistent_carry_over
        /\ db'.current_day_distributed = db.current_day_distributed
        /\ db'.current_day_total_claimed = db.current_day_total_claimed
    BY <1>7 DEF Accrue, TypeInv, TypeOK, Accounts
  <2> QED
    BY <2>1 DEF DustInv, Balanced
<1>8. ASSUME NEW i \in Investors, Vest(i) \/ TopUp(i) PROVE DustInv'
  BY <1>1, <1>8 DEF Vest, TopUp
<1>9. CASE Tick
  BY <1>1, <1>9 DEF Tick
<1>10. CASE UNCHANGED vars
  BY <1>1, <1>10 DEF vars
<1> QED
  BY <1>2, <1>3, <1>4, <1>5, <1>6, <1>7, <1>8, <1>9, <1>10 DEF Next

\* While streams only vest and every page is shorter than the roster, a
\* completed day leaves in the treasury exactly the dust that the next day
\* distributes (complete_day and start_new_day, progress.rs): only a day
\* done in a single page strands any.
THEOREM LongDaysStrandNothing ==
    ASSUME ~StreamsMayGrow,
           \A n \in PageSizes, p \in Policies : n < p.total_investors
    PROVE  Spec => []NoDustStranded
<1>1. TypeInv /\ ShareInv /\ DustInv /\ [Next]_vars => DustInv'
  BY DustStep
<1>2. Spec => []DustInv
  BY <1>1, DustInit, ShareInvariant, PTL DEF Spec
<1>3. DustInv => NoDustStranded
  BY DEF DustInv, Balanced, NoDustStranded
<1> QED
  BY <1>2, <1>3, PTL
=============================================================================
