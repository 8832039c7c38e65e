---------------------------- MODULE TransferFees ----------------------------
(***************************************************************************)
(* Mints of Token-2022 that keep a part of every transfer, utils/token.rs: *)
(* how much arrives of what is sent, and how much must be sent for an      *)
(* amount to arrive.  A fee is the TransferFee of the epoch, at most       *)
(* maximum_fee; a mint without one has basis_points 0.                     *)
(***************************************************************************)
EXTENDS CpAmmMath

CONSTANTS
    MAX_FEE_BASIS_POINTS,   \* 10_000
    TransferFees            \* the fees that mints may have

ASSUME TransferAssumption ==
    /\ MAX_FEE_BASIS_POINTS \in Nat \ {0}
    /\ TransferFees \subseteq
         [basis_points : 0 .. MAX_FEE_BASIS_POINTS, maximum_fee : Nat]

\* TransferFee::calculate_fee
CalculateFee(fee, amount) ==
    Least(CeilDiv(amount * fee.basis_points, MAX_FEE_BASIS_POINTS), fee.maximum_fee)

\* TransferFee::calculate_pre_fee_amount, for fees below 100 %
PreFeeAmount(fee, arriving) ==
    LET raw == CeilDiv(arriving * MAX_FEE_BASIS_POINTS,
                       MAX_FEE_BASIS_POINTS - fee.basis_points)
    IN IF raw - arriving >= fee.maximum_fee THEN arriving + fee.maximum_fee ELSE raw

\* calculate_transfer_fee_excluded_amount: what arrives
Excluded(fee, included) == included - CalculateFee(fee, included)

InverseFee_Forward(fee, excluded) ==
    IF fee.basis_points = MAX_FEE_BASIS_POINTS THEN fee.maximum_fee
    ELSE CalculateFee(fee, excluded)

\* The fee on top of what shall arrive.  The library has no inverse for a
\* fee of 100 %, of which nothing arrives below the greatest fee.
InverseFee(fee, excluded) ==
    IF fee.basis_points = MAX_FEE_BASIS_POINTS THEN fee.maximum_fee
    ELSE CalculateFee(fee, PreFeeAmount(fee, excluded))

\* calculate_transfer_fee_included_amount: what must be sent
Included(fee, excluded) ==
    IF excluded = 0 THEN 0 ELSE excluded + InverseFee(fee, excluded)

\* Its last check: otherwise FeeInverseIsIncorrect
InverseIsCorrect(fee, excluded) ==
    excluded # 0 =>
        CalculateFee(fee, Included(fee, excluded)) = InverseFee(fee, excluded)

-----------------------------------------------------------------------------
(* What must hold of the arithmetic, for any fee and any amount: proved in  *)
(* TransferFeesProofs.                                                     *)

\* token.rs:117 "We believe this should never happen": the fee computed
\* backwards is the fee the mint will keep, whatever the rate, the limit and
\* the amount, so that no instruction fails with FeeInverseIsIncorrect, and
\* exactly the amount the pool counts on arrives.
InverseNeverFails ==
    \A fee \in TransferFees, amount \in Nat :
        /\ InverseIsCorrect(fee, amount)
        /\ Excluded(fee, Included(fee, amount)) = amount

\* If only a part is taken of what would have arrived, no more is asked for
\* than was offered.
PartNeverCostsMore ==
    \A fee \in TransferFees, offered \in Nat :
        \A part \in 0 .. Excluded(fee, offered) : Included(fee, part) <= offered
=============================================================================
