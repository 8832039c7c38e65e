--------------------------- MODULE MCCpAmmRewards ---------------------------
(***************************************************************************)
(* A small instance of CpAmmRewards for TLC.                               *)
(***************************************************************************)
EXTENDS CpAmmRewards, TLC

CONSTANTS p1, p2, admin, creator, funder

\* A quarter, at most 1
MCRewardFee == [basis_points |-> 1, maximum_fee |-> 1]
MCTransferFees == {MCRewardFee}

MCSplits == {[liquidity |-> 1, reward |-> 2], [liquidity |-> 2, reward |-> 0]}
=============================================================================
