-------------------------- MODULE MCFeeRouterCrank --------------------------
(***************************************************************************)
(* Small instances of FeeRouterCrank for TLC.                              *)
(***************************************************************************)
EXTENDS FeeRouterCrank, TLC

Policy(bps, y0, cap, min, n) ==
    [investor_fee_share_bps |-> bps, y0_total_allocation |-> y0,
     daily_cap |-> cap, min_payout_lamports |-> min, total_investors |-> n]

\* Eight "basis points" to the whole.  The last three are refused.
MCPolicies ==
    {Policy(6, 4, {}, 2, 3), Policy(8, 4, {3}, 3, 3)}
      \cup {Policy(9, 4, {}, 2, 1), Policy(8, 0, {}, 2, 1), Policy(8, 4, {}, 1, 1)}

\* All fees to the investors while a quarter of the tokens is locked.
MCGrowthPolicies == {Policy(8, 1, {}, 2, 3), Policy(8, 4, {3}, 3, 3)}

Streams(a, b, c) == (0 :> a) @@ (1 :> b) @@ (2 :> c)
MCLocked == {Streams(2, 1, 1)}
=============================================================================
