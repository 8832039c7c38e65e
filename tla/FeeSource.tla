----------------------------- MODULE FeeSource -----------------------------
(***************************************************************************)
(* What the daily distribution takes for granted of the honorary position, *)
(* and what the position and the pool behind it deliver: fees in the quote *)
(* token add up, nobody but the program claims them, and a claim receives  *)
(* all that has been earned and not claimed before, once.                  *)
(*                                                                         *)
(* FeeRouterCrank (the side that claims) and HonoraryPosition (the side    *)
(* that earns) both implement this interface.                              *)
(***************************************************************************)
EXTENDS Integers

VARIABLES
    owed,      \* quote tokens earned and not yet claimed
    received   \* quote tokens the program has recorded as claimed

vars == <<owed, received>>

Init ==
    /\ owed = 0
    /\ received = 0

Accrue ==
    /\ owed' \in Nat /\ owed' > owed
    /\ UNCHANGED received

Claim ==
    /\ received' = received + owed
    /\ owed' = 0

Next == Accrue \/ Claim

Spec == Init /\ [][Next]_vars
=============================================================================
