---------------------------- MODULE MCPoolAccess ----------------------------
(***************************************************************************)
(* Small instances of PoolAccess for TLC.                                  *)
(***************************************************************************)
EXTENDS PoolAccess, TLC

PerType(slot, timestamp) == ("Slot" :> slot) @@ ("Timestamp" :> timestamp)

\* A slot is less than a second: buffers are longer in slots.
MCBuffer == PerType(2, 1)
MCFiveMinutes == PerType(1, 1)
MCMaxActivation == PerType(4, 3)
=============================================================================
