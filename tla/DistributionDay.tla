-------------------------- MODULE DistributionDay --------------------------
(***************************************************************************)
(* What the fee router promises about one vault's distribution days,       *)
(* without pages, cursors, bitmaps, transactions or money:                 *)
(*                                                                         *)
(*   - days of the same vault start at least one day length apart;         *)
(*   - within a day every investor of the roster is served exactly once,   *)
(*     in groups whose order and size are the crankers' choice;            *)
(*   - a day closes with the group that serves the last investor.          *)
(*                                                                         *)
(* FeeRouterCrank implements it (see DayProtocol there).                   *)
(***************************************************************************)
EXTENDS Naturals

CONSTANTS
    Candidates,   \* everybody who may be on a roster
    DayLength     \* the least time between the starts of two days

VARIABLES
    roster,   \* the investors of the vault; empty until the policy is set up
    open,     \* TRUE between the first and the last group of a day
    served,   \* who has been served in the current (or the last) day
    started,  \* when the current (or the last) day started
    now

dayVars == <<roster, open, served, started, now>>

Init ==
    /\ roster = {}
    /\ open = FALSE
    /\ served = {}
    /\ started = 0
    /\ now \in Nat

\* The vault's investors are fixed once and for all.
Enroll ==
    /\ roster = {}
    /\ roster' \in (SUBSET Candidates) \ {{}}
    /\ UNCHANGED <<open, served, started, now>>

\* Serve one group; the day stays open while somebody is left.
Serve(group) ==
    /\ group # {}
    /\ group \subseteq roster
    /\ UNCHANGED <<roster, now>>
    /\ \/ /\ ~open                       \* the group that starts a day
          /\ now >= started + DayLength
          /\ started' = now
          /\ served' = group
       \/ /\ open                        \* a later group of the same day
          /\ group \cap served = {}
          /\ started' = started
          /\ served' = served \cup group
    /\ open' = (served' # roster)

Tick ==
    /\ now' \in Nat
    /\ now' > now
    /\ UNCHANGED <<roster, open, served, started>>

Next == Enroll \/ (\E group \in SUBSET Candidates : Serve(group)) \/ Tick

Spec == Init /\ [][Next]_dayVars
=============================================================================
