----------------------------- MODULE ChainSpec -----------------------------
(***************************************************************************)
(* The consensus layer's clock and fork schedule, as the handlers use      *)
(* them.  The schedule itself is lighthouse's ChainSpec (external).        *)
(***************************************************************************)
EXTENDS Integers

CONSTANTS
    genesis_time,
    seconds_per_slot,
    fork_slot           \* fork_slot[i]: the slot at which fork i activates

\* The forks in order; those eleel builds or decodes payloads for start at 3.
ForkName == <<"Base", "Altair", "Bellatrix", "Capella", "Deneb", "Electra",
              "Fulu">>

Fork == {ForkName[i] : i \in 1 .. 7}

ASSUME ChainSpecAssumption ==
    /\ genesis_time \in Nat
    /\ seconds_per_slot \in Nat
    /\ fork_slot \in [1 .. 7 -> Nat]
    /\ fork_slot[1] = 0

\* The None of timestamp_to_slot.
NoSlot == -1

\* checked_sub and checked_div: None before genesis, and for slots of length 0.
timestamp_to_slot(timestamp) ==
    IF timestamp < genesis_time \/ seconds_per_slot = 0
    THEN NoSlot
    ELSE (timestamp - genesis_time) \div seconds_per_slot

\* The latest fork whose activation slot has come.
fork_name_at_slot(slot) ==
    ForkName[CHOOSE i \in 1 .. 7 :
                /\ fork_slot[i] <= slot
                /\ \A j \in 1 .. 7 : fork_slot[j] <= slot => j <= i]
=============================================================================
