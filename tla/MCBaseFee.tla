----------------------------- MODULE MCBaseFee -----------------------------
(***************************************************************************)
(* expected_base_fee_per_gas against a division-free statement of          *)
(* EIP-1559, along chains of blocks: each block's fee is the one expected  *)
(* of its parent's fee and gas.                                            *)
(***************************************************************************)
EXTENDS BaseFee

CONSTANTS MaxFee, MaxGasLimit     \* bounds

ASSUME BoundsAssumption == MaxFee \in Nat /\ MaxGasLimit \in Nat

VARIABLES
    parent,   \* the parent's fee, gas used and gas limit
    fee       \* the fee expected of its child

vars == <<parent, fee>>

Expected(p) ==
    expected_base_fee_per_gas(p.base_fee_per_gas, p.gas_used, p.gas_limit)

\* Blocks with the given fee.  A gas limit below 2 makes the target 0.
BlocksWithFee(f) ==
    {[base_fee_per_gas |-> f, gas_used |-> used, gas_limit |-> limit] :
        used \in 0 .. MaxGasLimit, limit \in 2 .. MaxGasLimit}

Init ==
    /\ parent \in {p \in UNION {BlocksWithFee(f) : f \in 1 .. MaxFee} :
                     p.gas_used <= p.gas_limit}
    /\ fee = Expected(parent)

NextBlock ==
    /\ fee <= MaxFee
    /\ parent' \in {p \in BlocksWithFee(fee) : p.gas_used <= p.gas_limit}
    /\ fee' = Expected(parent')

\* The bound is reached.
Rest == fee > MaxFee /\ UNCHANGED vars

Next == NextBlock \/ Rest

Spec == Init /\ [][Next]_vars

\* n is the quotient of a and b, rounded down.
IsQuotient(n, a, b) == n * b <= a /\ a < (n + 1) * b

(***************************************************************************)
(* The fee moves by the product of the parent's fee and its distance from  *)
(* the target, divided by eight targets in one go, although the code       *)
(* divides twice, multiplies first and saturates; a rise is at least 1.    *)
(***************************************************************************)
FeeFollowsEip1559 ==
    LET target == parent.gas_limit \div 2
        old == parent.base_fee_per_gas
        distance == parent.gas_used - target
    IN  \/ distance = 0 /\ fee = old
        \/ /\ distance > 0
           /\ \/ IsQuotient(fee - old, old * distance, 8 * target)
              \/ fee - old = 1 /\ old * distance < 8 * target
           /\ fee > old
        \/ /\ distance < 0
           /\ IsQuotient(old - fee, old * (0 - distance), 8 * target)

\* However many empty blocks follow each other, the fee never reaches 0, from
\* which expected_base_fee_per_gas could not raise it in proportion again.
FeeStaysPositive == fee > 0
=============================================================================
