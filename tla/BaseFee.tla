------------------------------ MODULE BaseFee ------------------------------
(***************************************************************************)
(* The EIP-1559 base fee of a block, from its parent (src/base_fee.rs).    *)
(* Fees are 256-bit in the code and never come near that bound.            *)
(***************************************************************************)
EXTENDS Integers

ELASTICITY_MULTIPLIER == 2
BASE_FEE_MAX_CHANGE_DENOMINATOR == 8

\* The target is 0 and some gas was used: the division panics.
BaseFeePanics(gas_used, gas_limit) ==
    gas_limit \div ELASTICITY_MULTIPLIER = 0 /\ gas_used > 0

\* fee * delta / target / 8, rounding down twice as the code does.
FeeDelta(fee, delta, target) ==
    ((fee * delta) \div target) \div BASE_FEE_MAX_CHANGE_DENOMINATOR

\* The bug of a rise that rounds down to nothing.
FeeThatMayNotRise(fee, gas_used, gas_limit) ==
    LET target == gas_limit \div ELASTICITY_MULTIPLIER IN
    IF gas_used = target THEN fee
    ELSE IF gas_used > target
         THEN fee + FeeDelta(fee, gas_used - target, target)
         ELSE fee - FeeDelta(fee, target - gas_used, target)

\* The bug of letting the least change apply both ways.
FeeThatAlwaysMoves(fee, gas_used, gas_limit) ==
    LET target == gas_limit \div ELASTICITY_MULTIPLIER
        AtLeastOne(n) == IF n < 1 THEN 1 ELSE n
    IN  IF gas_used = target THEN fee
        ELSE IF gas_used > target
             THEN fee + AtLeastOne(FeeDelta(fee, gas_used - target, target))
             ELSE fee - AtLeastOne(FeeDelta(fee, target - gas_used, target))

\* Above the target the fee rises by at least 1, below it it falls, stopping
\* at 0.  Only for parents that do not panic.
expected_base_fee_per_gas(fee, gas_used, gas_limit) ==
    LET target == gas_limit \div ELASTICITY_MULTIPLIER
        rise == FeeDelta(fee, gas_used - target, target)
        fall == FeeDelta(fee, target - gas_used, target)
    IN  IF gas_used = target THEN fee
        ELSE IF gas_used > target
             THEN fee + (IF rise < 1 THEN 1 ELSE rise)
             ELSE IF fall > fee THEN 0 ELSE fee - fall
=============================================================================
