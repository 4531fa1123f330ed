--------------------------- MODULE BaseFeeProofs ---------------------------
(***************************************************************************)
(* expected_base_fee_per_gas is the base fee of EIP-1559 for every fee and *)
(* every parent block, and no chain of blocks brings it down to 0.         *)
(***************************************************************************)
EXTENDS MCBaseFee, TLAPS

-----------------------------------------------------------------------------
(* Division.                                                               *)

\* \div on natural numbers is the quotient that rounds down.
LEMMA DivisionIsQuotient ==
    ASSUME NEW a \in Nat, NEW b \in Nat \ {0}
    PROVE  a \div b \in Nat /\ IsQuotient(a \div b, a, b)
<1>1. (a \div b) * b <= a /\ a < (a \div b + 1) * b
  OBVIOUS
<1> QED
  BY <1>1 DEF IsQuotient

\* Dividing twice and rounding down each time, as the code does, is dividing
\* once by the product.
LEMMA NestedDivision ==
    ASSUME NEW a \in Nat, NEW b \in Nat \ {0}, NEW c \in Nat \ {0}
    PROVE  IsQuotient((a \div b) \div c, a, c * b)
<1> DEFINE q == a \div b
           n == q \div c
<1>1. q \in Nat /\ q * b <= a /\ a < (q + 1) * b
  BY DivisionIsQuotient DEF IsQuotient
<1> HIDE DEF q
<1>2. n \in Nat /\ n * c <= q /\ q < (n + 1) * c
  BY <1>1, DivisionIsQuotient DEF IsQuotient
<1> HIDE DEF n
<1>3. (n * c) * b <= q * b
  BY <1>1, <1>2
<1>4. n * (c * b) = (n * c) * b
  BY <1>2
<1>5. q + 1 <= (n + 1) * c
  BY <1>1, <1>2
<1>6. (q + 1) * b <= ((n + 1) * c) * b
  BY <1>1, <1>2, <1>5
<1>7. ((n + 1) * c) * b = (n + 1) * (c * b)
  BY <1>2
<1> QED
  BY <1>1, <1>2, <1>3, <1>4, <1>6, <1>7 DEF IsQuotient, n, q

\* FeeDelta is the quotient by eight targets, for any distance.
LEMMA FeeDeltaIsQuotient ==
    ASSUME NEW old \in Nat, NEW delta \in Nat, NEW target \in Nat \ {0}
    PROVE  /\ FeeDelta(old, delta, target) \in Nat
           /\ IsQuotient(FeeDelta(old, delta, target), old * delta, 8 * target)
<1> DEFINE a == old * delta
<1>1. a \in Nat /\ 8 \in Nat \ {0}
  OBVIOUS
<1>2. FeeDelta(old, delta, target) = (a \div target) \div 8
  BY DEF FeeDelta, BASE_FEE_MAX_CHANGE_DENOMINATOR
<1> HIDE DEF a
<1>3. a \div target \in Nat
  BY <1>1, DivisionIsQuotient
<1>4. (a \div target) \div 8 \in Nat
  BY <1>1, <1>3, DivisionIsQuotient
<1>5. IsQuotient((a \div target) \div 8, a, 8 * target)
  BY <1>1, NestedDivision
<1> QED
  BY <1>2, <1>4, <1>5 DEF a

\* A fall is at most an eighth of the fee: saturating_sub never saturates.
LEMMA FallIsSmall ==
    ASSUME NEW old \in Nat \ {0}, NEW delta \in Nat, NEW target \in Nat \ {0},
           delta <= target
    PROVE  FeeDelta(old, delta, target) < old
<1> DEFINE n == FeeDelta(old, delta, target)
<1>1. n \in Nat /\ n * (8 * target) <= old * delta
  BY FeeDeltaIsQuotient DEF IsQuotient
<1> HIDE DEF n
<1>2. old * delta <= old * target
  OBVIOUS
<1>3. n * (8 * target) = (n * 8) * target
  BY <1>1
<1>4. (n * 8) * target <= old * target
  BY <1>1, <1>2, <1>3
<1>5. n * 8 <= old
  <2> SUFFICES ASSUME n * 8 > old PROVE FALSE
    BY <1>1
  <2>1. n * 8 >= old + 1
    BY <1>1
  <2>2. (n * 8) * target >= (old + 1) * target
    BY <1>1, <2>1
  <2>3. (old + 1) * target = old * target + target
    OBVIOUS
  <2> QED
    BY <1>1, <1>4, <2>2, <2>3
<1> QED
  BY <1>1, <1>5 DEF n

-----------------------------------------------------------------------------
(* The fee of a child.                                                     *)

\* A block whose target is not 0, with a fee, and no more gas than its limit.
Sound(p) ==
    /\ p.base_fee_per_gas \in Nat \ {0}
    /\ p.gas_used \in Nat
    /\ p.gas_limit \in Nat
    /\ p.gas_limit >= 2
    /\ p.gas_used <= p.gas_limit

\* FeeFollowsEip1559 of any parent p and fee f of its child.
Follows(p, f) ==
    LET target == p.gas_limit \div 2
        old == p.base_fee_per_gas
        distance == p.gas_used - target
    IN  \/ distance = 0 /\ f = old
        \/ /\ distance > 0
           /\ \/ IsQuotient(f - old, old * distance, 8 * target)
              \/ f - old = 1 /\ old * distance < 8 * target
           /\ f > old
        \/ /\ distance < 0
           /\ IsQuotient(old - f, old * (0 - distance), 8 * target)

\* The child of any sound block has a positive fee, the one of EIP-1559.
LEMMA ChildFee ==
    ASSUME NEW p, Sound(p)
    PROVE  Expected(p) \in Nat \ {0} /\ Follows(p, Expected(p))
<1> DEFINE old == p.base_fee_per_gas
           used == p.gas_used
           target == p.gas_limit \div 2
           rise == FeeDelta(old, used - target, target)
           fall == FeeDelta(old, target - used, target)
<1>1. old \in Nat \ {0} /\ used \in Nat
  BY DEF Sound
<1>2. target \in Nat \ {0}
  BY DEF Sound
<1>3. Expected(p) =
        IF used = target THEN old
        ELSE IF used > target
             THEN old + (IF rise < 1 THEN 1 ELSE rise)
             ELSE IF fall > old THEN 0 ELSE old - fall
  BY DEF Expected, expected_base_fee_per_gas, ELASTICITY_MULTIPLIER
<1>4. Follows(p, Expected(p)) <=>
        \/ used - target = 0 /\ Expected(p) = old
        \/ /\ used - target > 0
           /\ \/ IsQuotient(Expected(p) - old, old * (used - target),
                            8 * target)
              \/ /\ Expected(p) - old = 1
                 /\ old * (used - target) < 8 * target
           /\ Expected(p) > old
        \/ /\ used - target < 0
           /\ IsQuotient(old - Expected(p), old * (0 - (used - target)),
                         8 * target)
  BY DEF Follows
<1> HIDE DEF old, used, target, rise, fall
<1>5. CASE used = target
  BY <1>1, <1>2, <1>3, <1>4, <1>5
<1>6. CASE used > target
  <2>1. used - target \in Nat
    BY <1>1, <1>2, <1>6
  <2>2. rise \in Nat /\ IsQuotient(rise, old * (used - target), 8 * target)
    BY <1>1, <1>2, <2>1, FeeDeltaIsQuotient DEF rise
  <2>3. CASE rise < 1
    <3>1. rise = 0 /\ Expected(p) = old + 1
      BY <1>1, <1>2, <1>3, <1>6, <2>2, <2>3
    <3>2. old * (used - target) < 8 * target
      BY <1>1, <1>2, <2>1, <2>2, <3>1 DEF IsQuotient
    <3> QED
      BY <1>1, <1>2, <1>4, <1>6, <2>1, <3>1, <3>2
  <2>4. CASE ~(rise < 1)
    <3>1. /\ Expected(p) = old + rise
          /\ Expected(p) - old = rise /\ Expected(p) > old
      BY <1>1, <1>2, <1>3, <1>6, <2>2, <2>4
    <3> QED
      BY <1>1, <1>2, <1>4, <1>6, <2>1, <2>2, <3>1
  <2> QED
    BY <2>3, <2>4
<1>7. CASE used < target
  <2>1. target - used \in Nat /\ target - used <= target
    BY <1>1, <1>2, <1>7
  <2>2. fall \in Nat /\ IsQuotient(fall, old * (target - used), 8 * target)
    BY <1>1, <1>2, <2>1, FeeDeltaIsQuotient DEF fall
  <2>3. fall < old
    BY <1>1, <1>2, <2>1, FallIsSmall DEF fall
  <2>4. /\ Expected(p) = old - fall /\ old - Expected(p) = fall
        /\ Expected(p) \in Nat \ {0}
    BY <1>1, <1>2, <1>3, <1>7, <2>2, <2>3
  <2>5. 0 - (used - target) = target - used /\ used - target < 0
    BY <1>1, <1>2, <1>7
  <2> QED
    BY <1>4, <2>2, <2>4, <2>5
<1> QED
  BY <1>1, <1>2, <1>5, <1>6, <1>7

-----------------------------------------------------------------------------
(* Chains.                                                                 *)

\* The inductive invariant: the parent is sound and fee is its child's.
ChainInv == Sound(parent) /\ fee = Expected(parent)

\* Every block with a positive fee is sound, if it keeps to its gas limit.
LEMMA BlocksAreSound ==
    ASSUME NEW f \in Nat \ {0}, NEW p \in BlocksWithFee(f),
           p.gas_used <= p.gas_limit
    PROVE  Sound(p)
BY BoundsAssumption DEF BlocksWithFee, Sound

\* ChainInv holds of every chain: a child inherits a positive fee.
LEMMA ChainInvariant == Spec => []ChainInv
<1>1. Init => ChainInv
  <2> SUFFICES ASSUME Init PROVE ChainInv
    OBVIOUS
  <2>1. PICK f \in 1 .. MaxFee : parent \in BlocksWithFee(f)
    BY DEF Init
  <2>2. f \in Nat \ {0} /\ parent.gas_used <= parent.gas_limit
    BY BoundsAssumption DEF Init
  <2> QED
    BY <2>1, <2>2, BlocksAreSound DEF Init, ChainInv
<1>2. ChainInv /\ [Next]_vars => ChainInv'
  <2> SUFFICES ASSUME ChainInv, [Next]_vars PROVE ChainInv'
    OBVIOUS
  <2>1. CASE NextBlock
    <3>1. fee \in Nat \ {0}
      BY ChildFee DEF ChainInv
    <3>2. /\ parent' \in BlocksWithFee(fee)
          /\ parent'.gas_used <= parent'.gas_limit
      BY <2>1 DEF NextBlock
    <3>3. Sound(parent')
      BY <3>1, <3>2, BlocksAreSound
    <3> QED
      BY <2>1, <3>3 DEF NextBlock, ChainInv, Expected
  <2>2. CASE UNCHANGED vars
    BY <2>2 DEF vars, ChainInv, Expected
  <2> QED
    BY <2>1, <2>2 DEF Next, Rest
<1> QED
  BY <1>1, <1>2, PTL DEF Spec

-----------------------------------------------------------------------------
(* The theorems.                                                           *)

\* The fee base_fee.rs expects is that of EIP-1559, for every fee, gas limit
\* and gas used: neither the two divisions, nor the order of operations, nor
\* the saturating subtraction makes a difference.
THEOREM FollowsEip1559 == Spec => []FeeFollowsEip1559
<1>1. ChainInv => FeeFollowsEip1559
  BY ChildFee DEF ChainInv, Follows, FeeFollowsEip1559
<1> QED
  BY <1>1, ChainInvariant, PTL

\* No chain of blocks, however long and empty, brings the fee to 0.
THEOREM StaysPositive == Spec => []FeeStaysPositive
<1>1. ChainInv => FeeStaysPositive
  BY ChildFee DEF ChainInv, FeeStaysPositive
<1> QED
  BY <1>1, ChainInvariant, PTL
=============================================================================
