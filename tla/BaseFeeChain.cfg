SPECIFICATION Spec
CONSTANTS
    MaxFee = 40
    MaxGasLimit = 9
INVARIANTS
    FeeFollowsEip1559
    FeeStaysPositive
