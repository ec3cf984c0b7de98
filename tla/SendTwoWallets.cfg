SPECIFICATION SendSpec
CONSTANTS
    a1 = a1
    a2 = a2
    Requests = {r1, r2}
    Addresses = {Zero, Factory, Paymaster, a1, a2}
    ZeroAddress = Zero
    AccountFactory = Factory
    PaymasterAddress = Paymaster
    MaxSalt = 2
    Create2 <- TwoWallets
    InitialETH = 10000
    MaxRestarts = 1
    Sequential = FALSE
    TransferData = {withdrawETH}
    Estimates <- SomeEstimates
    Fees = {2, 1048575}
    Byte = 16
    Half = 5
    MaxInt64 = 100000
    Times = {1000}
SYMMETRY RequestSymmetry
INVARIANTS
    CreationFunded
    SubmittedVerifies
PROPERTIES
    MintSpec
CHECK_DEADLOCK FALSE
