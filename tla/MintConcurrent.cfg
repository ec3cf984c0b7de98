SPECIFICATION MintFairSpec
CONSTANTS
    Requests = {r1, r2, r3}
    a1 = a1
    Addresses = {Zero, Factory, Paymaster, a1}
    ZeroAddress = Zero
    AccountFactory = Factory
    PaymasterAddress = Paymaster
    MaxSalt = 1
    Create2 <- MCCreate2
    InitialETH = 10000
    MaxRestarts = 1
    Sequential = FALSE
INVARIANTS
    MintTypeOK
    GrantBounded
    DividedOncePerCall
    NoncesContiguous
    WaiterAccountedFor
PROPERTIES
    MintReturns
CHECK_DEADLOCK FALSE
