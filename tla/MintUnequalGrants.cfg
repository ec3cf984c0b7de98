SPECIFICATION MintSpec
CONSTANTS
    Requests = {r1, r2}
    a1 = a1
    Addresses = {Zero, Factory, Paymaster, a1}
    ZeroAddress = Zero
    AccountFactory = Factory
    PaymasterAddress = Paymaster
    MaxSalt = 1
    Create2 <- MCCreate2
    InitialETH = 10000
    MaxRestarts = 0
    Sequential = TRUE
INVARIANTS
    EqualGrants
CHECK_DEADLOCK FALSE
