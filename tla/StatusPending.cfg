SPECIFICATION StatusSpec
CONSTANTS
    a1 = a1
    Requests = {r1, r2}
    Addresses = {Zero, Factory, Paymaster, a1}
    ZeroAddress = Zero
    AccountFactory = Factory
    PaymasterAddress = Paymaster
    MaxSalt = 1
    Create2 <- OneWallet
    InitialETH = 10000
    MaxRestarts = 0
    Sequential = FALSE
    TransferData = {}
    Estimates <- OneEstimate
    Fees = {2}
    Byte = 16
    Half = 5
    MaxInt64 = 100000
    Times = {1000}
INVARIANTS
    FalseMeansFailed
CHECK_DEADLOCK FALSE
