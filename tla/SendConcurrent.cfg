SPECIFICATION SendSpec
CONSTANTS
    a1 = a1
    a2 = a2
    Requests = {r1, r2, r3}
    Addresses = {Zero, Factory, Paymaster, a1}
    ZeroAddress = Zero
    AccountFactory = Factory
    PaymasterAddress = Paymaster
    MaxSalt = 1
    Create2 <- OneWallet
    InitialETH = 10000
    MaxRestarts = 0
    Sequential = FALSE
    TransferData = {}
    Estimates <- OneEstimate
    Fees = {2}
    Byte = 16
    Half = 5
    MaxInt64 = 100000
    Times = {1000}
SYMMETRY RequestSymmetry
INVARIANTS
    SendTypeOK
    MempoolCurrent
    StrandedByCreations
PROPERTIES
    ImplementsLife
CHECK_DEADLOCK FALSE
