SPECIFICATION FairSpec
CONSTANTS
    a1 = a1
    a2 = a2
    a3 = a3
    Requests = {r1, r2}
    Addresses = {Zero, Factory, Paymaster, a1, a2, a3}
    ZeroAddress = Zero
    AccountFactory = Factory
    PaymasterAddress = Paymaster
    MaxSalt = 2
    Create2 <- TwoWallets
    InitialETH = 10000
    MaxRestarts = 1
    Sequential = FALSE
    TransferData = {withdrawETH, withdrawERC20}
    Estimates <- OneEstimate
    Fees = {2}
    Byte = 16
    Half = 5
    MaxInt64 = 100000
    Times = {1000}
INVARIANTS
    TypeOK
    RowsWithinIndex
    ProvidedWithinNext
    RegisteredWasSubmitted
    SpenderRegistered
PROPERTIES
    CreationIsFresh
    RequestAnswered
CHECK_DEADLOCK FALSE
