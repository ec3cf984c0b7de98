SPECIFICATION ReadsSpec
CONSTANTS
    a1 = a1
    a2 = a2
    Requests = {r1, r2}
    Readers = {g1}
    Addresses = {Zero, Factory, Paymaster, a1, a2}
    ZeroAddress = Zero
    AccountFactory = Factory
    PaymasterAddress = Paymaster
    MaxSalt = 2
    Create2 <- TwoWallets
    InitialETH = 10000
    MaxRestarts = 1
    Sequential = FALSE
    TransferData = {withdrawETH}
    Estimates <- OneEstimate
    Fees = {2}
    Byte = 16
    Half = 5
    MaxInt64 = 100000
    Times = {1000, 1001}
SYMMETRY RequestSymmetry
INVARIANTS
    ListReadsWrites
    BalanceIsReal
    TrueMeansExecuted
CHECK_DEADLOCK FALSE
