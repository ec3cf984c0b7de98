SPECIFICATION Spec
CONSTANTS
    a1 = a1
    a2 = a2
    a3 = a3
    Requests = {r1, r2, r3}
    Addresses = {Zero, Factory, Paymaster, a1, a2, a3}
    ZeroAddress = Zero
    AccountFactory = Factory
    PaymasterAddress = Paymaster
    MaxSalt = 3
    Create2 <- ThreeWallets
    InitialETH = 10000
    MaxRestarts = 1
    Sequential = TRUE
    TransferData = {withdrawETH, withdrawERC20}
    Estimates <- OneEstimate
    Fees = {2}
    Byte = 16
    Half = 5
    MaxInt64 = 100000
    Times = {1000}
SYMMETRY RequestSymmetry
INVARIANTS
    RowsAreSalts
    OrphanIsNext
PROPERTIES
    ImplementsRegistry
CHECK_DEADLOCK FALSE
