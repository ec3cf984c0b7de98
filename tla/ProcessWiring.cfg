SPECIFICATION Spec
CONSTANTS
    Requests = {r1, r2, r3}
    Salts = {1, 2}
    Files <- SomeFiles
    Envs <- SomeEnvs
    ValidKeys = {"k1", "k2", "k3"}
    Empty = ""
SYMMETRY RequestSymmetry
INVARIANTS
    AddressesAgree
    SignsAsOwner
CHECK_DEADLOCK FALSE
