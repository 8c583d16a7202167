CONSTANTS
    W = 2
    N = 3
    L = 7
    Order = "Msb0"
    Ops = {"set", "and", "or", "xor"}
SPECIFICATION Spec
INVARIANT TypeOK
INVARIANT ViewAgrees
PROPERTY ArrayConfined
