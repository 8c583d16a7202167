CONSTANTS
    W = 2
    N = 4
    L = 7
    Order = "Lsb0"
    Ops = {"set", "not", "store"}
SPECIFICATION Spec
PROPERTY ArrayConfined
