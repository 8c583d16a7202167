CONSTANTS
    W = 2
    N = 3
    L = 7
    Order = "Lsb0"
    Ops = {"store"}
SPECIFICATION Spec
PROPERTY ArrayConfined
