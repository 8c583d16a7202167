CONSTANTS
    W = 2
    N = 3
    L = 7
    Order = "Msb0"
    Ops = {"set"}
SPECIFICATION Spec
INVARIANT MisalignedAsSpecified
