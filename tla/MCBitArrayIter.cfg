CONSTANTS
    W = 3
    N = 5
    Order = "Msb0"
    UsizeMax = 7
SPECIFICATION Spec
INVARIANT TypeOK
PROPERTY Fused
