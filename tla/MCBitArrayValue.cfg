CONSTANTS
    W = 2
    N = 3
    Order = "Msb0"
    Handles = {"a", "b"}
SPECIFICATION Spec
INVARIANT TypeOK
PROPERTY ImplementsAbstract
