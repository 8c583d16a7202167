CONSTANTS
    W = 3
    N = 5
    Order = "Lsb0"
    UsizeMax = 7
SPECIFICATION DrainSpec
PROPERTY Drains
