CONSTANTS
    NsClients = {k1, k2}
    MaxBytes = 3
    Modulus = 16
INIT NetworkInit
NEXT NetworkNext
CHECK_DEADLOCK FALSE
INVARIANT
    NoUnderflow
