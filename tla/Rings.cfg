SPECIFICATION RingsSpec
CONSTANTS
    Cap = 2
    Modulus = 4
    Setups <- Everyone
    Lengths = {1, 3}
    Stamp = 3
    Producers = {p1, p2}
    Data = {a, b}
    Torn = Torn
    RingCap = 2
    RingMod = 8
    MaxIn = 3
INVARIANTS TypeOK DoorbellWithIsr RingTypeOK
PROPERTIES ImplementsStream SleeperReturns ImplementsQueue AllDelivered
CHECK_DEADLOCK FALSE
