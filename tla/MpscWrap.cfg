SPECIFICATION RingSpec
CONSTANTS
    Producers = {p1}
    Data = {a}
    Torn = Torn
    RingCap = 2
    RingMod = 4
    MaxIn = 5
PROPERTIES MissIsJustified
CHECK_DEADLOCK FALSE
