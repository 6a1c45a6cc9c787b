SPECIFICATION Spec
CONSTANTS
    Cap = 2
    Modulus = 4
    Setups <- TwoTasks
    Lengths = {1}
    Stamp = 3
INVARIANTS Doorbell
