SPECIFICATION ProvisionSpec
CONSTANTS
    Boots = {b1, b2}
    QqFiles = {wrapper, dll}
    Wrapper = wrapper
    MaxBoots = 2
INVARIANT StartsTogether
CHECK_DEADLOCK FALSE
