\* The failsafe in the delta style, which is the default.
CONSTANTS
    MaxSlots = 3
    FifoSize = 2
    MaxLevel = 1
    Lengths = {1, 2, 3}
    Sessions <- OnlyPackets
SPECIFICATION Spec
PROPERTIES FailSafeIsShown
