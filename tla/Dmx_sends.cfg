\* One port and fixtures that know it; RDM and the style in sessions apart.
CONSTANTS
    MaxSlots = 3
    FifoSize = 2
    MaxLevel = 1
    Lengths = {1, 2, 3}
    Sessions <- Apart
SPECIFICATION Spec
INVARIANTS FramesAreWhole RdmHasTheLine
PROPERTIES CallsReturn NewestIsShown
