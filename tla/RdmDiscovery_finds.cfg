\* UIDs 0 to 6, two devices that differ in the last bit.
CONSTANTS
    Devices = {2, 3}
    Quarter = 2
    UnmuteCounter = 3
    MuteCounter = 3
    DiscoveryCounter = 3
    QuickFindDiscoveryCounter = 3
    TableSize = 3
    MaxLosses = 2
    MaxMoves = 1
SPECIFICATION Spec
INVARIANTS
    NoneForgotten
    NoGhosts
    BranchesFit
PROPERTIES
    SearchEnds
