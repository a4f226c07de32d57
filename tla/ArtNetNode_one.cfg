\* One port, six streams of three controllers: slots, timeouts, who gets in.
CONSTANTS
    Ports = {0}
    MaxLevel = 0
    MergeModes = {"HTP", "LTP"}
    PortAddresses = {0}
    c1 = c1
    c2 = c2
    c3 = c3
    Controllers = {c1, c2, c3}
    NoController = NoController
    Physicals = {1, 2}
    NoPhysical = 256
    LossTimeout = 1
    MergeTimeout = 1
    SyncTimeout = 1
    FailSafes = {"OFF"}
    Protocols = {"ARTNET"}
    DisableMergeTimeout = FALSE
SPECIFICATION Spec
SYMMETRY Interchangeable
INVARIANTS TypeOK SlotsDiffer
PROPERTIES DiscardedForTwoLive
