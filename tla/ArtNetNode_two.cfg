\* Two ports of one address, synchronous mode, the failsafe scene.
CONSTANTS
    Ports = {0, 1}
    MaxLevel = 1
    MergeModes = {"HTP"}
    PortAddresses = {0}
    c1 = c1
    c2 = c2
    c3 = c3
    Controllers = {c1}
    NoController = NoController
    Physicals = {1}
    NoPhysical = 256
    LossTimeout = 1
    MergeTimeout = 1
    SyncTimeout = 1
    FailSafes = {"PLAYBACK"}
    Protocols = {"ARTNET"}
    DisableMergeTimeout = FALSE
SPECIFICATION Spec
INVARIANTS OutputIsCurrent
PROPERTIES SynchronizedTogether SilenceFreesSources
