\* One port that both protocols can drive, with synchronization of both.
CONSTANTS
    Ports = {0}
    MaxLevel = 1
    MergeModes = {}
    PortAddresses = {0, 1}
    MapUniverse0 = TRUE
    c1 = c1
    c2 = c2
    s1 = s1
    s2 = s2
    Controllers = {c1}
    NoController = NoController
    Physicals = {1}
    NoPhysical = 256
    Senders = {s1}
    NoSender = NoSender
    Priorities = {1}
    PacketOptions = {}
    SyncAddresses = {0, 1}
    SequenceModulus = 1
    SequenceWindow = 0
    ArtNetLossTimeout = 0
    SacnLossTimeout = 0
    ArtNetMergeTimeout = 0
    SacnMergeTimeout = 0
    SyncTimeout = 1
    PriorityTimeout = 0
    ArtNetCommands = {"CLR", "STYLE"}
    FailSafes = {}
    Protocols = {"ARTNET", "SACN"}
    DisableMergeTimeout = FALSE
    DisableSynchronize = FALSE
SPECIFICATION Spec
INVARIANTS SacnOutputsListen OutputIsCurrent
