\* Two ports of one address, every kind of command.
CONSTANTS
    Ports = {0, 1}
    MaxLevel = 0
    MergeModes = {"HTP"}
    PortAddresses = {0}
    MapUniverse0 = TRUE
    c1 = c1
    c2 = c2
    s1 = s1
    s2 = s2
    Controllers = {c1}
    NoController = NoController
    Physicals = {1}
    NoPhysical = 256
    Senders = {s1}
    NoSender = NoSender
    Priorities = {1}
    PacketOptions = {}
    SyncAddresses = {0}
    SequenceModulus = 1
    SequenceWindow = 0
    ArtNetLossTimeout = 0
    SacnLossTimeout = 0
    ArtNetMergeTimeout = 0
    SacnMergeTimeout = 0
    SyncTimeout = 0
    PriorityTimeout = 0
    ArtNetCommands = {"CANCEL", "CLR", "STYLE"}
    FailSafes = {"PLAYBACK"}
    Protocols = {"ARTNET", "SACN"}
    DisableMergeTimeout = FALSE
    DisableSynchronize = FALSE
SPECIFICATION Spec
INVARIANTS OwnPorts
