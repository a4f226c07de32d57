\* Two ports on two universes, which also serve as synchronization addresses:
\* synchronization, multicast groups, the sequence numbers.
CONSTANTS
    Ports = {0, 1}
    MaxLevel = 1
    MergeModes = {}
    Universes = {1, 2}
    s1 = s1
    s2 = s2
    s3 = s3
    Senders = {s1}
    NoSender = NoSender
    Priorities = {1}
    PacketOptions = {"FORCE_SYNCHRONIZATION"}
    SyncAddresses = {2}
    SequenceModulus = 1
    SequenceWindow = 0
    LossTimeout = 1
    MergeTimeout = 0
    PriorityTimeout = 0
    FailSafes = {}
    DisableMergeTimeout = FALSE
    DisableSynchronize = FALSE
SPECIFICATION Spec
INVARIANTS TransmitImpliesStarted DataIsKept OutputUniversesJoined OutputIsCurrent 
PROPERTIES SynchronizedTogether
