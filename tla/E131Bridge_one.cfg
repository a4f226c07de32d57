\* One port, three sources of two priorities: merging, priorities, data loss,
\* and what happens when the packets stop.
CONSTANTS
    Ports = {0}
    MaxLevel = 0
    MergeModes = {"HTP"}
    Universes = {1}
    s1 = s1
    s2 = s2
    s3 = s3
    Senders = {s1, s2, s3}
    NoSender = NoSender
    Priorities = {1, 2}
    PacketOptions = {"PREVIEW_DATA", "STREAM_TERMINATED"}
    SyncAddresses = {0}
    SequenceModulus = 2
    SequenceWindow = 1
    LossTimeout = 1
    MergeTimeout = 2
    PriorityTimeout = 2
    FailSafes = {"PLAYBACK"}
    DisableMergeTimeout = FALSE
    DisableSynchronize = FALSE
SPECIFICATION Spec
INVARIANTS TypeOK DistinctSources
PROPERTIES PriorityIsHeld SilenceLeadsToLoss
