\* Every kind of device, changes and power loss at any step of a save.
CONSTANTS
    Devices = {"spi", "i2c", "file", "fmc"}
    Ports = {0}
    Labels = {1}
    UtcOffsets = {0}
    DmxValues = {1, 2}
    DefaultDmx = 1
    Noise = {0}
    PageWords = 4
    BlockWords = 3
    Blank = Blank
    Spoiled = Spoiled
SPECIFICATION Spec
INVARIANTS IdleIsSaved NothingSpoiled
PROPERTIES SavesEnd ImplementsSettings
