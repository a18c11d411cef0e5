SPECIFICATION Spec
CONSTANTS
    MaxLinks = 8
    MaxScripts = 3
    IntBits = 3
    WordBits = 6
    Contents <- Programs
    Worlds <- AllWorlds
    GuestPaths <- Paths
    LinkTargets <- Targets
    Modes = {1, 2}
    Registers <- SomeRegisters
    ProbeNums <- OneOfEach
PROPERTY SetsWhatItNames
CHECK_DEADLOCK FALSE
