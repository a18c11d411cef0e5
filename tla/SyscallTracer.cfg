SPECIFICATION Spec
CONSTANTS
    Configs <- SoundConfigs
    MaxSignals = 2
    MaxNest = 1
INVARIANTS NoEscape RunsWhatItAsked
PROPERTIES PhaseAgreement SigsysNeverKills EveryEntryIsClosed
