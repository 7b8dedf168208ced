SPECIFICATION FairSpec
CONSTANTS
    Handlers <- TwoHandlers
    Loop = "loop"
    Keys <- TwoSettings
    Updates <- ThreeSaves
    Limit = 2
    MaxRestarts = 1
    Mixes <- OneKindEach
INVARIANTS FormBounded FilesWhole SettingsKept VoiceWhole
PROPERTIES LockoutEnds StatusSettles
