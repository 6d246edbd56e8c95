SPECIFICATION Spec
CONSTANTS
    MaxBoots = 2
    MaxWarnings = 1
INVARIANTS ResultWhole CleanExitExplained SettledTidily
PROPERTY AllEnds
