\* One device: targets edited at will while the temperature moves.
SPECIFICATION Spec
CONSTANTS
    NumDevice = 1
    Config <- MCConfig
    Temp <- MCTemp
    MaxTime = 4
INVARIANTS TypeOK
PROPERTIES NeverSilent NotRepeated StagesInOrder RemindersSpaced NewsIsRecent
