SPECIFICATION Spec
INVARIANTS
    ElectionChoosesBest
    SeenOrdered
    SeenAtMaxAge
CONSTANTS
    MaxOthers = 3
    SeqMod = 4
    ChecksumMod = 2
    AgeMod = 6
    MAX_AGE = 4
    MAX_AGE_DIFF = 2
    AgeCap = 1
CHECK_DEADLOCK FALSE
