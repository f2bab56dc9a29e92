\* The comments on GetOneVideoPos and FindByTimeTick against the code.
CONSTANTS
    Readers = {r1}
    PoolCount = 3
    MainCount = 3
    BufUnits = 3
    MaxTick = 4
SPECIFICATION Spec
PROPERTIES JoinOrSkipAtKey
