\* Packages, parts of packages and noise in any order, cut anywhere.
SPECIFICATION Spec
CONSTANTS
    Byte = {0, 2, 3}
    Mark = 3
    IdMax = 0
    PackLen = 5
    Size = 8
    MaxBytes = 10
PROPERTIES LineSpec OnlyBurstsLose
CHECK_DEADLOCK FALSE
