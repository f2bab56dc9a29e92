\* A request to restore the initial settings, with nothing in its way.
SPECIFICATION FairSpec
CONSTANTS
    Keys = {"TYPE", "reset", "osd_region", "osd_x", "cld_id", "enc_type"}
    Names = {"a"}
    USER_MAX = 1
    MaxPairs = 2
    MaxShort = 0
PROPERTY ResetEnds
