\* Requests about users.
SPECIFICATION Spec
CONSTANTS
    Keys = {"TYPE", "user_opt_type", "user_name", "user_password"}
    Names = {"a", "b"}
    USER_MAX = 2
    MaxPairs = 4
    MaxShort = 0
PROPERTY DeletedUserStaysDeleted
