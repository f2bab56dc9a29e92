\* One key at least for each action, four pairs in one or two requests,
\* a write that fails, and the power failing anywhere.
SPECIFICATION Spec
CONSTANTS
    Keys = {"TYPE", "Chn", "osd_region", "osd_x", "net_ip", "net_macaddr",
            "bit_rate", "cld_id", "sys_devtype", "user_opt_type", "user_name",
            "user_password", "ptz_allpresets", "reboot", "reset"}
    Names = {"a"}
    USER_MAX = 1
    MaxPairs = 4
    MaxShort = 1
INVARIANTS TypeOK Saved
PROPERTIES NothingElseLost AddressesAgree
